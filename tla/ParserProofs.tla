----------------------------- MODULE ParserProofs -----------------------------
(***************************************************************************)
(* The parser generated from aql/aql.y, for texts of any length and stacks *)
(* of any depth: from what its tables say of each state (Automaton) to     *)
(* what it does with a text.                                               *)
(***************************************************************************)
EXTENDS Automaton, ChainProofs

LEMMA Begin == PartsBegin
BY AutomatonFits

(***************************************************************************)
(* Forms and what they open to.                                            *)
(***************************************************************************)

LEMMA PartsAndTokens ==
  /\ Parts \cap Tokens = {} /\ Parts \subseteq Nonterminals
  /\ \A X \in Symbols : X \in Nonterminals <=> X \in Parts
BY Begin DEF PartsBegin, Parts, Symbols

(* A form is empty or a symbol in front of a form.                         *)
LEMMA FormCons ==
  ASSUME NEW X \in Symbols, NEW d \in Forms
  PROVE  /\ <<X>> \o d \in Forms /\ <<X>> \o d # <<>>
         /\ Head(<<X>> \o d) = X /\ Tail(<<X>> \o d) = d
<1>1. <<X>> \in Seq(Symbols) /\ Len(<<X>>) = 1 /\ <<X>>[1] = X
  OBVIOUS
<1>2. /\ <<X>> \o d \in Seq(Symbols)
      /\ Len(<<X>> \o d) = 1 + Len(d)
      /\ \A i \in 1 .. 1 + Len(d) : (<<X>> \o d)[i] = IF i <= 1 THEN <<X>>[i] ELSE d[i - 1]
  BY <1>1, ConcatProperties DEF Forms
<1>3. d \in Seq(Symbols) /\ Len(d) \in Nat
  BY LenProperties DEF Forms
<1> DEFINE f == <<X>> \o d
<1>4. f \in Seq(Symbols) /\ Len(f) = 1 + Len(d) /\ f[1] = X
      /\ \A i \in 1 .. Len(d) : f[i + 1] = d[i]
  BY <1>1, <1>2, <1>3
<1> HIDE DEF f
<1>5. f # <<>>
  BY <1>4, <1>3, EmptySeq
<1>6. /\ Tail(f) \in Seq(Symbols) /\ Len(Tail(f)) = Len(f) - 1
      /\ \A i \in 1 .. Len(Tail(f)) : Tail(f)[i] = f[i + 1]
  BY <1>4, <1>5, HeadTailProperties
<1>7. Len(Tail(f)) = Len(d) /\ \A i \in 1 .. Len(Tail(f)) : Tail(f)[i] = d[i]
  BY <1>3, <1>4, <1>6
<1>8. Tail(f) = d
  BY <1>3, <1>6, <1>7, SeqEqual
<1>9. Head(f) = X
  BY <1>4, <1>5
<1> QED BY <1>4, <1>5, <1>8, <1>9 DEF f, Forms

LEMMA FormSplit ==
  ASSUME NEW f \in Forms, f # <<>>
  PROVE  /\ Head(f) \in Symbols /\ Tail(f) \in Forms
         /\ f = <<Head(f)>> \o Tail(f)
<1>1. f \in Seq(Symbols) /\ Len(f) \in Nat \ {0}
  BY EmptySeq DEF Forms
<1>2. /\ Head(f) \in Symbols /\ Tail(f) \in Seq(Symbols)
      /\ Len(Tail(f)) = Len(f) - 1
      /\ \A i \in 1 .. Len(Tail(f)) : Tail(f)[i] = f[i + 1]
  BY <1>1, HeadTailProperties
<1>3. Head(f) = f[1]
  BY <1>1
<1>4. <<Head(f)>> \in Seq(Symbols) /\ Len(<<Head(f)>>) = 1 /\ <<Head(f)>>[1] = Head(f)
  BY <1>2
<1> DEFINE g == <<Head(f)>> \o Tail(f)
<1>5. /\ g \in Seq(Symbols) /\ Len(g) = 1 + Len(Tail(f))
      /\ \A i \in 1 .. 1 + Len(Tail(f)) :
           g[i] = IF i <= 1 THEN <<Head(f)>>[i] ELSE Tail(f)[i - 1]
  BY <1>2, <1>4, ConcatProperties
<1> HIDE DEF g
<1>6. Len(g) = Len(f)
  BY <1>1, <1>2, <1>5
<1>7. ASSUME NEW i \in 1 .. Len(f) PROVE f[i] = g[i]
  BY <1>1, <1>2, <1>3, <1>4, <1>5
<1>8. f = g
  BY <1>1, <1>5, <1>6, <1>7, SeqEqual
<1> QED BY <1>2, <1>8 DEF g, Forms

LEMMA ConcatForms ==
  ASSUME NEW d \in Forms, NEW e \in Forms
  PROVE  /\ d \o e \in Forms
         /\ d # <<>> => d \o e # <<>>
         /\ <<>> \o d = d /\ d \o <<>> = d /\ <<>> \in Forms
         /\ \A f \in Forms : (d \o e) \o f = d \o (e \o f)
BY ConcatProperties, ConcatEqualIffEmpty, ConcatEmptySeq, ConcatAssociative, EmptySeq DEF Forms

LEMMA SingleForm ==
  ASSUME NEW X \in Symbols
  PROVE  <<X>> \in Forms /\ <<X>> # <<>> /\ <<X>> \o <<>> = <<X>>
BY ConcatForms DEF Forms

(* The rules of a part have a right-hand side that is a form.              *)
LEMMA PartRules ==
  ASSUME NEW X \in Parts
  PROVE  /\ Alternatives[X] = {rhs(r) : r \in RulesOf(X)} /\ RulesOf(X) # {}
         /\ \A r \in RulesOf(X) : r \in 4 .. 54 /\ lhs(r) = X /\ rhs(r) \in Forms /\ rhs(r) # <<>>
<1>1. X \in Nonterminals
  BY PartsAndTokens
<1>2. Alternatives[X] = {rhs(r) : r \in RulesOf(X)}
  BY <1>1 DEF Alternatives, rhs
<1> QED BY <1>2, Begin DEF PartsBegin, RulesOf, lhs

LEMMA RuleOfItsPart ==
  ASSUME NEW r \in 4 .. 54
  PROVE  lhs(r) \in Parts /\ r \in RulesOf(lhs(r))
<1>1. lhs(r) \in Parts
  BY Begin DEF PartsBegin
<1>2. r \in RuleNumbers
  <2>1. r \in 1 .. 54
    OBVIOUS
  <2>2. RuleNumbers = 1 .. 54
    BY Begin DEF PartsBegin
  <2> QED BY <2>1, <2>2
<1>3. r \in {q \in RuleNumbers : Rules[q].lhs = Rules[r].lhs}
  BY <1>2
<1> QED BY <1>1, <1>3 DEF RulesOf, lhs

LEMMA Assoc ==
  ASSUME NEW d \in Forms, NEW e \in Forms, NEW f \in Forms
  PROVE  (d \o e) \o f = d \o (e \o f)
BY ConcatAssociative DEF Forms

LEMMA OpensCons ==
  ASSUME NEW X \in Symbols, NEW t \in Forms
  PROVE  Opens(<<X>> \o t) =
           IF X \in Parts THEN {rhs(r) \o t : r \in RulesOf(X)} ELSE {<<X>> \o t}
<1> DEFINE f == <<X>> \o t
<1>1. f # <<>> /\ Head(f) = X /\ Tail(f) = t
  BY FormCons
<1>2. X \in Nonterminals <=> X \in Parts
  BY PartsAndTokens
<1> HIDE DEF f
<1>3. CASE X \in Parts
  <2>1. Alternatives[X] = {rhs(r) : r \in RulesOf(X)}
    BY <1>3, PartRules
  <2> QED BY <1>1, <1>2, <1>3, <2>1 DEF Opens, f
<1>4. CASE X \notin Parts
  BY <1>1, <1>2, <1>4 DEF Opens, f
<1> QED BY <1>3, <1>4

(* What is behind a form stays behind what it opens to.                    *)
LEMMA OpensConcat ==
  ASSUME NEW f \in Forms, f # <<>>, NEW d \in Forms
  PROVE  /\ Opens(f \o d) = {h \o d : h \in Opens(f)}
         /\ Opens(f) \subseteq Forms
<1>1. PICK X \in Symbols, t \in Forms : f = <<X>> \o t
  BY FormSplit
<1>2. t \o d \in Forms
  BY ConcatForms
<1>3. f \o d = <<X>> \o (t \o d)
  <2>1. (<<X>> \o t) \o d = <<X>> \o (t \o d)
    BY SingleForm, Assoc
  <2> QED BY ONLY <1>1, <2>1
<1>4. CASE X \notin Parts
  <2>1. Opens(f) = {f}
    BY <1>1, <1>4, OpensCons
  <2>2. Opens(f \o d) = {<<X>> \o (t \o d)}
    BY <1>2, <1>3, <1>4, OpensCons
  <2> QED BY ONLY <1>3, <2>1, <2>2, f \in Forms
<1>5. CASE X \in Parts
  <2>1. Opens(f) = {rhs(r) \o t : r \in RulesOf(X)}
    BY <1>1, <1>5, OpensCons
  <2>2. Opens(f \o d) = {rhs(r) \o (t \o d) : r \in RulesOf(X)}
    BY <1>2, <1>3, <1>5, OpensCons
  <2>3. ASSUME NEW r \in RulesOf(X)
        PROVE  rhs(r) \o (t \o d) = (rhs(r) \o t) \o d /\ rhs(r) \o t \in Forms
    <3>1. PICK h \in Forms : h = rhs(r)
      BY <1>5, PartRules
    <3>2. h \o (t \o d) = (h \o t) \o d
      BY Assoc
    <3>3. h \o t \in Forms
      BY ConcatForms
    <3> QED BY ONLY <3>1, <3>2, <3>3
  <2>4. ASSUME NEW x \in Opens(f \o d) PROVE \E h \in Opens(f) : x = h \o d
    <3>1. PICK r \in RulesOf(X) : x = rhs(r) \o (t \o d)
      BY <2>2
    <3>2. rhs(r) \o t \in Opens(f)
      BY <2>1
    <3> QED BY <2>3, <3>1, <3>2
  <2>5. ASSUME NEW h \in Opens(f) PROVE h \o d \in Opens(f \o d) /\ h \in Forms
    <3>1. PICK r \in RulesOf(X) : h = rhs(r) \o t
      BY <2>1
    <3>2. rhs(r) \o (t \o d) \in Opens(f \o d)
      BY <2>2
    <3> QED BY <2>3, <3>1, <3>2
  <2> QED BY <2>4, <2>5
<1> QED BY <1>4, <1>5

LEMMA OpensAllConcat ==
  ASSUME NEW F \in SUBSET Forms, <<>> \notin F, NEW d \in Forms
  PROVE  /\ OpensAll({h \o d : h \in F}) = {h \o d : h \in OpensAll(F)}
         /\ OpensAll(F) \subseteq Forms
<1>1. \A f \in F : Opens(f \o d) = {h \o d : h \in Opens(f)} /\ Opens(f) \subseteq Forms
  BY OpensConcat
<1>2. OpensAll({h \o d : h \in F}) = UNION {Opens(f \o d) : f \in F}
  BY DEF OpensAll
<1>3. OpensAll(F) = UNION {Opens(f) : f \in F}
  BY DEF OpensAll
<1>4. UNION {Opens(f \o d) : f \in F} = UNION {{h \o d : h \in Opens(f)} : f \in F}
  BY <1>1
<1>5. UNION {{h \o d : h \in Opens(f)} : f \in F} = {h \o d : h \in UNION {Opens(f) : f \in F}}
  <2>1. ASSUME NEW x \in UNION {{h \o d : h \in Opens(f)} : f \in F}
        PROVE  x \in {h \o d : h \in UNION {Opens(f) : f \in F}}
    <3>1. PICK f \in F : x \in {h \o d : h \in Opens(f)}
      OBVIOUS
    <3>2. PICK h \in Opens(f) : x = h \o d
      BY <3>1
    <3>3. h \in UNION {Opens(e) : e \in F}
      BY <3>2
    <3> QED BY ONLY <3>2, <3>3
  <2>2. ASSUME NEW x \in {h \o d : h \in UNION {Opens(f) : f \in F}}
        PROVE  x \in UNION {{h \o d : h \in Opens(f)} : f \in F}
    <3>1. PICK h \in UNION {Opens(f) : f \in F} : x = h \o d
      OBVIOUS
    <3>2. PICK f \in F : h \in Opens(f)
      BY <3>1
    <3>3. x \in {e \o d : e \in Opens(f)}
      BY ONLY <3>1, <3>2
    <3> QED BY ONLY <3>3, f \in F
  <2> QED BY <2>1, <2>2
<1>6. OpensAll(F) \subseteq Forms
  BY <1>1, <1>3
<1> QED BY <1>2, <1>3, <1>4, <1>5, <1>6

LEMMA OpenedConcat ==
  ASSUME NEW X \in Symbols, NEW d \in Forms
  PROVE  Opened({<<X>> \o d}) = {h \o d : h \in Starts(X)}
<1> DEFINE F == {<<X>>}
           G == OpensAll(F)
           H == OpensAll(G)
<1>1. F \in SUBSET Forms /\ <<>> \notin F /\ <<>> \notin G /\ <<>> \notin H
  BY SingleForm, Begin DEF PartsBegin
<1>2. {<<X>> \o d} = {h \o d : h \in F}
  OBVIOUS
<1>3. Opened({<<X>> \o d}) = OpensAll(OpensAll(OpensAll({h \o d : h \in F}))) /\ Starts(X) = OpensAll(H)
  BY <1>2 DEF Opened, Starts
<1> HIDE DEF F, H
<1>4. OpensAll({h \o d : h \in F}) = {h \o d : h \in G} /\ G \in SUBSET Forms
  BY <1>1, OpensAllConcat
<1> HIDE DEF G
<1>5. OpensAll({h \o d : h \in G}) = {h \o d : h \in H} /\ H \in SUBSET Forms
  BY <1>1, <1>4, OpensAllConcat DEF H
<1>6. OpensAll({h \o d : h \in H}) = {h \o d : h \in OpensAll(H)}
  BY <1>1, <1>5, OpensAllConcat
<1> QED BY <1>3, <1>4, <1>5, <1>6

LEMMA OpenedSteps ==
  ASSUME NEW F, NEW g
  PROVE  g \in Opened(F) <=>
           \E f \in F : \E a \in Opens(f) : \E b \in Opens(a) : g \in Opens(b)
BY DEF Opened, OpensAll

(* A set of forms opens to what its members open to.                       *)
LEMMA OpenedUnion ==
  ASSUME NEW F, NEW g
  PROVE  g \in Opened(F) <=> \E f \in F : g \in Opened({f})
<1>1. \A f : g \in Opened({f}) <=>
               \E a \in Opens(f) : \E b \in Opens(a) : g \in Opens(b)
  BY OpenedSteps
<1>2. g \in Opened(F) <=>
           \E f \in F : \E a \in Opens(f) : \E b \in Opens(a) : g \in Opens(b)
  BY OpenedSteps
<1> QED BY <1>1, <1>2

LEMMA OpenedItself ==
  ASSUME NEW f, Opens(f) = {f}
  PROVE  Opened({f}) = {f}
<1>1. OpensAll({f}) = {f}
  BY DEF OpensAll
<1> QED BY <1>1 DEF Opened

LEMMA OpenedEmpty == Opened({<<>>}) = {<<>>}
<1>1. Opens(<<>>) = {<<>>}
  BY DEF Opens
<1> QED BY <1>1, OpenedItself

LEMMA OpenedToken ==
  ASSUME NEW t \in Tokens, NEW a \in Forms
  PROVE  Opened({<<t>> \o a}) = {<<t>> \o a}
<1>1. t \in Symbols /\ t \notin Parts
  BY PartsAndTokens DEF Symbols
<1>2. Opens(<<t>> \o a) = {<<t>> \o a}
  BY <1>1, OpensCons
<1> QED BY <1>2, OpenedItself

(* What a form opens to begins as its first symbol does.                   *)
LEMMA OpenedBegins ==
  ASSUME NEW X \in Symbols, NEW a \in Forms, NEW g \in Opened({<<X>> \o a})
  PROVE  /\ g \in Forms /\ g # <<>> /\ Head(g) \in Tokens
         /\ Head(g) \in Firsts(X)
<1>1. PICK h \in Starts(X) : g = h \o a
  BY OpenedConcat
<1>2. h \in Forms /\ h # <<>> /\ Head(h) \in Tokens
  BY Begin DEF PartsBegin
<1>3. PICK Y \in Symbols, u \in Forms : h = <<Y>> \o u
  BY <1>2, FormSplit
<1>4. Head(h) = Y
  BY <1>3, FormCons
<1>5. u \o a \in Forms
  BY ConcatForms
<1>6. g = <<Y>> \o (u \o a)
  <2>1. (<<Y>> \o u) \o a = <<Y>> \o (u \o a)
    BY SingleForm, Assoc
  <2> QED BY ONLY <1>1, <1>3, <2>1
<1>7. g \in Forms /\ g # <<>> /\ Head(g) = Y
  BY <1>5, <1>6, FormCons
<1> QED BY <1>2, <1>4, <1>7 DEF Firsts

LEMMA OpenedForms ==
  ASSUME NEW F \in SUBSET Forms, NEW g \in Opened(F)
  PROVE  g \in Forms /\ (g # <<>> => Head(g) \in Tokens)
<1>1. PICK f \in F : g \in Opened({f})
  BY OpenedUnion
<1>2. CASE f = <<>>
  BY <1>1, <1>2, OpenedEmpty, ConcatForms
<1>3. CASE f # <<>>
  <2>1. PICK X \in Symbols, a \in Forms : f = <<X>> \o a
    BY <1>3, FormSplit
  <2> QED BY <1>1, <2>1, OpenedBegins
<1> QED BY <1>2, <1>3

LEMMA OpenedSome ==
  ASSUME NEW f \in Forms
  PROVE  Opened({f}) # {}
<1>1. CASE f = <<>>
  BY <1>1, OpenedEmpty
<1>2. CASE f # <<>>
  <2>1. PICK X \in Symbols, a \in Forms : f = <<X>> \o a
    BY <1>2, FormSplit
  <2>2. PICK h : h \in Starts(X)
    BY Begin DEF PartsBegin
  <2>3. h \o a \in Opened({<<X>> \o a})
    BY <2>2, OpenedConcat
  <2> QED BY <2>1, <2>3
<1> QED BY <1>1, <1>2

(* A form opens to all that a rule for its first symbol opens to, and to   *)
(* nothing else.                                                           *)
LEMMA OpenedRule ==
  ASSUME NEW X \in Parts, NEW a \in Forms, NEW g
  PROVE  g \in Opened({<<X>> \o a}) <=> \E r \in RulesOf(X) : g \in Opened({rhs(r) \o a})
<1>1. X \in Symbols
  BY DEF Symbols
<1>2. ASSUME NEW r \in RulesOf(X)
      PROVE  \E Y \in Symbols, u \in Forms :
               /\ Y = Head(rhs(r)) /\ u = Tail(rhs(r))
               /\ u \o a \in Forms /\ rhs(r) \o a = <<Y>> \o (u \o a)
  <2>1. rhs(r) \in Forms /\ rhs(r) # <<>>
    BY PartRules
  <2>2. PICK Y \in Symbols, u \in Forms :
          Y = Head(rhs(r)) /\ u = Tail(rhs(r)) /\ rhs(r) = <<Y>> \o u
    BY <2>1, FormSplit
  <2>3. (<<Y>> \o u) \o a = <<Y>> \o (u \o a)
    BY SingleForm, Assoc
  <2>4. rhs(r) \o a = <<Y>> \o (u \o a)
    BY ONLY <2>2, <2>3
  <2>5. u \o a \in Forms
    BY ConcatForms
  <2> QED BY <2>2, <2>4, <2>5
<1>3. \A h : h \in Starts(X) <=>
               \E r \in RulesOf(X) : \E k \in Starts(Head(rhs(r))) : h = k \o Tail(rhs(r))
  <2>1. Starts(X) = UNION {StartsBy(r) : r \in RulesOf(X)}
    BY Begin DEF PartsBegin
  <2>2. \A h : h \in Starts(X) <=> \E r \in RulesOf(X) : h \in StartsBy(r)
    BY ONLY <2>1
  <2> QED BY <2>2 DEF StartsBy
<1>4. ASSUME NEW r \in RulesOf(X), NEW k \in Starts(Head(rhs(r)))
      PROVE  /\ (k \o Tail(rhs(r))) \o a \in Opened({rhs(r) \o a})
             /\ (k \o Tail(rhs(r))) \o a = k \o (Tail(rhs(r)) \o a)
  <2>1. PICK Y \in Symbols, u \in Forms :
          /\ Y = Head(rhs(r)) /\ u = Tail(rhs(r))
          /\ u \o a \in Forms /\ rhs(r) \o a = <<Y>> \o (u \o a)
    BY <1>2
  <2>2. k \in Starts(Y)
    BY <2>1
  <2>3. k \in Forms
    BY <2>2, Begin DEF PartsBegin
  <2>4. (k \o u) \o a = k \o (u \o a)
    BY <2>3, Assoc
  <2>5. k \o (u \o a) \in Opened({<<Y>> \o (u \o a)})
    <3>1. PICK v \in Forms : v = u \o a
      BY <2>1
    <3>2. k \o v \in Opened({<<Y>> \o v})
      BY <2>2, OpenedConcat
    <3> QED BY ONLY <3>1, <3>2
  <2> QED BY ONLY <2>1, <2>4, <2>5
<1>5. ASSUME g \in Opened({<<X>> \o a})
      PROVE  \E r \in RulesOf(X) : g \in Opened({rhs(r) \o a})
  <2>1. PICK h \in Starts(X) : g = h \o a
    BY <1>1, <1>5, OpenedConcat
  <2>2. PICK r \in RulesOf(X) : \E k \in Starts(Head(rhs(r))) : h = k \o Tail(rhs(r))
    BY <1>3, <2>1
  <2>3. PICK k \in Starts(Head(rhs(r))) : h = k \o Tail(rhs(r))
    BY <2>2
  <2>4. g = (k \o Tail(rhs(r))) \o a
    BY ONLY <2>1, <2>3
  <2>5. g \in Opened({rhs(r) \o a})
    BY <1>4, <2>4
  <2> QED BY <2>5
<1>6. ASSUME NEW r \in RulesOf(X), g \in Opened({rhs(r) \o a})
      PROVE  g \in Opened({<<X>> \o a})
  <2>1. PICK Y \in Symbols, u \in Forms :
          /\ Y = Head(rhs(r)) /\ u = Tail(rhs(r))
          /\ u \o a \in Forms /\ rhs(r) \o a = <<Y>> \o (u \o a)
    BY <1>2
  <2>2. g \in Opened({<<Y>> \o (u \o a)})
    BY <1>6, <2>1
  <2>3. PICK k \in Starts(Y) : g = k \o (u \o a)
    <3>1. PICK v \in Forms : v = u \o a
      BY <2>1
    <3>2. g \in Opened({<<Y>> \o v})
      BY ONLY <2>2, <3>1
    <3>3. PICK k \in Starts(Y) : g = k \o v
      BY <3>2, OpenedConcat
    <3> QED BY ONLY <3>1, <3>3
  <2>4. k \in Starts(Head(rhs(r)))
    BY <2>1
  <2>5. k \o Tail(rhs(r)) \in Starts(X)
    BY <1>3, <2>4
  <2>6. (k \o Tail(rhs(r))) \o a \in Opened({<<X>> \o a})
    BY <1>1, <2>5, OpenedConcat
  <2>7. (k \o Tail(rhs(r))) \o a = k \o (Tail(rhs(r)) \o a)
    BY <1>4, <2>4
  <2> QED BY ONLY <2>1, <2>3, <2>6, <2>7
<1> QED BY <1>5, <1>6

-----------------------------------------------------------------------------
(***************************************************************************)
(* What a set of forms leads to.                                           *)
(***************************************************************************)

(* The set opens to all that the form opens to.                            *)
Leads(F, f) == Opened({f}) \subseteq Opened(F)

(* Where F leads to X and a form behind it, G leads to that form.          *)
Reaches(F, X, G) == \A a \in Forms : Leads(F, <<X>> \o a) => Leads(G, a)

LEMMA LeadsMember ==
  ASSUME NEW F, NEW f \in F
  PROVE  Leads(F, f)
<1>1. ASSUME NEW g \in Opened({f}) PROVE g \in Opened(F)
  BY OpenedUnion
<1> QED BY <1>1 DEF Leads

LEMMA LeadsRule ==
  ASSUME NEW F, NEW X \in Parts, NEW r \in RulesOf(X), NEW a \in Forms, Leads(F, <<X>> \o a)
  PROVE  Leads(F, rhs(r) \o a)
<1>1. ASSUME NEW g \in Opened({rhs(r) \o a}) PROVE g \in Opened({<<X>> \o a})
  BY OpenedRule
<1> QED BY <1>1 DEF Leads

LEMMA AfterForms ==
  ASSUME NEW F \in SUBSET Forms, NEW t \in Tokens
  PROVE  /\ After(F, t) \in SUBSET Forms
         /\ \A a \in Forms : a \in After(F, t) <=> <<t>> \o a \in Opened(F)
<1>1. t \in Symbols
  BY DEF Symbols
<1>2. ASSUME NEW g \in Opened(F), g # <<>>
      PROVE  g \in Forms /\ Tail(g) \in Forms /\ g = <<Head(g)>> \o Tail(g)
  <2>1. g \in Forms
    BY OpenedForms
  <2> QED BY <1>2, <2>1, FormSplit
<1>3. ASSUME NEW a \in Forms, <<t>> \o a \in Opened(F) PROVE a \in After(F, t)
  <2>1. PICK g \in Opened(F) : g = <<t>> \o a
    BY <1>3
  <2>2. g # <<>> /\ Head(g) = t /\ Tail(g) = a
    BY <1>1, <2>1, FormCons
  <2> QED BY <2>2 DEF After
<1>4. ASSUME NEW a \in After(F, t) PROVE a \in Forms /\ <<t>> \o a \in Opened(F)
  <2>1. PICK g \in Opened(F) : g # <<>> /\ Head(g) = t /\ a = Tail(g)
    BY DEF After
  <2>2. a \in Forms /\ g = <<Head(g)>> \o Tail(g)
    BY <1>2, <2>1
  <2> QED BY ONLY <2>1, <2>2
<1> QED BY <1>3, <1>4

(* A token read reaches what comes after it.                               *)
LEMMA ReachesToken ==
  ASSUME NEW F \in SUBSET Forms, NEW t \in Tokens
  PROVE  Reaches(F, t, After(F, t))
<1>1. ASSUME NEW a \in Forms, Leads(F, <<t>> \o a) PROVE Leads(After(F, t), a)
  <2>1. <<t>> \o a \in Opened(F)
    BY <1>1, OpenedToken DEF Leads
  <2>2. a \in After(F, t)
    BY <2>1, AfterForms
  <2> QED BY <2>2, LeadsMember
<1> QED BY <1>1 DEF Reaches

LEMMA LeadsSome ==
  ASSUME NEW F, NEW f \in Forms, Leads(F, f)
  PROVE  F # {}
<1>1. PICK g : g \in Opened({f})
  BY OpenedSome
<1>2. g \in Opened(F)
  BY <1>1 DEF Leads
<1> QED BY <1>2, OpenedUnion

-----------------------------------------------------------------------------
(***************************************************************************)
(* What is left of a rule.                                                 *)
(***************************************************************************)

LEMMA Input == InputFits
BY AutomatonFits

Rest(r, k) == SubSeq(rhs(r), k + 1, Len(rhs(r)))

(* The items of a query: those of its parts, and the last two steps of the *)
(* rule that puts it behind the input.                                     *)
OfQuery(r, k) ==
  \/ r \in 4 .. 54 /\ k \in 0 .. Len(rhs(r))
  \/ r = 3 /\ k \in 1 .. Len(rhs(r))

LEMMA RightHandSide ==
  ASSUME NEW r, NEW k, OfQuery(r, k)
  PROVE  /\ rhs(r) \in Seq(Symbols \cup {"input"}) /\ Len(rhs(r)) \in Nat
         /\ k \in Nat /\ k \in 0 .. Len(rhs(r))
         /\ \A i \in k + 1 .. Len(rhs(r)) : rhs(r)[i] \in Symbols
<1>1. CASE r \in 4 .. 54
  <2>1. rhs(r) \in Seq(Symbols)
    BY <1>1, Begin DEF PartsBegin, Forms
  <2>2. /\ Len(rhs(r)) \in Nat
        /\ \A i \in 1 .. Len(rhs(r)) : rhs(r)[i] \in Symbols
    BY <2>1, LenProperties, ElementOfSeq
  <2>3. rhs(r) \in Seq(Symbols \cup {"input"})
    BY <2>1, SeqMonotonic
  <2> QED BY <1>1, <2>2, <2>3 DEF OfQuery
<1>2. CASE r = 3
  <2>1. rhs(r) = <<"input", "query", "SEMICOLON">>
    BY <1>2, Input DEF InputFits
  <2>2. "query" \in Symbols /\ "SEMICOLON" \in Symbols
    BY Input DEF InputFits, Symbols
  <2>3. /\ Len(rhs(r)) = 3 /\ rhs(r)[1] = "input"
        /\ rhs(r)[2] = "query" /\ rhs(r)[3] = "SEMICOLON"
    BY <2>1
  <2>4. rhs(r) \in Seq(Symbols \cup {"input"})
    BY <2>1, <2>2
  <2>5. k \in 1 .. 3
    <3>1. k \in 1 .. Len(rhs(r))
      BY <1>2 DEF OfQuery
    <3> QED BY ONLY <2>3, <3>1
  <2>6. \A i \in k + 1 .. 3 : i = 2 \/ i = 3
    BY <2>5
  <2> QED BY <2>2, <2>3, <2>4, <2>5, <2>6
<1> QED BY <1>1, <1>2 DEF OfQuery

LEMMA RestForm ==
  ASSUME NEW r, NEW k, OfQuery(r, k)
  PROVE  Rest(r, k) \in Forms
<1>1. k + 1 \in Int /\ Len(rhs(r)) \in Int /\ \A i \in k + 1 .. Len(rhs(r)) : rhs(r)[i] \in Symbols
  BY RightHandSide
<1> QED BY <1>1, SubSeqProperties DEF Rest, Forms

LEMMA RestEnd ==
  ASSUME NEW r, OfQuery(r, Len(rhs(r)))
  PROVE  Rest(r, Len(rhs(r))) = <<>>
<1>1. Len(rhs(r)) \in Nat
  BY RightHandSide
<1> QED BY <1>1, SubSeqEmpty DEF Rest

LEMMA RestAll ==
  ASSUME NEW r \in 4 .. 54
  PROVE  Rest(r, 0) = rhs(r) /\ OfQuery(r, 0) /\ OfQuery(r, Len(rhs(r)))
<1>1. rhs(r) \in Seq(Symbols)
  BY Begin DEF PartsBegin, Forms
<1>2. Len(rhs(r)) \in Nat
  BY <1>1, LenProperties
<1> QED BY <1>1, <1>2, SubSeqFull DEF Rest, OfQuery

LEMMA RestStep ==
  ASSUME NEW r, NEW k, OfQuery(r, k), k < Len(rhs(r))
  PROVE  /\ rhs(r)[k + 1] \in Symbols /\ OfQuery(r, k + 1) /\ Rest(r, k + 1) \in Forms
         /\ Rest(r, k) = <<rhs(r)[k + 1]>> \o Rest(r, k + 1)
<1>1. /\ rhs(r) \in Seq(Symbols \cup {"input"}) /\ Len(rhs(r)) \in Nat
      /\ k \in Nat /\ k \in 0 .. Len(rhs(r))
      /\ \A i \in k + 1 .. Len(rhs(r)) : rhs(r)[i] \in Symbols
  BY RightHandSide
<1>2. k + 1 \in 1 .. Len(rhs(r)) /\ Len(rhs(r)) \in k + 1 .. Len(rhs(r))
  BY <1>1
<1>3. SubSeq(rhs(r), k + 1, Len(rhs(r))) =
        <<rhs(r)[k + 1]>> \o SubSeq(rhs(r), k + 1 + 1, Len(rhs(r)))
  BY <1>1, <1>2, SubSeqRecursiveFirst
<1>4. OfQuery(r, k + 1)
  BY <1>1 DEF OfQuery
<1> QED BY <1>1, <1>2, <1>3, <1>4, RestForm DEF Rest

(* The symbols of a rule, one after the other, reach as far as its         *)
(* left-hand side.                                                         *)
LEMMA ReachesRule ==
  ASSUME NEW r \in 4 .. 54, NEW G,
         \A i \in 1 .. Len(rhs(r)) : Reaches(G[i - 1], rhs(r)[i], G[i])
  PROVE  Reaches(G[0], lhs(r), G[Len(rhs(r))])
<1>1. /\ Len(rhs(r)) \in Nat /\ OfQuery(r, 0) /\ OfQuery(r, Len(rhs(r)))
      /\ Rest(r, 0) = rhs(r) /\ Rest(r, Len(rhs(r))) = <<>>
  BY RestAll, RestEnd, RightHandSide
<1>2. lhs(r) \in Parts /\ r \in RulesOf(lhs(r))
  BY RuleOfItsPart
<1> SUFFICES ASSUME NEW a \in Forms, Leads(G[0], <<lhs(r)>> \o a)
             PROVE  Leads(G[Len(rhs(r))], a)
  BY DEF Reaches
<1> DEFINE N == {j \in 0 .. Len(rhs(r)) : ~ Leads(G[j], Rest(r, j) \o a)}
<1>3. Leads(G[0], rhs(r) \o a)
  BY <1>2, LeadsRule
<1>4. N = {}
  <2> SUFFICES ASSUME N # {} PROVE FALSE
    OBVIOUS
  <2>1. PICK j \in N : \A y \in N : j <= y
    <3>1. N \in SUBSET Nat
      BY <1>1
    <3> HIDE DEF N
    <3> QED BY <3>1, Least
  <2>2. j # 0
    BY <1>1, <1>3, <2>1
  <2>3. j \in 1 .. Len(rhs(r)) /\ j - 1 \in 0 .. Len(rhs(r)) /\ j - 1 \notin N
    BY <1>1, <2>1, <2>2
  <2>4. Leads(G[j - 1], Rest(r, j - 1) \o a)
    BY <2>3
  <2>5. OfQuery(r, j - 1) /\ j - 1 < Len(rhs(r)) /\ j - 1 + 1 = j
    BY <1>1, <2>3 DEF OfQuery
  <2>6. /\ rhs(r)[j] \in Symbols /\ Rest(r, j) \in Forms
        /\ Rest(r, j - 1) = <<rhs(r)[j]>> \o Rest(r, j)
    BY <2>5, RestStep
  <2>7. /\ Rest(r, j) \o a \in Forms
        /\ (<<rhs(r)[j]>> \o Rest(r, j)) \o a = <<rhs(r)[j]>> \o (Rest(r, j) \o a)
    <3>1. PICK X \in Symbols, u \in Forms : X = rhs(r)[j] /\ u = Rest(r, j)
      BY <2>6
    <3>2. (<<X>> \o u) \o a = <<X>> \o (u \o a)
      BY SingleForm, Assoc
    <3>3. u \o a \in Forms
      BY ConcatForms
    <3> QED BY ONLY <3>1, <3>2, <3>3
  <2>8. Leads(G[j - 1], <<rhs(r)[j]>> \o (Rest(r, j) \o a))
    BY ONLY <2>4, <2>6, <2>7
  <2>9. Leads(G[j], Rest(r, j) \o a)
    BY <2>3, <2>7, <2>8 DEF Reaches
  <2> QED BY <2>1, <2>9
<1>5. Leads(G[Len(rhs(r))], Rest(r, Len(rhs(r))) \o a)
  <2>1. Len(rhs(r)) \in 0 .. Len(rhs(r))
    BY <1>1
  <2> QED BY <1>4, <2>1
<1>6. <<>> \o a = a
  BY ConcatForms
<1> QED BY ONLY <1>1, <1>5, <1>6

-----------------------------------------------------------------------------
(***************************************************************************)
(* The items of a state and the paths of the automaton.                    *)
(***************************************************************************)

LEMMA Certified ==
  /\ RulesAgree /\ ItemsFit /\ TransFit /\ ShiftsFit /\ DefaultsFit
  /\ NoConflict /\ TypesFit
BY AutomatonFits

LEMMA KernelItems ==
  ASSUME NEW s \in States
  PROVE  At(Kernels, s) \subseteq Items[s]
<1>1. \A S : S \subseteq Opening(S)
  BY DEF Opening
<1>2. Items[s] = Opening(Opening(Opening(At(Kernels, s))))
  BY DEF Items
<1> QED BY <1>1, <1>2

LEMMA ItemFacts ==
  ASSUME NEW s \in States, NEW r, NEW k, <<r, k>> \in Items[s]
  PROVE  /\ r \in 1 .. 54 /\ k \in Nat /\ Len(rhs(r)) \in Nat /\ k <= Len(rhs(r))
         /\ k = 0 => r = 1 \/ lhs(r) \in NextOf(Items[s])
         /\ k > 0 => <<r, k>> \in At(Kernels, s) /\ rhs(r)[k] = Sym(s)
         /\ k < Len(rhs(r)) =>
              /\ rhs(r)[k + 1] \in NextOf(Items[s])
              /\ \A q \in RulesOf(rhs(r)[k + 1]) : <<q, 0>> \in Items[s]
<1> DEFINE i == <<r, k>>
<1>1. /\ i \in RuleNumbers \X Nat
      /\ i[2] <= Len(rhs(i[1]))
      /\ i[2] = 0 => i[1] = 1 \/ lhs(i[1]) \in NextOf(Items[s])
      /\ i[2] > 0 => i \in At(Kernels, s) /\ rhs(i[1])[i[2]] = Sym(s)
      /\ i[2] < Len(rhs(i[1])) =>
           \A q \in RulesOf(rhs(i[1])[i[2] + 1]) : <<q, 0>> \in Items[s]
  BY Certified DEF ItemsFit
<1>2. i[1] = r /\ i[2] = k /\ RuleNumbers = 1 .. 54
  BY Begin DEF PartsBegin
<1>3. k < Len(rhs(r)) => rhs(r)[k + 1] \in NextOf(Items[s])
  <2>1. SUFFICES ASSUME k < Len(rhs(r)) PROVE rhs(r)[k + 1] \in NextOf(Items[s])
    OBVIOUS
  <2>2. i \in {j \in Items[s] : j[2] < Len(rhs(j[1]))}
    BY <1>2, <2>1
  <2> QED BY <1>2, <2>2 DEF NextOf
<1>4. r \in 1 .. 54 /\ k \in Nat
  BY <1>1, <1>2
<1>5. Len(rhs(r)) \in Nat
  BY <1>4, Certified DEF RulesAgree
<1> QED BY <1>1, <1>2, <1>3, <1>4, <1>5

(* What is behind the dot of an item.                                      *)
LEMMA NextItem ==
  ASSUME NEW s \in States, NEW X \in NextOf(Items[s])
  PROVE  \E r, k : <<r, k>> \in Items[s] /\ k < Len(rhs(r)) /\ rhs(r)[k + 1] = X
<1>1. PICK i \in Items[s] : i[2] < Len(rhs(i[1])) /\ X = rhs(i[1])[i[2] + 1]
  BY DEF NextOf
<1>2. i \in RuleNumbers \X Nat
  BY Certified DEF ItemsFit
<1>3. i = <<i[1], i[2]>>
  BY <1>2
<1> QED BY <1>1, <1>3

LEMMA TransKernel ==
  ASSUME NEW s \in States, NEW X \in NextOf(Items[s])
  PROVE  /\ Trans(s, X) \in States /\ Trans(s, X) # 0 /\ Sym(Trans(s, X)) = X
         /\ \A r, k : <<r, k>> \in At(Kernels, Trans(s, X)) <=>
              /\ k \in Nat /\ k > 0 /\ <<r, k - 1>> \in Items[s]
              /\ k - 1 < Len(rhs(r)) /\ rhs(r)[k] = X
<1>1. /\ Trans(s, X) \in States \ {0}
      /\ Sym(Trans(s, X)) = X
      /\ At(Kernels, Trans(s, X)) =
         {<<i[1], i[2] + 1>> :
            i \in {j \in Items[s] : j[2] < Len(rhs(j[1])) /\ rhs(j[1])[j[2] + 1] = X}}
  BY Certified DEF TransFit
<1>2. ASSUME NEW r, NEW k, <<r, k>> \in At(Kernels, Trans(s, X))
      PROVE  /\ k \in Nat /\ k > 0 /\ <<r, k - 1>> \in Items[s]
             /\ k - 1 < Len(rhs(r)) /\ rhs(r)[k] = X
  <2>1. PICK i \in Items[s] :
          /\ i[2] < Len(rhs(i[1])) /\ rhs(i[1])[i[2] + 1] = X
          /\ <<r, k>> = <<i[1], i[2] + 1>>
    BY <1>1, <1>2
  <2>2. i \in RuleNumbers \X Nat
    BY Certified DEF ItemsFit
  <2>3. i = <<i[1], i[2]>> /\ i[2] \in Nat /\ r = i[1] /\ k = i[2] + 1
    BY <2>1, <2>2
  <2>4. k - 1 = i[2]
    BY <2>3
  <2> QED BY <2>1, <2>3, <2>4
<1>3. ASSUME NEW r, NEW k, k \in Nat, k > 0, <<r, k - 1>> \in Items[s],
             k - 1 < Len(rhs(r)), rhs(r)[k] = X
      PROVE  <<r, k>> \in At(Kernels, Trans(s, X))
  <2> DEFINE i == <<r, k - 1>>
  <2>1. i[1] = r /\ i[2] = k - 1 /\ i[2] + 1 = k
    BY <1>3
  <2>2. i \in {j \in Items[s] : j[2] < Len(rhs(j[1])) /\ rhs(j[1])[j[2] + 1] = X}
    BY <1>3, <2>1
  <2>3. <<i[1], i[2] + 1>> \in At(Kernels, Trans(s, X))
    BY <1>1, <2>2
  <2> QED BY <2>1, <2>3
<1> QED BY <1>1, <1>2, <1>3

LEMMA ItemForth ==
  ASSUME NEW s \in States, NEW r, NEW k, <<r, k>> \in Items[s], k < Len(rhs(r))
  PROVE  <<r, k + 1>> \in Items[Trans(s, rhs(r)[k + 1])]
<1>1. k \in Nat /\ rhs(r)[k + 1] \in NextOf(Items[s])
  BY ItemFacts
<1>2. k + 1 \in Nat /\ k + 1 > 0 /\ k + 1 - 1 = k
  BY <1>1
<1>3. <<r, k + 1>> \in At(Kernels, Trans(s, rhs(r)[k + 1]))
  <2>1. PICK X \in NextOf(Items[s]) : X = rhs(r)[k + 1]
    BY <1>1
  <2> DEFINE m == k + 1
  <2>2. m \in Nat /\ m = k + 1 /\ m > 0 /\ m - 1 = k
    BY <1>1, <1>2
  <2> HIDE DEF m
  <2>3. <<r, m - 1>> \in Items[s] /\ m - 1 < Len(rhs(r)) /\ rhs(r)[m] = X
    BY <2>1, <2>2
  <2>4. <<r, m>> \in At(Kernels, Trans(s, X))
    BY <2>2, <2>3, TransKernel
  <2> QED BY ONLY <2>1, <2>2, <2>4
<1> QED BY <1>1, <1>3, TransKernel, KernelItems

LEMMA ItemBack ==
  ASSUME NEW s \in States, NEW X \in NextOf(Items[s]), NEW r, NEW k,
         <<r, k>> \in Items[Trans(s, X)], k # 0
  PROVE  <<r, k - 1>> \in Items[s] /\ k - 1 < Len(rhs(r)) /\ rhs(r)[k] = X
<1>1. Trans(s, X) \in States
  BY TransKernel
<1>2. k \in Nat /\ (k > 0 => <<r, k>> \in At(Kernels, Trans(s, X)))
  BY <1>1, ItemFacts
<1> QED BY <1>2, TransKernel

-----------------------------------------------------------------------------
IsPath(p) ==
  /\ p \in Seq(States) /\ Len(p) > 0 /\ p[1] = 0
  /\ \A i \in 1 .. Len(p) - 1 :
       /\ Sym(p[i + 1]) \in NextOf(Items[p[i]])
       /\ p[i + 1] = Trans(p[i], Sym(p[i + 1])) /\ p[i + 1] # YYFINAL

Top(p) == p[Len(p)]

LEMMA PathStates ==
  ASSUME NEW p, IsPath(p)
  PROVE  /\ Len(p) \in Nat \ {0} /\ Top(p) \in States \ {YYFINAL}
         /\ \A i \in 1 .. Len(p) :
              p[i] \in States /\ p[i] # YYFINAL /\ (p[i] = 0 <=> i = 1)
         /\ Len(p) # 1 => p[2] = 1 /\ Sym(p[2]) = "input"
<1>1. Len(p) \in Nat \ {0} /\ p[1] = 0 /\ 0 # YYFINAL
  BY LenProperties DEF IsPath, YYFINAL
<1>2. \A i \in 1 .. Len(p) : p[i] \in States
  BY <1>1, ElementOfSeq DEF IsPath
<1>3. ASSUME NEW i \in 1 .. Len(p), i # 1 PROVE p[i] # YYFINAL /\ p[i] # 0
  <2>1. i - 1 \in 1 .. Len(p) - 1 /\ i - 1 \in 1 .. Len(p) /\ i - 1 + 1 = i
    BY <1>1, <1>3
  <2>2. /\ Sym(p[i]) \in NextOf(Items[p[i - 1]])
        /\ p[i] = Trans(p[i - 1], Sym(p[i])) /\ p[i] # YYFINAL
    BY <2>1 DEF IsPath
  <2>3. p[i - 1] \in States
    BY <1>2, <2>1
  <2> QED BY <2>2, <2>3, TransKernel
<1>4. ASSUME Len(p) # 1 PROVE p[2] = 1 /\ Sym(p[2]) = "input"
  <2>1. 1 \in 1 .. Len(p) - 1 /\ 1 + 1 = 2
    <3>1. PICK l \in Nat \ {0} : l = Len(p)
      BY <1>1
    <3>2. l # 1
      BY ONLY <1>4, <3>1
    <3>3. 1 \in 1 .. l - 1
      BY ONLY <3>2, l \in Nat \ {0}
    <3> QED BY ONLY <3>1, <3>3
  <2>2. Sym(p[2]) \in NextOf(Items[p[1]]) /\ p[2] = Trans(p[1], Sym(p[2]))
    BY <2>1 DEF IsPath
  <2>3. Sym(p[2]) = "input"
    BY <1>1, <2>2, Input DEF InputFits
  <2> QED BY <1>1, <2>2, <2>3, Input DEF InputFits
<1>5. Top(p) \in States \ {YYFINAL}
  <2>1. Len(p) \in 1 .. Len(p)
    BY <1>1
  <2> QED BY <1>1, <1>2, <1>3, <2>1 DEF Top
<1> QED BY <1>1, <1>2, <1>3, <1>4, <1>5

LEMMA PathAppend ==
  ASSUME NEW p, IsPath(p), NEW X \in NextOf(Items[Top(p)]), Trans(Top(p), X) # YYFINAL
  PROVE  /\ IsPath(Append(p, Trans(Top(p), X)))
         /\ Len(Append(p, Trans(Top(p), X))) = Len(p) + 1
         /\ Top(Append(p, Trans(Top(p), X))) = Trans(Top(p), X)
         /\ \A i \in 1 .. Len(p) : Append(p, Trans(Top(p), X))[i] = p[i]
<1> DEFINE s == Trans(Top(p), X)
           q == Append(p, s)
<1>1. Len(p) \in Nat \ {0} /\ Top(p) \in States /\ p \in Seq(States)
  BY PathStates DEF IsPath
<1>2. s \in States /\ Sym(s) = X
  BY <1>1, TransKernel
<1>3. /\ q \in Seq(States) /\ Len(q) = Len(p) + 1 /\ q[Len(p) + 1] = s
      /\ \A i \in 1 .. Len(p) : q[i] = p[i]
  BY <1>1, <1>2, AppendProperties
<1>4. ASSUME NEW i \in 1 .. Len(q) - 1
      PROVE  /\ Sym(q[i + 1]) \in NextOf(Items[q[i]])
             /\ q[i + 1] = Trans(q[i], Sym(q[i + 1])) /\ q[i + 1] # YYFINAL
  <2>1. CASE i = Len(p)
    <3>1. q[i] = Top(p) /\ q[i + 1] = s
      BY <1>1, <1>3, <2>1 DEF Top
    <3> HIDE DEF q
    <3> QED BY <1>2, <3>1
  <2>2. CASE i # Len(p)
    <3>1. i \in 1 .. Len(p) - 1 /\ i \in 1 .. Len(p) /\ i + 1 \in 1 .. Len(p)
      BY <1>1, <1>3, <2>2
    <3>2. q[i] = p[i] /\ q[i + 1] = p[i + 1]
      BY <1>3, <3>1
    <3>3. /\ Sym(p[i + 1]) \in NextOf(Items[p[i]])
          /\ p[i + 1] = Trans(p[i], Sym(p[i + 1])) /\ p[i + 1] # YYFINAL
      BY <3>1 DEF IsPath
    <3> HIDE DEF q
    <3> QED BY <3>2, <3>3
  <2> QED BY <2>1, <2>2
<1>5. q[1] = 0 /\ Len(q) > 0
  BY <1>1, <1>3 DEF IsPath
<1> HIDE DEF q
<1>6. IsPath(q) /\ Top(q) = s
  BY <1>3, <1>4, <1>5 DEF IsPath, Top
<1> QED BY <1>3, <1>6 DEF q

LEMMA PathPrefix ==
  ASSUME NEW p, IsPath(p), NEW n \in 1 .. Len(p)
  PROVE  /\ IsPath(SubSeq(p, 1, n)) /\ Len(SubSeq(p, 1, n)) = n
         /\ Top(SubSeq(p, 1, n)) = p[n]
         /\ \A i \in 1 .. n : SubSeq(p, 1, n)[i] = p[i]
<1> DEFINE q == SubSeq(p, 1, n)
<1>1. Len(p) \in Nat \ {0} /\ p \in Seq(States) /\ p[1] = 0
  BY PathStates DEF IsPath
<1>2. \A i \in 1 .. n : p[i] \in States
  BY <1>1, PathStates
<1>3. /\ q \in Seq(States) /\ Len(q) = n
      /\ \A i \in 1 .. n : q[i] = p[i]
  BY <1>1, <1>2, SubSeqProperties
<1> HIDE DEF q
<1>4. ASSUME NEW i \in 1 .. Len(q) - 1
      PROVE  /\ Sym(q[i + 1]) \in NextOf(Items[q[i]])
             /\ q[i + 1] = Trans(q[i], Sym(q[i + 1])) /\ q[i + 1] # YYFINAL
  <2>1. i \in 1 .. Len(p) - 1 /\ q[i] = p[i] /\ q[i + 1] = p[i + 1]
    BY <1>1, <1>3
  <2> QED BY <2>1 DEF IsPath
<1>5. q[1] = 0 /\ Len(q) > 0 /\ q[n] = p[n]
  BY <1>1, <1>3
<1> QED BY <1>3, <1>4, <1>5 DEF IsPath, Top, q

(* The symbols an item has behind it are on the path.                      *)
LEMMA PathBack ==
  ASSUME NEW p, IsPath(p), NEW r, NEW n, <<r, n>> \in Items[Top(p)]
  PROVE  /\ n \in Nat /\ n < Len(p)
         /\ \A j \in 0 .. n : <<r, n - j>> \in Items[p[Len(p) - j]]
         /\ \A j \in 1 .. n : rhs(r)[j] = Sym(p[Len(p) - n + j])
<1>1. Len(p) \in Nat \ {0} /\ Top(p) \in States
  BY PathStates
<1>2. n \in Nat
  BY <1>1, ItemFacts
<1> DEFINE Fits(j) == j < Len(p) /\ <<r, n - j>> \in Items[p[Len(p) - j]]
           N == {j \in 0 .. n : ~ Fits(j)}
<1>3. N = {}
  <2> SUFFICES ASSUME N # {} PROVE FALSE
    OBVIOUS
  <2>1. PICK j \in N : \A y \in N : j <= y
    <3>1. N \in SUBSET Nat
      BY <1>2
    <3> HIDE DEF N
    <3> QED BY <3>1, Least
  <2>2. j # 0
    <3>1. Len(p) - 0 = Len(p) /\ n - 0 = n
      BY <1>1, <1>2
    <3> QED BY <1>1, <2>1, <3>1 DEF Top
  <2>3. j \in 1 .. n /\ j - 1 \in 0 .. n /\ j - 1 \notin N
    BY <1>2, <2>1, <2>2
  <2> DEFINE m == Len(p) - (j - 1)
  <2>4. j - 1 < Len(p) /\ <<r, n - (j - 1)>> \in Items[p[m]] /\ n - (j - 1) # 0
    <3>1. Fits(j - 1)
      BY <2>3
    <3>2. n - (j - 1) # 0
      BY <1>2, <2>3
    <3> QED BY <3>1, <3>2
  <2>5. m \in 1 .. Len(p) /\ m - 1 = Len(p) - j
    BY <1>1, <2>3, <2>4
  <2> HIDE DEF m
  <2>6. m # 1
    <3>1. ASSUME m = 1 PROVE FALSE
      <4>1. p[m] = 0
        BY <2>5, <3>1, PathStates
      <4>2. \A i \in Items[0] : i[2] = 0
        BY Input DEF InputFits
      <4>3. <<r, n - (j - 1)>>[2] = n - (j - 1)
        OBVIOUS
      <4> QED BY <2>4, <4>1, <4>2, <4>3
    <3> QED BY <3>1
  <2>7. m - 1 \in 1 .. Len(p) - 1 /\ m - 1 \in 1 .. Len(p) /\ m - 1 + 1 = m /\ j < Len(p)
    BY <1>1, <2>5, <2>6
  <2>8. Sym(p[m]) \in NextOf(Items[p[m - 1]]) /\ p[m] = Trans(p[m - 1], Sym(p[m]))
    BY <2>7 DEF IsPath
  <2>9. p[m - 1] \in States
    BY <2>7, PathStates
  <2>10. <<r, n - (j - 1)>> \in Items[Trans(p[m - 1], Sym(p[m]))]
    BY <2>4, <2>8
  <2>11. <<r, n - (j - 1) - 1>> \in Items[p[m - 1]]
    BY <2>4, <2>8, <2>9, <2>10, ItemBack
  <2>12. n - (j - 1) - 1 = n - j
    BY <1>2, <2>3
  <2> QED BY <2>1, <2>5, <2>7, <2>11, <2>12
<1>4. \A j \in 0 .. n : Fits(j)
  BY <1>3
<1>5. n < Len(p)
  <2>1. n \in 0 .. n
    BY <1>2
  <2> QED BY <1>4, <2>1
<1>6. ASSUME NEW j \in 1 .. n PROVE rhs(r)[j] = Sym(p[Len(p) - n + j])
  <2>1. n - j \in 0 .. n /\ n - (n - j) = j /\ Len(p) - (n - j) = Len(p) - n + j
        /\ Len(p) - n + j \in 1 .. Len(p) /\ j > 0
    BY <1>1, <1>2, <1>5
  <2>2. <<r, j>> \in Items[p[Len(p) - n + j]]
    BY <1>4, <2>1
  <2>3. p[Len(p) - n + j] \in States
    BY <2>1, PathStates
  <2> QED BY <2>1, <2>2, <2>3, ItemFacts
<1> QED BY <1>2, <1>4, <1>5, <1>6

-----------------------------------------------------------------------------
(***************************************************************************)
(* The values: what an action leaves is of the type of its left-hand side. *)
(***************************************************************************)

IsNode(v, type) == "node" \in DOMAIN v /\ v.node = type

LEMMA NodeIsNode ==
  ASSUME NEW type, NEW fields
  PROVE  IsNode(Node(type, fields), type)
BY DEF IsNode, Node

LEMMA LinkedIsNode ==
  ASSUME NEW v, NEW rest, NEW type, IsNode(v, type)
  PROVE  IsNode(Linked(v, rest), type)
BY DEF IsNode, Linked

LEMMA StatementIsNode ==
  ASSUME NEW r \in 4 .. 28 \ PassOn, NEW d
  PROVE  IsNode(StatementValue(r, d), Built(r))
<1>1. CASE r \in Queries
  BY <1>1, NodeIsNode DEF StatementValue, Built, Queries, Query
<1>2. CASE r = 10
  BY <1>2, NodeIsNode DEF StatementValue, Built, Queries, create_create_table
<1>3. CASE r \in 13 .. 15
  BY <1>3, NodeIsNode DEF StatementValue, Built, Queries, create_column
<1>4. CASE r = 16
  BY <1>4, NodeIsNode DEF StatementValue, Built, Queries, create_column
<1>5. CASE r = 17
  BY <1>5, NodeIsNode DEF StatementValue, Built, Queries, create_remove_table
<1>6. CASE r = 18
  BY <1>6, NodeIsNode DEF StatementValue, Built, Queries, create_insert_records
<1>7. CASE r = 19
  BY <1>7, NodeIsNode DEF StatementValue, Built, Queries, create_loop_insert_records
<1>8. CASE r = 20
  BY <1>8, NodeIsNode DEF StatementValue, Built, Queries, create_record_fields
<1>9. CASE r = 21
  BY <1>9, NodeIsNode, LinkedIsNode DEF StatementValue, Built, Queries, create_record_fields
<1>10. CASE r = 24
  BY <1>10, NodeIsNode DEF StatementValue, Built, Queries, create_record_field
<1>11. CASE r = 25
  BY <1>11, NodeIsNode DEF StatementValue, Built, Queries, create_update_records
<1>12. CASE r = 26
  BY <1>12, NodeIsNode DEF StatementValue, Built, Queries, create_update_records_filter
<1>13. CASE r = 27
  BY <1>13, NodeIsNode DEF StatementValue, Built, Queries, create_remove_records
<1>14. CASE r = 28
  BY <1>14, NodeIsNode DEF StatementValue, Built, Queries, create_remove_records_filter
<1>15. r \in Queries \/ r = 10 \/ r \in 13 .. 15 \/ r = 16 \/ r = 17 \/ r = 18
       \/ r = 19 \/ r = 20 \/ r = 21 \/ r = 24 \/ r = 25 \/ r = 26 \/ r = 27 \/ r = 28
  BY DEF Queries, PassOn
<1> QED BY <1>1, <1>2, <1>3, <1>4, <1>5, <1>6, <1>7, <1>8, <1>9, <1>10, <1>11, <1>12,
           <1>13, <1>14, <1>15

LEMMA PartIsNode ==
  ASSUME NEW r \in 29 .. 54 \ PassOn, NEW d
  PROVE  IsNode(PartValue(r, d), Built(r))
<1>1. CASE r \in 29 .. 36
  <2>1. \A t, l, rest : IsNode(create_return(t, l, rest), "return_records")
    BY NodeIsNode DEF create_return
  <2>2. Built(r) = "return_records"
    BY <1>1 DEF Built, Queries
  <2>3. \E t, l, rest : PartValue(r, d) = create_return(t, l, rest)
    <3>1. CASE r = 29
      BY <3>1 DEF PartValue
    <3>2. CASE r = 30
      BY <3>2 DEF PartValue
    <3>3. CASE r = 31
      BY <3>3 DEF PartValue
    <3>4. CASE r = 32
      BY <3>4 DEF PartValue
    <3>5. CASE r = 33
      BY <3>5 DEF PartValue
    <3>6. CASE r = 34
      BY <3>6 DEF PartValue
    <3>7. CASE r = 35
      BY <3>7 DEF PartValue
    <3>8. CASE r = 36
      BY <3>8 DEF PartValue
    <3> QED BY <1>1, <3>1, <3>2, <3>3, <3>4, <3>5, <3>6, <3>7, <3>8
  <2> QED BY <2>1, <2>2, <2>3
<1>2. CASE r = 37
  BY <1>2, NodeIsNode DEF PartValue, Built, Queries, create_loop
<1>3. CASE r = 38
  BY <1>3, NodeIsNode DEF PartValue, Built, Queries, create_filter
<1>4. CASE r = 39
  BY <1>4, NodeIsNode, LinkedIsNode DEF PartValue, Built, Queries, create_filter
<1>5. CASE r = 40
  BY <1>5, NodeIsNode DEF PartValue, Built, Queries, create_comparison
<1>6. CASE r = 41
  BY <1>6, NodeIsNode, LinkedIsNode DEF PartValue, Built, Queries, create_comparison
<1>7. CASE r = 42
  BY <1>7, NodeIsNode DEF PartValue, Built, Queries, create_join_condition
<1>8. CASE r \in 45 .. 50
  <2>1. \A t, v : IsNode(create_literal(t, v), "literal")
    BY NodeIsNode DEF create_literal
  <2>2. Built(r) = "literal"
    BY <1>8 DEF Built, Queries
  <2>3. \E t, v : PartValue(r, d) = create_literal(t, v)
    <3>1. CASE r \in 45 .. 46
      BY <3>1 DEF PartValue, create_reference_literal
    <3>2. CASE r \in 47 .. 50
      BY <3>2 DEF PartValue
    <3> QED BY <1>8, <3>1, <3>2
  <2> QED BY <2>1, <2>2, <2>3
<1>9. CASE r \in {51, 53}
  BY <1>9, NodeIsNode DEF PartValue, Built, Queries, create_field
<1>10. CASE r \in {52, 54}
  BY <1>10, NodeIsNode, LinkedIsNode DEF PartValue, Built, Queries, create_field
<1>11. r \in 29 .. 36 \/ r = 37 \/ r = 38 \/ r = 39 \/ r = 40 \/ r = 41 \/ r = 42
       \/ r \in 45 .. 50 \/ r \in {51, 53} \/ r \in {52, 54}
  BY DEF PassOn
<1> QED BY <1>1, <1>2, <1>3, <1>4, <1>5, <1>6, <1>7, <1>8, <1>9, <1>10, <1>11

LEMMA ValueIsNode ==
  ASSUME NEW r \in 2 .. 54, r # 3, NEW d,
         \A i \in 1 .. Len(rhs(r)) : IsNode(d[i], TypeOfSymbol(rhs(r)[i]))
  PROVE  IsNode(Value(r, d), TypeOfSymbol(lhs(r)))
<1>1. CASE r = 2
  <2>1. lhs(r) = "input" /\ TypeOfSymbol("input") = "none"
    BY <1>1, Input, Certified DEF InputFits, TypesFit
  <2>2. Value(r, d) = Node("none", <<>>)
    BY <1>1 DEF Value
  <2> QED BY <2>1, <2>2, NodeIsNode
<1>2. CASE r \in PassOn
  <2>1. Len(rhs(r)) \in Nat
    <3>1. r \in 1 .. 54
      OBVIOUS
    <3> QED BY <3>1, Certified DEF RulesAgree
  <2>2. Len(rhs(r)) > 0 /\ TypeOfSymbol(rhs(r)[1]) = TypeOfSymbol(lhs(r))
    BY <1>2, Certified DEF TypesFit
  <2>3. IsNode(d[1], TypeOfSymbol(lhs(r)))
    BY <2>1, <2>2
  <2>4. CASE r \in {12, 23}
    <3>1. /\ r # 2 /\ r \notin {11, 22, 43, 44} /\ r \in 4 .. 28 \ {11, 22}
          /\ r \notin 29 .. 54 \ {43, 44} /\ r \notin Queries /\ r # 10
          /\ r \notin 13 .. 15 /\ r # 16 /\ r # 17 /\ r # 18 /\ r # 19
          /\ r # 20 /\ r # 21 /\ r # 24 /\ r # 25 /\ r # 26 /\ r # 27 /\ r # 28
      BY <2>4 DEF Queries
    <3>2. StatementValue(r, d) = Linked(d[1], d[3])
      BY <2>4, <3>1 DEF StatementValue
    <3>3. Value(r, d) = StatementValue(r, d)
      BY <3>1 DEF Value
    <3> QED BY <2>3, <3>2, <3>3, LinkedIsNode
  <2>5. CASE r \in {11, 22, 43, 44}
    <3>1. /\ r # 2 /\ r \notin 4 .. 28 \ {11, 22} /\ r \notin 29 .. 54 \ {43, 44}
      BY <2>5
    <3>2. Value(r, d) = d[1]
      BY <2>5, <3>1 DEF Value
    <3> QED BY <2>3, <3>2
  <2> QED BY <1>2, <2>4, <2>5 DEF PassOn
<1>3. CASE r \in 4 .. 54 \ PassOn
  <2>1. TypeOfSymbol(lhs(r)) = Built(r)
    BY <1>3, Certified DEF TypesFit
  <2>2. CASE r \in 4 .. 28
    <3>1. /\ r # 2 /\ r \notin {11, 22, 43, 44} /\ r \in 4 .. 28 \ {11, 22}
          /\ r \notin 29 .. 54 \ {43, 44}
      BY <1>3, <2>2 DEF PassOn
    <3>2. Value(r, d) = StatementValue(r, d)
      BY <3>1 DEF Value
    <3> QED BY <1>3, <2>1, <2>2, <3>2, StatementIsNode
  <2>3. CASE r \in 29 .. 54
    <3>1. /\ r # 2 /\ r \notin {11, 22, 43, 44} /\ r \notin 4 .. 28 \ {11, 22}
          /\ r \in 29 .. 54 \ {43, 44}
      BY <1>3, <2>3 DEF PassOn
    <3>2. Value(r, d) = PartValue(r, d)
      BY <3>1 DEF Value
    <3> QED BY <1>3, <2>1, <2>3, <3>2, PartIsNode
  <2> QED BY <1>3, <2>2, <2>3
<1> QED BY <1>1, <1>2, <1>3

-----------------------------------------------------------------------------
(***************************************************************************)
(* A reduction: the rule is complete on the path, and what is below it     *)
(* goes on with its left-hand side.                                        *)
(***************************************************************************)

(* What the tables say of the state a path ends in.                        *)
LEMMA TopState ==
  ASSUME NEW p, IsPath(p)
  PROVE  /\ Len(p) = 1 <=> Top(p) = 0
         /\ Len(p) = 1 => At(yypact, Top(p)) = YYPACT_NINF /\ At(yydefact, Top(p)) = 2
         /\ Len(p) # 1 =>
              /\ \A r, k : <<r, k>> \in Items[Top(p)] /\ k = Len(rhs(r)) =>
                             At(yydefact, Top(p)) = r
              /\ At(yydefact, Top(p)) # 0 =>
                   /\ At(yydefact, Top(p)) \in 3 .. 54
                   /\ <<At(yydefact, Top(p)), Len(rhs(At(yydefact, Top(p))))>> \in Items[Top(p)]
              /\ At(yypact, Top(p)) = YYPACT_NINF =>
                   /\ At(yydefact, Top(p)) # 0
                   /\ Items[Top(p)] =
                        {<<At(yydefact, Top(p)), Len(rhs(At(yydefact, Top(p))))>>}
              /\ At(yydefact, Top(p)) = 3 => At(yypact, Top(p)) = YYPACT_NINF
<1>1. Len(p) \in Nat \ {0} /\ Top(p) \in States \ {YYFINAL} /\ Len(p) \in 1 .. Len(p)
  BY PathStates
<1>2. Len(p) = 1 <=> Top(p) = 0
  BY <1>1, PathStates DEF Top
<1>3. ASSUME Len(p) # 1 PROVE Top(p) \in States \ {0, YYFINAL}
  <2>1. Len(p) # 1
    BY <1>3
  <2>2. Top(p) # 0
    BY ONLY <1>2, <2>1
  <2> QED BY ONLY <1>1, <2>2
<1>4. ASSUME Len(p) # 1, NEW r, NEW k, <<r, k>> \in Items[Top(p)], k = Len(rhs(r))
      PROVE  At(yydefact, Top(p)) = r
  <2>1. <<r, k>>[1] = r /\ <<r, k>>[2] = k
    OBVIOUS
  <2> QED BY <1>3, <1>4, <2>1, Certified DEF DefaultsFit
<1>5. Len(p) = 1 => At(yypact, Top(p)) = YYPACT_NINF /\ At(yydefact, Top(p)) = 2
  BY <1>2, Input DEF InputFits
<1>6. ASSUME Len(p) # 1
      PROVE  /\ At(yydefact, Top(p)) # 0 =>
                   /\ At(yydefact, Top(p)) \in 3 .. 54
                   /\ <<At(yydefact, Top(p)), Len(rhs(At(yydefact, Top(p))))>> \in Items[Top(p)]
             /\ At(yypact, Top(p)) = YYPACT_NINF =>
                   /\ At(yydefact, Top(p)) # 0
                   /\ Items[Top(p)] =
                        {<<At(yydefact, Top(p)), Len(rhs(At(yydefact, Top(p))))>>}
             /\ At(yydefact, Top(p)) = 3 => At(yypact, Top(p)) = YYPACT_NINF
  BY <1>3, <1>6, Certified DEF DefaultsFit
<1> QED BY <1>2, <1>4, <1>5, <1>6

LEMMA InputRules ==
  /\ 2 \in RulesOf("input") /\ "input" \in Nonterminals /\ <<2, 0>> \in Items[0]
  /\ Len(rhs(2)) = 0
<1>1. 2 \in RuleNumbers /\ lhs(2) = "input"
  <2>1. 2 \in 1 .. 54
    OBVIOUS
  <2> QED BY <2>1, Begin, Input DEF PartsBegin, InputFits
<1>2. 2 \in {q \in RuleNumbers : Rules[q].lhs = "input"}
  BY <1>1 DEF lhs
<1>3. "input" \in Nonterminals
  BY <1>1 DEF Nonterminals, lhs
<1>4. 0 \in States /\ "input" \in NextOf(Items[0])
  BY Input DEF InputFits, States
<1>5. PICK r, k : <<r, k>> \in Items[0] /\ k < Len(rhs(r)) /\ rhs(r)[k + 1] = "input"
  BY <1>4, NextItem
<1>6. <<2, 0>> \in Items[0]
  BY <1>2, <1>4, <1>5, ItemFacts DEF RulesOf
<1>7. Len(rhs(2)) = 0
  BY Input DEF InputFits
<1> QED BY <1>2, <1>3, <1>6, <1>7 DEF RulesOf

(* Where a rule of a part begins, there is input below.                    *)
LEMMA PartAboveInput ==
  ASSUME NEW r \in 4 .. 54, NEW k, <<r, k>> \in Items[0]
  PROVE  FALSE
<1>1. 0 \in States /\ \A i \in Items[0] : i[2] = 0
  BY Input DEF InputFits, States
<1>2. k = 0
  <2>1. <<r, k>>[2] = k
    OBVIOUS
  <2> QED BY <1>1, <2>1
<1>3. lhs(r) \in NextOf(Items[0])
  <2>1. r # 1
    OBVIOUS
  <2> QED BY <1>1, <1>2, <2>1, ItemFacts
<1>4. lhs(r) = "input"
  BY <1>3, Input DEF InputFits
<1> QED BY <1>4, RuleOfItsPart DEF Parts

LEMMA InputItems ==
  ASSUME NEW s \in States, s # 0, NEW r \in {1, 2, 3}, NEW k, <<r, k>> \in Items[s]
  PROVE  k > 0
<1>1. \A i \in Items[s] : i[1] \in {1, 2, 3} => i[2] > 0
  BY Input DEF InputFits
<1>2. <<r, k>>[1] = r /\ <<r, k>>[2] = k
  OBVIOUS
<1> QED BY <1>1, <1>2

Below(p, n) == Len(p) - n

LEMMA PathSymbols ==
  ASSUME NEW p, IsPath(p), NEW r, NEW n, <<r, n>> \in Items[Top(p)]
  PROVE  \A j \in 1 .. n : rhs(r)[j] = Sym(p[Below(p, n) + j])
<1>1. \A j \in 1 .. n : rhs(r)[j] = Sym(p[Len(p) - n + j])
  BY PathBack
<1>2. Below(p, n) = Len(p) - n
  BY DEF Below
<1> QED BY ONLY <1>1, <1>2

LEMMA Reduction ==
  ASSUME NEW p, IsPath(p), NEW r, At(yydefact, Top(p)) = r, r # 0
  PROVE  /\ r \in 2 .. 54 /\ <<r, Len(rhs(r))>> \in Items[Top(p)]
         /\ Len(rhs(r)) \in Nat /\ At(yyr2, r) = Len(rhs(r))
         /\ Below(p, Len(rhs(r))) \in 1 .. Len(p)
         /\ lhs(r) \in NextOf(Items[p[Below(p, Len(rhs(r)))]]) /\ lhs(r) \in Nonterminals
         /\ Goto(p[Below(p, Len(rhs(r)))], At(yyr1, r)) =
              Trans(p[Below(p, Len(rhs(r)))], lhs(r))
         /\ \A j \in 1 .. Len(rhs(r)) : rhs(r)[j] = Sym(p[Below(p, Len(rhs(r))) + j])
         /\ r = 2 <=> Len(p) = 1
         /\ r = 3 => Len(p) = 4 /\ Len(rhs(r)) = 3
         /\ r \in 4 .. 54 => Below(p, Len(rhs(r))) # 1
<1> DEFINE n == Len(rhs(r))
           b == Below(p, n)
<1> HIDE DEF b, n
<1>1. p \in Seq(States) /\ Len(p) \in Nat \ {0} /\ Top(p) \in States
  BY PathStates DEF IsPath
<1>2. r \in 2 .. 54 /\ <<r, n>> \in Items[Top(p)] /\ (r = 2 <=> Len(p) = 1)
  <2>1. CASE Len(p) = 1
    <3>1. r = 2 /\ Top(p) = 0
      BY <2>1, TopState
    <3>2. <<2, 0>> \in Items[0] /\ Len(rhs(2)) = 0
      BY InputRules
    <3>3. <<r, n>> \in Items[Top(p)]
      BY ONLY <3>1, <3>2 DEF n
    <3>4. r \in 2 .. 54
      BY ONLY <3>1
    <3> QED BY ONLY <2>1, <3>1, <3>3, <3>4
  <2>2. CASE Len(p) # 1
    <3>1. r \in 3 .. 54 /\ <<r, n>> \in Items[Top(p)]
      BY <2>2, TopState DEF n
    <3>2. r \in 2 .. 54 /\ r # 2
      BY ONLY <3>1
    <3> QED BY ONLY <2>2, <3>1, <3>2
  <2> QED BY ONLY <2>1, <2>2
<1>3. n \in Nat /\ At(yyr2, r) = n /\ At(yyr1, r) = Symbol(lhs(r))
  <2>1. r \in 1 .. 54
    BY ONLY <1>2
  <2> QED BY <2>1, Certified DEF RulesAgree, n
<1>4. /\ n < Len(p)
      /\ \A j \in 0 .. n : <<r, n - j>> \in Items[p[Len(p) - j]]
      /\ \A j \in 1 .. n : rhs(r)[j] = Sym(p[Len(p) - n + j])
  BY <1>2, PathBack
<1>5. b \in 1 .. Len(p) /\ b = Len(p) - n
  BY <1>1, <1>3, <1>4 DEF Below, b
<1>6. <<r, 0>> \in Items[p[b]]
  <2>1. n \in 0 .. n /\ n - n = 0
    BY <1>3
  <2> QED BY <1>4, <1>5, <2>1
<1>7. p[b] \in States /\ (p[b] = 0 <=> b = 1)
  BY <1>5, PathStates
<1>8. lhs(r) \in NextOf(Items[p[b]])
  <2>1. r # 1
    BY ONLY <1>2
  <2> QED BY <1>6, <1>7, <2>1, ItemFacts
<1>9. lhs(r) \in Nonterminals
  <2>1. CASE r \in {2, 3}
    <3>1. lhs(r) = "input"
      BY <2>1, Input DEF InputFits
    <3> QED BY <3>1, InputRules
  <2>2. CASE r \in 4 .. 54
    BY <2>2, RuleOfItsPart, PartsAndTokens
  <2> QED BY <1>2, <2>1, <2>2
<1>10. Goto(p[b], At(yyr1, r)) = Trans(p[b], lhs(r))
  BY <1>3, <1>9 DEF Trans
<1>11. ASSUME r = 3 PROVE Len(p) = 4 /\ n = 3
  <2>1. n = 3
    BY <1>11, Input DEF InputFits, n
  <2>2. p[b] = 0
    <3>1. ASSUME p[b] # 0 PROVE FALSE
      <4>1. 0 > 0
        BY <1>6, <1>7, <1>11, <3>1, InputItems
      <4> QED BY <4>1
    <3> QED BY <3>1
  <2> QED BY <1>1, <1>5, <1>7, <2>1, <2>2
<1>12. ASSUME r \in 4 .. 54 PROVE b # 1
  <2>1. p[b] # 0
    BY <1>6, <1>12, PartAboveInput
  <2> QED BY <1>5, <1>7, <2>1
<1>13. \A j \in 1 .. n : rhs(r)[j] = Sym(p[b + j])
  BY <1>4, <1>5
<1> QED BY <1>2, <1>3, <1>5, <1>8, <1>9, <1>10, <1>11, <1>12, <1>13 DEF b, n

-----------------------------------------------------------------------------
(***************************************************************************)
(* Type correctness.                                                       *)
(***************************************************************************)

(* Every value is a node of the type of the symbol behind its state.       *)
ValuesFit(p, v) ==
  /\ \E S : v \in Seq(S)
  /\ Len(v) = Len(p) - 1
  /\ \A i \in 1 .. Len(v) : IsNode(v[i], TypeOfSymbol(Sym(p[i + 1])))

TokenFits(c) == c.token \in Tokens /\ IsNode(c, MemberOf(c.token))

StacksFit ==
  IF result = Running
  THEN IsPath(yyss) /\ Len(yyss) < YYMAXDEPTH /\ ValuesFit(yyss, yyvs)
  ELSE yyss = <<>> /\ yyvs = <<>>

TypeInv ==
  /\ StacksFit
  /\ yychar = Empty \/ TokenFits(yychar)
  /\ result.node \in {"running", "error", "end", "memory", "query"}

LEMMA NumberCases ==
  ASSUME NEW l \in Nat, NEW m \in Nat, NEW i \in 1 .. l, l = m - 1
  PROVE  i \in 1 .. m /\ i + 1 \in 1 .. m
OBVIOUS

LEMMA ValuesAppend ==
  ASSUME NEW p, IsPath(p), NEW v, ValuesFit(p, v),
         NEW X \in NextOf(Items[Top(p)]), NEW w, IsNode(w, TypeOfSymbol(X)),
         Trans(Top(p), X) # YYFINAL
  PROVE  ValuesFit(Append(p, Trans(Top(p), X)), Append(v, w))
<1> DEFINE s == Trans(Top(p), X)
           q == Append(p, s)
           u == Append(v, w)
<1>1. Top(p) \in States /\ Len(p) \in Nat \ {0}
  BY PathStates
<1>2. Sym(s) = X
  BY <1>1, TransKernel
<1>3. Len(q) = Len(p) + 1 /\ Top(q) = s /\ \A i \in 1 .. Len(p) : q[i] = p[i]
  BY PathAppend
<1>4. PICK S : v \in Seq(S)
  BY DEF ValuesFit
<1>5. v \in Seq(S \cup {w})
  BY <1>4, SeqMonotonic
<1>6. /\ u \in Seq(S \cup {w}) /\ Len(u) = Len(v) + 1 /\ u[Len(v) + 1] = w
      /\ \A i \in 1 .. Len(v) : u[i] = v[i]
  BY <1>5, AppendProperties
<1> HIDE DEF s, q, u
<1>7. Len(v) = Len(p) - 1 /\ Len(v) \in Nat
  BY <1>4, LenProperties DEF ValuesFit
<1>8. q[Len(p) + 1] = s
  BY <1>3 DEF Top
<1>9. PICK l \in Nat, m \in Nat \ {0} : l = Len(v) /\ m = Len(p) /\ l = m - 1
  BY <1>1, <1>7
<1>10. ASSUME NEW i \in 1 .. Len(u) PROVE IsNode(u[i], TypeOfSymbol(Sym(q[i + 1])))
  <2>1. i \in 1 .. l + 1
    BY ONLY <1>6, <1>9, i \in 1 .. Len(u)
  <2>2. CASE i = l + 1
    <3>1. u[i] = w
      BY ONLY <1>6, <1>9, <2>2
    <3>2. i + 1 = m + 1
      BY ONLY <1>9, <2>2, l \in Nat, m \in Nat \ {0}
    <3>3. q[i + 1] = s
      BY ONLY <1>8, <1>9, <3>2
    <3> QED BY <1>2, <3>1, <3>3
  <2>3. CASE i # l + 1
    <3>1. i \in 1 .. l
      BY ONLY <2>1, <2>3, l \in Nat
    <3>2. i \in 1 .. Len(v)
      BY ONLY <1>9, <3>1
    <3>3. i + 1 \in 1 .. m
      BY ONLY <1>9, <3>1, l \in Nat, m \in Nat \ {0}
    <3>4. i + 1 \in 1 .. Len(p)
      BY ONLY <1>9, <3>3
    <3>5. u[i] = v[i] /\ q[i + 1] = p[i + 1]
      BY <1>3, <1>6, <3>2, <3>4
    <3> QED BY <3>2, <3>5 DEF ValuesFit
  <2> QED BY <2>2, <2>3
<1>11. Len(u) = Len(q) - 1
  BY ONLY <1>3, <1>6, <1>9
<1>12. ValuesFit(q, u)
  BY <1>6, <1>10, <1>11 DEF ValuesFit
<1> QED BY <1>12 DEF q, u, s

LEMMA ValuesPrefix ==
  ASSUME NEW p, IsPath(p), NEW v, ValuesFit(p, v), NEW n \in 1 .. Len(p)
  PROVE  ValuesFit(SubSeq(p, 1, n), SubSeq(v, 1, n - 1))
<1> DEFINE q == SubSeq(p, 1, n)
           u == SubSeq(v, 1, n - 1)
<1>1. Len(p) \in Nat \ {0}
  BY PathStates
<1>2. Len(q) = n /\ \A i \in 1 .. n : q[i] = p[i]
  BY PathPrefix
<1>3. PICK S : v \in Seq(S)
  BY DEF ValuesFit
<1>4. Len(v) = Len(p) - 1 /\ Len(v) \in Nat
  BY <1>3, LenProperties DEF ValuesFit
<1>5. PICK l \in Nat, m \in Nat \ {0} : l = Len(v) /\ m = Len(p) /\ l = m - 1
  BY <1>1, <1>4
<1>6. n \in 1 .. m
  BY ONLY <1>5, n \in 1 .. Len(p)
<1>7. n \in Nat /\ n - 1 \in Nat /\ \A i \in 1 .. n - 1 : i \in 1 .. l /\ i \in 1 .. n /\ i + 1 \in 1 .. n
  BY ONLY <1>5, <1>6, l \in Nat, m \in Nat \ {0}
<1>8. \A i \in 1 .. n - 1 : i \in 1 .. Len(v)
  BY ONLY <1>5, <1>7
<1>9. \A i \in 1 .. n - 1 : v[i] \in S
  BY <1>3, <1>8, ElementOfSeq
<1>10. /\ u \in Seq(S) /\ Len(u) = n - 1
       /\ \A i \in 1 .. n - 1 : u[i] = v[i]
  <2>1. 1 \in Int /\ n - 1 \in Int
    BY <1>7
  <2>2. /\ u \in Seq(S) /\ Len(u) = (IF 1 <= n - 1 THEN n - 1 - 1 + 1 ELSE 0)
        /\ \A i \in 1 .. n - 1 - 1 + 1 : u[i] = v[1 + i - 1]
    BY <1>9, <2>1, SubSeqProperties
  <2>3. (IF 1 <= n - 1 THEN n - 1 - 1 + 1 ELSE 0) = n - 1
        /\ n - 1 - 1 + 1 = n - 1 /\ \A i \in 1 .. n - 1 : 1 + i - 1 = i
    BY <1>7
  <2> QED BY ONLY <2>2, <2>3
<1> HIDE DEF q, u
<1>11. Len(u) = Len(q) - 1
  BY ONLY <1>2, <1>10
<1>12. ASSUME NEW i \in 1 .. Len(u) PROVE IsNode(u[i], TypeOfSymbol(Sym(q[i + 1])))
  <2>1. i \in 1 .. n - 1
    BY ONLY <1>10, i \in 1 .. Len(u)
  <2>2. i \in 1 .. Len(v) /\ i + 1 \in 1 .. n /\ u[i] = v[i]
    BY <1>7, <1>8, <1>10, <2>1
  <2>3. q[i + 1] = p[i + 1]
    BY ONLY <1>2, <2>2
  <2> QED BY <2>2, <2>3 DEF ValuesFit
<1>13. ValuesFit(q, u)
  BY <1>10, <1>11, <1>12 DEF ValuesFit
<1> QED BY <1>13 DEF q, u

LEMMA PushTypes ==
  ASSUME NEW p, IsPath(p), NEW v, ValuesFit(p, v),
         NEW X \in NextOf(Items[Top(p)]), NEW w, IsNode(w, TypeOfSymbol(X)),
         result = Running, Push(p, v, Trans(Top(p), X), w)
  PROVE  StacksFit' /\ result'.node \in {"running", "error", "end", "memory", "query"}
<1> DEFINE s == Trans(Top(p), X)
<1>1. CASE Len(p) + 1 >= YYMAXDEPTH
  <2>1. result' = MemoryExhausted /\ yyss' = <<>> /\ yyvs' = <<>>
    BY <1>1 DEF Push, Return
  <2>2. IsNode(MemoryExhausted, "memory") /\ IsNode(Running, "running")
    BY NodeIsNode DEF MemoryExhausted, Running
  <2>3. result' # Running /\ result'.node = "memory"
    BY <2>1, <2>2 DEF IsNode
  <2> QED BY <2>1, <2>3 DEF StacksFit
<1>2. CASE ~ (Len(p) + 1 >= YYMAXDEPTH) /\ s = YYFINAL
  <2>1. result' = EndOfInput /\ yyss' = <<>> /\ yyvs' = <<>>
    BY <1>2 DEF Push, Return
  <2>2. IsNode(EndOfInput, "end") /\ IsNode(Running, "running")
    BY NodeIsNode DEF EndOfInput, Running
  <2>3. result' # Running /\ result'.node = "end"
    BY <2>1, <2>2 DEF IsNode
  <2> QED BY <2>1, <2>3 DEF StacksFit
<1>3. CASE ~ (Len(p) + 1 >= YYMAXDEPTH) /\ s # YYFINAL
  <2>1. yyss' = Append(p, s) /\ yyvs' = Append(v, w) /\ result' = Running
    BY <1>3 DEF Push
  <2>2. IsPath(Append(p, s)) /\ Len(Append(p, s)) = Len(p) + 1
    BY <1>3, PathAppend
  <2>3. ValuesFit(Append(p, s), Append(v, w))
    BY <1>3, ValuesAppend
  <2>4. Len(Append(p, s)) < YYMAXDEPTH
    <3>1. PICK l \in Nat : l = Len(p)
      BY PathStates
    <3>2. ~ (l + 1 >= YYMAXDEPTH) /\ Len(Append(p, s)) = l + 1
      BY ONLY <1>3, <2>2, <3>1
    <3>3. YYMAXDEPTH \in Nat
      BY ParserAssumption
    <3>4. l + 1 < YYMAXDEPTH
      BY ONLY <3>2, <3>3, l \in Nat
    <3> QED BY ONLY <3>2, <3>4
  <2>5. result'.node = "running"
    BY <2>1, NodeIsNode DEF IsNode, Running
  <2> HIDE DEF s
  <2> QED BY <2>1, <2>2, <2>3, <2>4, <2>5 DEF StacksFit
<1> QED BY <1>1, <1>2, <1>3

LEMMA ShiftGoes ==
  ASSUME NEW s \in States, NEW t \in Tokens, At(yypact, s) # YYPACT_NINF
  PROVE  /\ Trans(s, t) = Shifts(s, t)
         /\ Shifts(s, t) # 0 <=> t \in NextOf(Items[s])
<1>1. t \notin Nonterminals
  BY Begin DEF PartsBegin
<1>2. Trans(s, t) = Shifts(s, t)
  BY <1>1 DEF Trans
<1>3. Shifts(s, t) # 0 => t \in NextOf(Items[s])
  BY Certified DEF ShiftsFit
<1>4. t \in NextOf(Items[s]) => Shifts(s, t) # 0
  BY <1>2, TransKernel
<1> QED BY <1>2, <1>3, <1>4

LEMMA StateOfTop ==
  ASSUME IsPath(yyss)
  PROVE  yystate = Top(yyss) /\ Top(yyss) \in States
BY PathStates DEF yystate, Top

(* A shift goes on with the token, a reduction with the left-hand side of  *)
(* the rule on what is below it.                                           *)
LEMMA ShiftPushes ==
  ASSUME IsPath(yyss), TokenFits(yychar), Shift
  PROVE  /\ yychar.token \in NextOf(Items[Top(yyss)])
         /\ Push(yyss, yyvs, Trans(Top(yyss), yychar.token), yychar)
         /\ IsNode(yychar, TypeOfSymbol(yychar.token))
<1>1. yystate = Top(yyss) /\ Top(yyss) \in States /\ yychar.token \in Tokens
  BY StateOfTop DEF TokenFits
<1>2. At(yypact, Top(yyss)) # YYPACT_NINF /\ Shifts(Top(yyss), yychar.token) # 0
  BY <1>1 DEF Shift, Decided, Shifted
<1>3. /\ Trans(Top(yyss), yychar.token) = Shifts(Top(yyss), yychar.token)
      /\ yychar.token \in NextOf(Items[Top(yyss)])
  BY <1>1, <1>2, ShiftGoes
<1>4. Push(yyss, yyvs, Trans(Top(yyss), yychar.token), yychar)
  <2>1. Push(yyss, yyvs, Shifted, yychar)
    BY DEF Shift
  <2>2. Shifted = Trans(Top(yyss), yychar.token)
    BY <1>1, <1>3 DEF Shifted
  <2> QED BY <2>1, <2>2
<1>5. TypeOfSymbol(yychar.token) = MemberOf(yychar.token)
  BY <1>1, Certified DEF TypesFit
<1> QED BY <1>3, <1>4, <1>5 DEF TokenFits

LEMMA ReduceReturns ==
  ASSUME IsPath(yyss), ValuesFit(yyss, yyvs), Reduce, At(yydefact, Top(yyss)) = 3
  PROVE  /\ result'.node = "query" /\ yyss' = <<>> /\ yyvs' = <<>>
<1> DEFINE p == yyss
           b == Below(p, Len(rhs(3)))
<1>1. /\ Len(p) = 4 /\ Len(rhs(3)) = 3 /\ At(yyr2, 3) = 3
      /\ \A j \in 1 .. Len(rhs(3)) : rhs(3)[j] = Sym(p[b + j])
  <2>1. PICK r : r = 3 /\ At(yydefact, Top(yyss)) = r /\ r # 0
    OBVIOUS
  <2>2. /\ r = 3 => Len(yyss) = 4 /\ Len(rhs(r)) = 3
        /\ At(yyr2, r) = Len(rhs(r))
        /\ \A j \in 1 .. Len(rhs(r)) : rhs(r)[j] = Sym(yyss[Below(yyss, Len(rhs(r))) + j])
    BY <2>1, Reduction
  <2> QED BY ONLY <2>1, <2>2
<1>2. rhs(3)[2] = "query" /\ Len(yyvs) = 3 /\ b = 1
  BY <1>1, Input DEF InputFits, ValuesFit, Below
<1>3. Sym(p[3]) = "query"
  <2>1. 2 \in 1 .. Len(rhs(3))
    BY ONLY <1>1
  <2> QED BY <1>1, <1>2, <2>1
<1>4. IsNode(yyvs[2], "query")
  <2>1. 2 \in 1 .. Len(yyvs) /\ 2 + 1 = 3
    BY <1>2
  <2>2. IsNode(yyvs[2], TypeOfSymbol(Sym(p[3])))
    BY <2>1 DEF ValuesFit
  <2>3. TypeOfSymbol("query") = "query"
    BY Certified DEF TypesFit
  <2> QED BY <1>3, <2>2, <2>3
<1>5. yystate = Top(yyss)
  BY DEF yystate, Top
<1>6. Return(SubSeq(yyvs, Len(yyvs) - 3 + 1, Len(yyvs))[2])
  <2>1. /\ At(yydefact, yystate) = 3 /\ At(yyr2, 3) = 3
    BY <1>1, <1>5
  <2> QED BY <2>1 DEF Reduce
<1>7. SubSeq(yyvs, 1, 3)[2] = yyvs[2]
  <2>1. PICK S : yyvs \in Seq(S)
    BY DEF ValuesFit
  <2>2. \A i \in 1 .. 3 : yyvs[i] \in S
    BY <1>2, <2>1, ElementOfSeq
  <2>3. \A i \in 1 .. 3 - 1 + 1 : SubSeq(yyvs, 1, 3)[i] = yyvs[1 + i - 1]
    BY <2>2, SubSeqProperties
  <2> QED BY <2>3
<1>8. Return(yyvs[2])
  <2>1. Len(yyvs) - 3 + 1 = 1
    BY <1>2
  <2> QED BY <1>2, <1>6, <1>7, <2>1
<1> QED BY <1>4, <1>8 DEF Return, IsNode

LEMMA ReducePushes ==
  ASSUME IsPath(yyss), ValuesFit(yyss, yyvs), Reduce,
         NEW r, At(yydefact, Top(yyss)) = r, r # 3,
         NEW b, b = Below(yyss, Len(rhs(r)))
  PROVE  /\ r \in 2 .. 54 /\ b \in 1 .. Len(yyss)
         /\ lhs(r) \in NextOf(Items[Top(SubSeq(yyss, 1, b))])
         /\ \E w : /\ IsNode(w, TypeOfSymbol(lhs(r)))
                   /\ Push(SubSeq(yyss, 1, b), SubSeq(yyvs, 1, b - 1),
                           Trans(Top(SubSeq(yyss, 1, b)), lhs(r)), w)
<1> DEFINE n == Len(rhs(r))
           d == SubSeq(yyvs, Len(yyvs) - n + 1, Len(yyvs))
<1>1. yystate = Top(yyss)
  BY DEF yystate, Top
<1>2. r # 0
  BY <1>1 DEF Reduce
<1>3. /\ r \in 2 .. 54 /\ n \in Nat /\ At(yyr2, r) = n
      /\ b \in 1 .. Len(yyss) /\ lhs(r) \in NextOf(Items[yyss[b]])
      /\ Goto(yyss[b], At(yyr1, r)) = Trans(yyss[b], lhs(r))
      /\ \A j \in 1 .. n : rhs(r)[j] = Sym(yyss[b + j])
  BY <1>2, Reduction
<1>4. Top(SubSeq(yyss, 1, b)) = yyss[b]
  BY <1>3, PathPrefix
<1>5. b = Len(yyss) - n
  BY DEF Below
<1>6. Push(SubSeq(yyss, 1, b), SubSeq(yyvs, 1, b - 1), Goto(yyss[b], At(yyr1, r)), Value(r, d))
  <2>1. At(yydefact, yystate) = r /\ At(yyr2, r) = n
    BY <1>1, <1>3
  <2> HIDE DEF n
  <2> QED BY <1>5, <2>1 DEF Reduce
<1>7. ASSUME NEW i \in 1 .. n PROVE IsNode(d[i], TypeOfSymbol(rhs(r)[i]))
  <2>1. PICK S : yyvs \in Seq(S)
    BY DEF ValuesFit
  <2>2. PICK l \in Nat, m \in Nat \ {0} : l = Len(yyvs) /\ m = Len(yyss) /\ l = m - 1
    <3>1. Len(yyss) \in Nat \ {0}
      BY PathStates
    <3>2. Len(yyvs) \in Nat /\ Len(yyvs) = Len(yyss) - 1
      BY <2>1, LenProperties DEF ValuesFit
    <3> QED BY <3>1, <3>2
  <2>3. n \in Nat /\ b = m - n /\ b \in 1 .. m
    BY ONLY <1>3, <1>5, <2>2
  <2>4. i \in 1 .. n
    OBVIOUS
  <2> HIDE DEF n
  <2>5. /\ l - n + 1 \in Int /\ l \in Int /\ l - (l - n + 1) + 1 = n
        /\ \A j \in l - n + 1 .. l : j \in 1 .. l
        /\ l - n + 1 + i - 1 = b + i - 1
        /\ b + i - 1 \in 1 .. l /\ b + i - 1 + 1 = b + i
    BY ONLY <2>2, <2>3, <2>4, l \in Nat, m \in Nat \ {0}
  <2>6. \A j \in l - n + 1 .. l : yyvs[j] \in S
    <3>1. \A j \in 1 .. l : yyvs[j] \in S
      BY <2>1, <2>2, ElementOfSeq
    <3> QED BY ONLY <2>5, <3>1
  <2>7. d[i] = yyvs[b + i - 1]
    <3>1. \A j \in 1 .. l - (l - n + 1) + 1 :
             SubSeq(yyvs, l - n + 1, l)[j] = yyvs[l - n + 1 + j - 1]
      BY <2>5, <2>6, SubSeqProperties
    <3>2. SubSeq(yyvs, l - n + 1, l)[i] = yyvs[l - n + 1 + i - 1]
      BY ONLY <2>4, <2>5, <3>1
    <3>3. d = SubSeq(yyvs, l - n + 1, l)
      BY ONLY <2>2
    <3> QED BY ONLY <2>5, <3>2, <3>3
  <2>8. IsNode(yyvs[b + i - 1], TypeOfSymbol(Sym(yyss[b + i])))
    <3>1. b + i - 1 \in 1 .. Len(yyvs)
      BY ONLY <2>2, <2>5
    <3>2. IsNode(yyvs[b + i - 1], TypeOfSymbol(Sym(yyss[b + i - 1 + 1])))
      BY <3>1 DEF ValuesFit
    <3> QED BY ONLY <2>5, <3>2
  <2>9. rhs(r)[i] = Sym(yyss[b + i])
    BY <1>3, <2>4 DEF n
  <2> QED BY ONLY <2>7, <2>8, <2>9
<1>8. IsNode(Value(r, d), TypeOfSymbol(lhs(r)))
  <2> HIDE DEF d
  <2> QED BY <1>3, <1>7, ValueIsNode
<1> HIDE DEF d
<1>9. /\ lhs(r) \in NextOf(Items[Top(SubSeq(yyss, 1, b))])
      /\ Push(SubSeq(yyss, 1, b), SubSeq(yyvs, 1, b - 1),
              Trans(Top(SubSeq(yyss, 1, b)), lhs(r)), Value(r, d))
  BY <1>3, <1>4, <1>6
<1> QED BY <1>3, <1>8, <1>9

LEMMA Returns ==
  ASSUME NEW kind \in {"error", "end", "memory", "query"}, result'.node = kind,
         yyss' = <<>>, yyvs' = <<>>
  PROVE  StacksFit' /\ result'.node \in {"running", "error", "end", "memory", "query"}
<1>1. Running.node = "running"
  BY NodeIsNode DEF IsNode, Running
<1>2. result' # Running
  BY <1>1
<1> QED BY <1>2 DEF StacksFit

LEMMA StepsRun ==
  ASSUME StacksFit, ReadToken \/ Shift \/ Reduce \/ Refuse
  PROVE  /\ result = Running /\ IsPath(yyss) /\ Len(yyss) < YYMAXDEPTH
         /\ ValuesFit(yyss, yyvs)
BY DEF StacksFit, ReadToken, Shift, Reduce, Refuse, Default

TypesInv == TypeInv /\ \E S : typed \in Seq(S)

LEMMA TypeInit == Init => TypesInv
<1> SUFFICES ASSUME Init PROVE TypesInv
  OBVIOUS
<1>1. yyss = <<0>> /\ yyvs = <<>> /\ yychar = Empty /\ result = Running /\ typed = <<>>
  BY DEF Init
<1>2. IsPath(<<0>>) /\ Len(<<0>>) = 1
  <2>1. 0 \in States
    BY DEF States
  <2> QED BY <2>1 DEF IsPath
<1>3. ValuesFit(<<0>>, <<>>)
  <2>1. <<>> \in Seq({}) /\ Len(<<>>) = 0
    OBVIOUS
  <2> QED BY <1>2, <2>1 DEF ValuesFit
<1>4. 1 < YYMAXDEPTH
  BY ParserAssumption
<1>5. Running.node = "running"
  BY NodeIsNode DEF IsNode, Running
<1>6. \E S : typed \in Seq(S)
  <2>1. <<>> \in Seq({})
    OBVIOUS
  <2> QED BY <1>1, <2>1
<1> QED BY <1>1, <1>2, <1>3, <1>4, <1>5, <1>6 DEF TypesInv, TypeInv, StacksFit

LEMMA TypeRead ==
  ASSUME TypesInv, ReadToken
  PROVE  TypesInv' /\ yychar' # Empty
<1>1. PICK token \in {t \in Typeable : Room(t)} : \E text \in TextsOf(token) :
        /\ typed' = Append(typed, [token |-> token, text |-> text])
        /\ yychar' = yylex(typed'[Len(typed')])
  BY DEF ReadToken
<1>2. PICK text \in TextsOf(token) :
        /\ typed' = Append(typed, [token |-> token, text |-> text])
        /\ yychar' = yylex(typed'[Len(typed')])
  BY <1>1
<1> DEFINE lexeme == [token |-> token, text |-> text]
<1>3. token \in Tokens
  BY ParserAssumption DEF Typeable, ParserAssumption
<1>4. typed' \in Seq(UNION {{typed[i] : i \in 1 .. Len(typed)}, {lexeme}})
      /\ typed'[Len(typed')] = lexeme
  <2>1. PICK S : typed \in Seq(S)
    BY DEF TypesInv
  <2>2. Len(typed) \in Nat /\ \A i \in 1 .. Len(typed) : typed[i] \in S
    BY <2>1, LenProperties, ElementOfSeq
  <2> DEFINE T == UNION {{typed[i] : i \in 1 .. Len(typed)}, {lexeme}}
  <2>3. \A i \in 1 .. Len(typed) : typed[i] \in T
    OBVIOUS
  <2>4. lexeme \in T
    OBVIOUS
  <2> HIDE DEF T, lexeme
  <2>5. typed \in Seq(T)
    BY <2>1, <2>2, <2>3
  <2>6. /\ Append(typed, lexeme) \in Seq(T) /\ Len(Append(typed, lexeme)) = Len(typed) + 1
        /\ Append(typed, lexeme)[Len(typed) + 1] = lexeme
    BY <2>4, <2>5, AppendProperties
  <2> QED BY <1>2, <2>6 DEF T, lexeme
<1>5. yychar' = yylex(lexeme)
  BY <1>2, <1>4
<1>6. yychar'.token = token /\ IsNode(yychar', MemberOf(token))
  <2>1. lexeme.token = token
    OBVIOUS
  <2> HIDE DEF lexeme
  <2> QED BY <1>5, <2>1 DEF yylex, IsNode
<1>7. TokenFits(yychar')
  BY <1>3, <1>6 DEF TokenFits
<1>8. yychar' # Empty
  <2>1. Empty.token = "YYEMPTY"
    BY DEF Empty
  <2>2. "YYEMPTY" \notin Tokens
    BY Certified DEF TypesFit
  <2> QED BY <1>3, <1>6, <2>1, <2>2
<1>9. StacksFit' /\ result'.node \in {"running", "error", "end", "memory", "query"}
  BY DEF TypesInv, TypeInv, StacksFit, ReadToken
<1> QED BY <1>4, <1>7, <1>8, <1>9 DEF TypesInv, TypeInv

LEMMA TypeShift ==
  ASSUME TypesInv, Shift
  PROVE  TypesInv' /\ TokenFits(yychar)
<1>1. /\ result = Running /\ IsPath(yyss) /\ Len(yyss) < YYMAXDEPTH
      /\ ValuesFit(yyss, yyvs)
  BY StepsRun DEF TypesInv, TypeInv
<1>2. TokenFits(yychar)
  BY DEF TypesInv, TypeInv, Shift
<1>3. PICK X \in NextOf(Items[Top(yyss)]) :
        X = yychar.token /\ Push(yyss, yyvs, Trans(Top(yyss), X), yychar)
        /\ IsNode(yychar, TypeOfSymbol(X))
  BY <1>1, <1>2, ShiftPushes
<1>4. StacksFit' /\ result'.node \in {"running", "error", "end", "memory", "query"}
  BY <1>1, <1>3, PushTypes
<1>5. yychar' = Empty /\ typed' = typed
  BY DEF Shift
<1> QED BY <1>2, <1>4, <1>5 DEF TypesInv, TypeInv

LEMMA TypeReduce ==
  ASSUME TypesInv, Reduce
  PROVE  TypesInv'
<1>1. /\ result = Running /\ IsPath(yyss) /\ Len(yyss) < YYMAXDEPTH
      /\ ValuesFit(yyss, yyvs)
  BY StepsRun DEF TypesInv, TypeInv
<1>2. StacksFit' /\ result'.node \in {"running", "error", "end", "memory", "query"}
  <2>1. CASE At(yydefact, Top(yyss)) = 3
    BY <1>1, <2>1, ReduceReturns, Returns
  <2>2. CASE At(yydefact, Top(yyss)) # 3
    <3>1. PICK r : At(yydefact, Top(yyss)) = r /\ r # 3
      BY <2>2
    <3>2. PICK b : b = Below(yyss, Len(rhs(r)))
      OBVIOUS
    <3>3. b \in 1 .. Len(yyss) /\ lhs(r) \in NextOf(Items[Top(SubSeq(yyss, 1, b))])
      BY <1>1, <3>1, <3>2, ReducePushes
    <3>4. PICK w : /\ IsNode(w, TypeOfSymbol(lhs(r)))
                   /\ Push(SubSeq(yyss, 1, b), SubSeq(yyvs, 1, b - 1),
                           Trans(Top(SubSeq(yyss, 1, b)), lhs(r)), w)
      BY <1>1, <3>1, <3>2, ReducePushes
    <3>5. PICK q, v : q = SubSeq(yyss, 1, b) /\ v = SubSeq(yyvs, 1, b - 1)
      OBVIOUS
    <3>6. IsPath(q) /\ ValuesFit(q, v)
      BY <1>1, <3>3, <3>5, PathPrefix, ValuesPrefix
    <3>7. lhs(r) \in NextOf(Items[Top(q)]) /\ Push(q, v, Trans(Top(q), lhs(r)), w)
      BY ONLY <3>3, <3>4, <3>5
    <3> QED BY <1>1, <3>4, <3>6, <3>7, PushTypes
  <2> QED BY <2>1, <2>2
<1>3. yychar' = yychar /\ typed' = typed
  BY DEF Reduce
<1> QED BY <1>2, <1>3 DEF TypesInv, TypeInv

LEMMA TypeRefuse ==
  ASSUME TypesInv, Refuse
  PROVE  TypesInv'
<1>1. result' = SyntaxError /\ yyss' = <<>> /\ yyvs' = <<>>
  BY DEF Refuse, Return
<1>2. SyntaxError.node = "error"
  BY NodeIsNode DEF IsNode, SyntaxError
<1>3. StacksFit' /\ result'.node \in {"running", "error", "end", "memory", "query"}
  BY <1>1, <1>2, Returns
<1>4. yychar' = yychar /\ typed' = typed
  BY DEF Refuse
<1> QED BY <1>3, <1>4 DEF TypesInv, TypeInv

LEMMA TypeNext == TypesInv /\ [Next]_vars => TypesInv'
<1> SUFFICES ASSUME TypesInv, [Next]_vars PROVE TypesInv'
  OBVIOUS
<1>1. CASE ReadToken
  BY <1>1, TypeRead
<1>2. CASE Shift
  BY <1>2, TypeShift
<1>3. CASE Reduce
  BY <1>3, TypeReduce
<1>4. CASE Refuse
  BY <1>4, TypeRefuse
<1>5. CASE UNCHANGED vars
  BY <1>5 DEF vars, TypesInv, TypeInv, StacksFit
<1> QED BY <1>1, <1>2, <1>3, <1>4, <1>5 DEF Next

LEMMA TypeInductive == Spec => []TypesInv
BY TypeInit, TypeNext, PTL DEF Spec

(* Whatever is typed, the stacks stay in step, below the limit of the      *)
(* stack, and every value is of the member of the union that its symbol is *)
(* declared with: no action reads a member that was not the one written.   *)
THEOREM ParserTypeOK == Spec => []TypeOK
<1>1. TypesInv => TypeOK
  <2> SUFFICES ASSUME TypesInv PROVE TypeOK
    OBVIOUS
  <2>1. CASE result = Running
    <3>1. IsPath(yyss) /\ Len(yyss) < YYMAXDEPTH /\ ValuesFit(yyss, yyvs)
      BY <2>1 DEF TypesInv, TypeInv, StacksFit
    <3>2. Len(yyss) \in Nat \ {0} /\ yyss \in Seq(States)
      BY <3>1, PathStates DEF IsPath
    <3>3. yyss # <<>>
      BY <3>2
    <3>4. PICK S : yyvs \in Seq(S)
      BY <3>1 DEF ValuesFit
    <3>5. DOMAIN yyvs = 1 .. Len(yyvs)
      BY <3>4, LenProperties
    <3>6. ASSUME NEW i \in DOMAIN yyvs
          PROVE  yyvs[i].node = TypeOfSymbol(At(yytname, At(yystos, yyss[i + 1])))
      BY <3>1, <3>5 DEF ValuesFit, IsNode, Sym
    <3>7. Len(yyvs) = Len(yyss) - 1
      BY <3>1 DEF ValuesFit
    <3> QED BY <3>1, <3>3, <3>6, <3>7 DEF TypeOK, TypesInv, TypeInv
  <2>2. CASE result # Running
    <3>1. yyss = <<>> /\ yyvs = <<>>
      BY <2>2 DEF TypesInv, TypeInv, StacksFit
    <3>2. Len(yyss) < YYMAXDEPTH
      BY <3>1, ParserAssumption
    <3>3. DOMAIN yyvs = {} /\ Len(yyvs) = 0
      BY <3>1
    <3> QED BY <3>1, <3>2, <3>3 DEF TypeOK, TypesInv, TypeInv
  <2> QED BY <2>1, <2>2
<1> QED BY <1>1, TypeInductive, PTL

-----------------------------------------------------------------------------
(***************************************************************************)
(* What the grammar lets follow each state of a path.                      *)
(***************************************************************************)

History(p, F) ==
  /\ F \in [1 .. Len(p) -> SUBSET Forms]
  /\ F[1] = Sentence /\ (Len(p) # 1 => F[2] = Sentence)
  /\ \A i \in 2 .. Len(p) - 1 : Reaches(F[i], Sym(p[i + 1]), F[i + 1])

(* Some sentence goes on with what is left of each item of S.              *)
Live(G, S) ==
  \A r, k : <<r, k>> \in S /\ OfQuery(r, k) =>
               \E a \in Forms : Leads(G, Rest(r, k) \o a)

LEMMA TwoSymbols ==
  ASSUME NEW X, NEW Y
  PROVE  <<Y>> \o <<>> = <<Y>> /\ <<X>> \o <<Y>> = <<X, Y>>
<1>1. <<X>> \in Seq({X, Y}) /\ <<Y>> \in Seq({X, Y}) /\ <<X, Y>> \in Seq({X, Y})
      /\ Len(<<X>>) = 1 /\ Len(<<Y>>) = 1 /\ Len(<<X, Y>>) = 2
      /\ <<X>>[1] = X /\ <<Y>>[1] = Y /\ <<X, Y>>[1] = X /\ <<X, Y>>[2] = Y
  OBVIOUS
<1> DEFINE f == <<X>> \o <<Y>>
           e == <<X, Y>>
<1>2. /\ f \in Seq({X, Y}) /\ Len(f) = 2
      /\ \A i \in 1 .. 2 : f[i] = IF i <= 1 THEN <<X>>[i] ELSE <<Y>>[i - 1]
  BY <1>1, ConcatProperties
<1> HIDE DEF f
<1>3. f[1] = X /\ f[2] = Y
  BY <1>1, <1>2
<1>4. e \in Seq({X, Y}) /\ Len(e) = 2 /\ e[1] = X /\ e[2] = Y
  BY <1>1
<1> HIDE DEF e
<1>5. \A i \in 1 .. Len(f) : f[i] = e[i]
  <2>1. \A i \in 1 .. 2 : i = 1 \/ i = 2
    OBVIOUS
  <2> QED BY ONLY <1>2, <1>3, <1>4, <2>1
<1>6. f = e
  BY <1>2, <1>4, <1>5, SeqEqual
<1> QED BY <1>1, <1>6, ConcatEmptySeq DEF f, e

LEMMA RestOfInput ==
  /\ OfQuery(3, 1) /\ OfQuery(3, 2) /\ OfQuery(3, 3) /\ Len(rhs(3)) = 3
  /\ rhs(3)[2] = "query" /\ rhs(3)[3] = "SEMICOLON"
  /\ Rest(3, 1) = <<"query", "SEMICOLON">> /\ Rest(3, 2) = <<"SEMICOLON">>
  /\ "query" \in Parts /\ "query" \in Symbols /\ "SEMICOLON" \in Tokens
<1>1. rhs(3) = <<"input", "query", "SEMICOLON">>
  BY Input DEF InputFits
<1>2. Len(rhs(3)) = 3 /\ rhs(3)[2] = "query" /\ rhs(3)[3] = "SEMICOLON"
  BY <1>1
<1>3. OfQuery(3, 1) /\ OfQuery(3, 2) /\ OfQuery(3, 3)
  BY <1>2 DEF OfQuery
<1>4. Rest(3, 1) = <<"query", "SEMICOLON">> /\ Rest(3, 2) = <<"SEMICOLON">>
  <2>1. PICK r : r = 3
    OBVIOUS
  <2>2. OfQuery(r, Len(rhs(r))) /\ OfQuery(r, 1) /\ OfQuery(r, 2) /\ Len(rhs(r)) = 3
    BY ONLY <1>2, <1>3, <2>1
  <2>3. Rest(r, Len(rhs(r))) = <<>>
    BY <2>2, RestEnd
  <2>4. \A k : OfQuery(r, k) /\ k < Len(rhs(r)) =>
                Rest(r, k) = <<rhs(r)[k + 1]>> \o Rest(r, k + 1)
    BY RestStep
  <2>5. 1 < Len(rhs(r)) /\ 2 < Len(rhs(r))
    BY ONLY <2>2
  <2>6. Rest(3, 3) = <<>> /\ Rest(3, 2) = <<"SEMICOLON">> \o Rest(3, 3)
        /\ Rest(3, 1) = <<"query">> \o Rest(3, 2)
    <3>1. 1 + 1 = 2 /\ 2 + 1 = 3
      OBVIOUS
    <3>2. Rest(r, 1) = <<rhs(r)[1 + 1]>> \o Rest(r, 1 + 1)
          /\ Rest(r, 2) = <<rhs(r)[2 + 1]>> \o Rest(r, 2 + 1)
      BY ONLY <2>2, <2>4, <2>5
    <3> QED BY ONLY <1>2, <2>1, <2>2, <2>3, <3>1, <3>2
  <2>7. <<"SEMICOLON">> \o <<>> = <<"SEMICOLON">>
        /\ <<"query">> \o <<"SEMICOLON">> = <<"query", "SEMICOLON">>
    BY TwoSymbols
  <2> QED BY ONLY <2>6, <2>7
<1>5. "query" \in Parts /\ "query" \in Symbols /\ "SEMICOLON" \in Tokens
  BY Input DEF InputFits, Symbols
<1> QED BY <1>2, <1>3, <1>4, <1>5

LEMMA ItemOfQuery ==
  ASSUME NEW s \in States, s # 0, NEW r, NEW k, <<r, k>> \in Items[s], r # 1
  PROVE  OfQuery(r, k)
<1>1. r \in 1 .. 54 /\ k \in Nat /\ Len(rhs(r)) \in Nat /\ k <= Len(rhs(r))
  BY ItemFacts
<1>2. CASE r \in 4 .. 54
  BY <1>1, <1>2 DEF OfQuery
<1>3. CASE r \in {2, 3}
  <2>1. k > 0
    BY <1>3, InputItems
  <2>2. r # 2
    BY <1>1, <2>1, InputRules
  <2> QED BY <1>1, <1>3, <2>1, <2>2 DEF OfQuery
<1> QED BY <1>1, <1>2, <1>3

LEMMA NotTheEnd ==
  ASSUME NEW r, NEW k, OfQuery(r, k)
  PROVE  r # 1
<1>1. r \in 4 .. 54 \/ r = 3
  BY DEF OfQuery
<1> QED BY ONLY <1>1

LEMMA EndItem ==
  ASSUME NEW s \in States, s # 0, NEW k, <<1, k>> \in Items[s], k < Len(rhs(1))
  PROVE  rhs(1)[k + 1] = "$end" /\ rhs(1)[k + 1] \notin Nonterminals
<1>1. k > 0 /\ k \in Nat
  <2>1. PICK r \in {1, 2, 3} : r = 1
    OBVIOUS
  <2> QED BY <2>1, InputItems, ItemFacts
<1>2. rhs(1) = <<"input", "$end">>
  BY Input DEF InputFits
<1>3. Len(rhs(1)) = 2 /\ rhs(1)[2] = "$end"
  BY <1>2
<1>4. k = 1
  <2>1. k < 2
    BY ONLY <1>3, k < Len(rhs(1))
  <2> QED BY ONLY <1>1, <2>1
<1>5. "$end" \in Tokens /\ Nonterminals \cap Tokens = {}
  BY Begin, Input DEF InputFits, PartsBegin
<1> QED BY <1>3, <1>4, <1>5

LEMMA LiveOpening ==
  ASSUME NEW G, NEW s \in States, s # 0, NEW S \in SUBSET Items[s], Live(G, S)
  PROVE  Live(G, Opening(S))
<1> SUFFICES ASSUME NEW q, NEW m, <<q, m>> \in Opening(S), OfQuery(q, m), <<q, m>> \notin S
             PROVE  \E a \in Forms : Leads(G, Rest(q, m) \o a)
  BY DEF Live
<1>1. PICK X \in NextOf(S) \cap Nonterminals : <<q, m>> \in {<<r, 0>> : r \in RulesOf(X)}
  BY DEF Opening
<1>2. m = 0 /\ q \in RulesOf(X)
  BY <1>1
<1>3. PICK i \in S : i[2] < Len(rhs(i[1])) /\ X = rhs(i[1])[i[2] + 1]
  BY DEF NextOf
<1>4. i \in RuleNumbers \X Nat
  BY Certified DEF ItemsFit
<1>5. PICK r, k : i = <<r, k>> /\ r = i[1] /\ k = i[2] /\ k \in Nat
  BY <1>4
<1>6. <<r, k>> \in Items[s] /\ <<r, k>> \in S /\ k < Len(rhs(r)) /\ X = rhs(r)[k + 1]
  BY <1>3, <1>5
<1>7. r # 1
  BY <1>6, EndItem
<1>8. OfQuery(r, k)
  BY <1>6, <1>7, ItemOfQuery
<1>9. PICK a \in Forms : Leads(G, Rest(r, k) \o a)
  BY <1>6, <1>8 DEF Live
<1>10. PICK u \in Forms : u = Rest(r, k + 1) /\ Rest(r, k) = <<X>> \o u /\ X \in Symbols
  BY <1>6, <1>8, RestStep
<1>11. Leads(G, <<X>> \o (u \o a)) /\ u \o a \in Forms
  <2>1. (<<X>> \o u) \o a = <<X>> \o (u \o a)
    BY <1>10, SingleForm, Assoc
  <2>2. u \o a \in Forms
    BY ConcatForms
  <2> QED BY ONLY <1>9, <1>10, <2>1, <2>2
<1>12. q \in 4 .. 54
  BY <1>2, RestAll DEF OfQuery
<1>13. X \in Parts
  BY <1>1, <1>10, PartsAndTokens
<1>14. PICK e \in Forms : e = u \o a
  BY <1>11
<1>15. Leads(G, rhs(q) \o e)
  <2>1. Leads(G, <<X>> \o e)
    BY ONLY <1>11, <1>14
  <2> QED BY <1>2, <1>13, <2>1, LeadsRule
<1>16. Rest(q, m) = rhs(q)
  BY <1>2, <1>12, RestAll
<1> QED BY <1>15, <1>16

LEMMA LiveItems ==
  ASSUME NEW G, NEW s \in States, s # 0, Live(G, At(Kernels, s))
  PROVE  Live(G, Items[s])
<1> DEFINE K == At(Kernels, s)
<1>1. Items[s] = Opening(Opening(Opening(K)))
  BY DEF Items
<1>2. \A S : S \subseteq Opening(S)
  BY DEF Opening
<1> HIDE DEF K
<1>3. /\ K \in SUBSET Items[s] /\ Opening(K) \in SUBSET Items[s]
      /\ Opening(Opening(K)) \in SUBSET Items[s]
  <2>1. K \subseteq Opening(K) /\ Opening(K) \subseteq Opening(Opening(K))
        /\ Opening(Opening(K)) \subseteq Opening(Opening(Opening(K)))
    BY <1>2
  <2> QED BY <1>1, <2>1
<1>4. Live(G, Opening(K))
  BY <1>3, LiveOpening DEF K
<1>5. Live(G, Opening(Opening(K)))
  BY <1>3, <1>4, LiveOpening
<1>6. Live(G, Opening(Opening(Opening(K))))
  BY <1>3, <1>5, LiveOpening
<1> QED BY <1>1, <1>6

LEMMA LiveTrans ==
  ASSUME NEW s \in States, s # 0, NEW X \in NextOf(Items[s]), NEW G, NEW H,
         Live(G, Items[s]), Reaches(G, X, H)
  PROVE  Live(H, Items[Trans(s, X)])
<1>1. Trans(s, X) \in States /\ Trans(s, X) # 0
  BY TransKernel
<1>2. ASSUME NEW r, NEW k, <<r, k>> \in At(Kernels, Trans(s, X)), OfQuery(r, k)
      PROVE  \E a \in Forms : Leads(H, Rest(r, k) \o a)
  <2>1. /\ k \in Nat /\ k > 0 /\ <<r, k - 1>> \in Items[s]
        /\ k - 1 < Len(rhs(r)) /\ rhs(r)[k] = X
    BY <1>2, TransKernel
  <2>2. r # 1
    BY <1>2, NotTheEnd
  <2>3. OfQuery(r, k - 1)
    BY <2>1, <2>2, ItemOfQuery
  <2>4. PICK a \in Forms : Leads(G, Rest(r, k - 1) \o a)
    BY <2>1, <2>3 DEF Live
  <2>5. k - 1 + 1 = k
    BY <2>1
  <2>6. PICK u \in Forms : u = Rest(r, k) /\ Rest(r, k - 1) = <<X>> \o u /\ X \in Symbols
    <3>1. /\ rhs(r)[k - 1 + 1] \in Symbols /\ Rest(r, k - 1 + 1) \in Forms
          /\ Rest(r, k - 1) = <<rhs(r)[k - 1 + 1]>> \o Rest(r, k - 1 + 1)
      BY <2>1, <2>3, RestStep
    <3> QED BY ONLY <2>1, <2>5, <3>1
  <2>7. Leads(G, <<X>> \o (u \o a)) /\ u \o a \in Forms
    <3>1. (<<X>> \o u) \o a = <<X>> \o (u \o a)
      BY <2>6, SingleForm, Assoc
    <3>2. u \o a \in Forms
      BY ConcatForms
    <3> QED BY ONLY <2>4, <2>6, <3>1, <3>2
  <2>8. PICK e \in Forms : e = u \o a
    BY <2>7
  <2>9. Leads(H, e)
    <3>1. Leads(G, <<X>> \o e)
      BY ONLY <2>7, <2>8
    <3> QED BY <3>1 DEF Reaches
  <2> QED BY ONLY <2>6, <2>8, <2>9, a \in Forms
<1>3. Live(H, At(Kernels, Trans(s, X)))
  BY <1>2 DEF Live
<1> QED BY <1>1, <1>3, LiveItems

LEMMA LiveStart == Live(Sentence, Items[1])
<1>1. 1 \in States /\ At(Kernels, 1) = {<<1, 1>>, <<3, 1>>}
  BY Input DEF InputFits, States
<1>2. ASSUME NEW r, NEW k, <<r, k>> \in At(Kernels, 1), OfQuery(r, k)
      PROVE  \E a \in Forms : Leads(Sentence, Rest(r, k) \o a)
  <2>1. r = 3 /\ k = 1
    <3>1. <<r, k>> = <<1, 1>> \/ <<r, k>> = <<3, 1>>
      BY ONLY <1>1, <1>2
    <3>2. r # 1
      BY <1>2, NotTheEnd
    <3> QED BY ONLY <3>1, <3>2
  <2>2. Rest(3, 1) \in Sentence /\ Rest(3, 1) \in Forms
    BY RestOfInput, RestForm DEF Sentence
  <2>3. Rest(3, 1) \o <<>> = Rest(3, 1) /\ <<>> \in Forms
    BY <2>2, ConcatForms
  <2>4. Leads(Sentence, Rest(3, 1))
    BY <2>2, LeadsMember
  <2>5. Leads(Sentence, Rest(r, k) \o <<>>)
    BY ONLY <2>1, <2>3, <2>4
  <2> QED BY <2>3, <2>5
<1>3. Live(Sentence, At(Kernels, 1))
  BY <1>2 DEF Live
<1> QED BY <1>1, <1>3, LiveItems

LEMMA HistoryLive ==
  ASSUME NEW p, IsPath(p), NEW F, History(p, F), NEW i \in 2 .. Len(p)
  PROVE  Live(F[i], Items[p[i]])
<1>1. Len(p) \in Nat \ {0}
  BY PathStates
<1> DEFINE N == {j \in 2 .. Len(p) : ~ Live(F[j], Items[p[j]])}
<1>2. N = {}
  <2> SUFFICES ASSUME N # {} PROVE FALSE
    OBVIOUS
  <2>1. PICK j \in N : \A y \in N : j <= y
    <3>1. N \in SUBSET Nat
      BY <1>1
    <3> HIDE DEF N
    <3> QED BY <3>1, Least
  <2>2. j # 2
    <3>1. Len(p) # 1
      <4>1. PICK l \in Nat : l = Len(p)
        BY <1>1
      <4>2. i \in 2 .. l
        BY ONLY <4>1, i \in 2 .. Len(p)
      <4> QED BY ONLY <4>1, <4>2, l \in Nat
    <3>2. F[2] = Sentence /\ p[2] = 1
      BY <3>1, PathStates DEF History
    <3> QED BY <2>1, <3>2, LiveStart
  <2>3. PICK l \in Nat : l = Len(p)
    BY <1>1
  <2>4. j \in 2 .. l
    BY <2>1, <2>3
  <2>5. PICK m \in Nat : m = j - 1 /\ m + 1 = j /\ m \in 2 .. l - 1 /\ m \in 2 .. l /\ m \in 1 .. l /\ m # 1
                      /\ m \in 1 .. l - 1 /\ ~ (j <= m)
    BY ONLY <2>2, <2>4, l \in Nat
  <2>6. m \notin N
    BY <2>1, <2>5
  <2>7. Live(F[m], Items[p[m]])
    BY <2>3, <2>5, <2>6
  <2>8. p[m] \in States /\ p[m] # 0
    BY <2>3, <2>5, PathStates
  <2>9. Sym(p[j]) \in NextOf(Items[p[m]]) /\ p[j] = Trans(p[m], Sym(p[j]))
    BY <2>3, <2>5 DEF IsPath
  <2>10. Reaches(F[m], Sym(p[j]), F[j])
    BY <2>3, <2>5 DEF History
  <2>11. Live(F[j], Items[p[j]])
    BY <2>7, <2>8, <2>9, <2>10, LiveTrans
  <2> QED BY <2>1, <2>11
<1> QED BY <1>2

(* Something may always follow.                                            *)
LEMMA HistorySome ==
  ASSUME NEW p, IsPath(p), NEW F, History(p, F)
  PROVE  F[Len(p)] # {}
<1>1. Len(p) \in Nat \ {0} /\ Top(p) \in States \ {YYFINAL}
  BY PathStates
<1>2. CASE Len(p) = 1
  BY <1>2 DEF History, Sentence
<1>3. CASE Len(p) # 1
  <2>1. Top(p) # 0
    BY <1>3, TopState
  <2>2. PICK i \in At(Kernels, Top(p)) : i[1] # 1
    BY <1>1, <2>1, Input DEF InputFits
  <2>3. i \in Items[Top(p)]
    BY <1>1, KernelItems
  <2>4. PICK r, k : i = <<r, k>> /\ r # 1
    <3>1. i \in RuleNumbers \X Nat
      BY <1>1, <2>3, Certified DEF ItemsFit
    <3> QED BY <2>2, <3>1
  <2>5. OfQuery(r, k)
    BY <1>1, <2>1, <2>3, <2>4, ItemOfQuery
  <2>6. Live(F[Len(p)], Items[Top(p)])
    <3>1. Len(p) \in 2 .. Len(p)
      <4>1. PICK l \in Nat \ {0} : l = Len(p)
        BY <1>1
      <4>2. l # 1
        BY ONLY <1>3, <4>1
      <4>3. l \in 2 .. l
        BY ONLY <4>2, l \in Nat \ {0}
      <4> QED BY ONLY <4>1, <4>3
    <3> QED BY <3>1, HistoryLive DEF Top
  <2>7. PICK a \in Forms : Leads(F[Len(p)], Rest(r, k) \o a)
    BY <2>3, <2>4, <2>5, <2>6 DEF Live
  <2>8. Rest(r, k) \o a \in Forms
    BY <2>5, RestForm, ConcatForms
  <2> QED BY <2>7, <2>8, LeadsSome
<1> QED BY <1>2, <1>3

LEMMA HistoryAppend ==
  ASSUME NEW p, IsPath(p), NEW F, History(p, F), NEW X \in NextOf(Items[Top(p)]),
         Trans(Top(p), X) # YYFINAL, NEW H \in SUBSET Forms,
         IF Len(p) = 1 THEN H = Sentence ELSE Reaches(F[Len(p)], X, H)
  PROVE  \E G : /\ History(Append(p, Trans(Top(p), X)), G)
                /\ G[Len(Append(p, Trans(Top(p), X)))] = H
<1> DEFINE s == Trans(Top(p), X)
           q == Append(p, s)
<1>1. Top(p) \in States /\ Len(p) \in Nat \ {0}
  BY PathStates
<1>2. Sym(s) = X
  BY <1>1, TransKernel
<1>3. Len(q) = Len(p) + 1 /\ Top(q) = s /\ \A i \in 1 .. Len(p) : q[i] = p[i]
  BY PathAppend
<1> HIDE DEF s, q
<1>4. PICK l \in Nat \ {0} : l = Len(p)
  BY <1>1
<1>5. Len(q) = l + 1 /\ q[l + 1] = s /\ \A i \in 1 .. l : q[i] = p[i]
  BY ONLY <1>3, <1>4 DEF Top
<1> DEFINE G == [i \in 1 .. l + 1 |-> IF i = l + 1 THEN H ELSE F[i]]
<1>6. /\ F \in [1 .. l -> SUBSET Forms] /\ F[1] = Sentence /\ (l # 1 => F[2] = Sentence)
      /\ \A i \in 2 .. l - 1 : Reaches(F[i], Sym(p[i + 1]), F[i + 1])
  BY <1>4 DEF History
<1>7. G \in [1 .. l + 1 -> SUBSET Forms]
  <2>1. ASSUME NEW i \in 1 .. l + 1 PROVE (IF i = l + 1 THEN H ELSE F[i]) \in SUBSET Forms
    <3>1. CASE i = l + 1
      BY <3>1
    <3>2. CASE i # l + 1
      <4>1. i \in 1 .. l
        BY ONLY <3>2, i \in 1 .. l + 1, l \in Nat \ {0}
      <4> QED BY <1>6, <3>2, <4>1
    <3> QED BY <3>1, <3>2
  <2> QED BY <2>1
<1>8. /\ l + 1 # 1 /\ 1 \in 1 .. l + 1 /\ 1 # l + 1 /\ l + 1 \in 1 .. l + 1 /\ 2 \in 1 .. l + 1
      /\ l # 1 => 2 # l + 1
      /\ l + 1 - 1 = l
      /\ \A i \in 2 .. l : i \in 1 .. l + 1 /\ i + 1 \in 1 .. l + 1 /\ i \in 1 .. l /\ i # l + 1
      /\ \A i \in 2 .. l : i # l => /\ i \in 2 .. l - 1 /\ i + 1 # l + 1 /\ i + 1 \in 1 .. l
  BY ONLY l \in Nat \ {0}
<1>9. /\ G[l + 1] = H /\ \A i \in 1 .. l + 1 : i # l + 1 => G[i] = F[i]
  BY ONLY <1>8
<1> HIDE DEF G
<1>10. G[1] = Sentence
  BY ONLY <1>6, <1>8, <1>9
<1>11. G[2] = Sentence
  <2>1. CASE l = 1
    <3>1. H = Sentence
      BY <1>4, <2>1
    <3>2. 2 = l + 1
      BY ONLY <2>1
    <3> QED BY ONLY <1>9, <3>1, <3>2
  <2>2. CASE l # 1
    BY ONLY <1>6, <1>8, <1>9, <2>2
  <2> QED BY ONLY <2>1, <2>2
<1>12. ASSUME NEW i \in 2 .. l PROVE Reaches(G[i], Sym(q[i + 1]), G[i + 1])
  <2>1. CASE i = l
    <3>1. l # 1
      BY ONLY <2>1, i \in 2 .. l
    <3>2. Reaches(F[l], X, H)
      BY <1>4, <3>1
    <3>3. G[i] = F[l] /\ G[i + 1] = H /\ q[i + 1] = s
      BY ONLY <1>5, <1>8, <1>9, <2>1, i \in 2 .. l
    <3> QED BY <1>2, <3>2, <3>3
  <2>2. CASE i # l
    <3>1. Reaches(F[i], Sym(p[i + 1]), F[i + 1])
      BY ONLY <1>6, <1>8, <2>2, i \in 2 .. l
    <3>2. G[i] = F[i] /\ G[i + 1] = F[i + 1] /\ q[i + 1] = p[i + 1]
      BY ONLY <1>5, <1>8, <1>9, <2>2, i \in 2 .. l
    <3> QED BY ONLY <3>1, <3>2
  <2> QED BY ONLY <2>1, <2>2
<1>13. History(q, G)
  <2>1. Len(q) - 1 = l
    BY ONLY <1>5, <1>8
  <2> QED BY ONLY <1>5, <1>7, <1>10, <1>11, <1>12, <2>1 DEF History
<1>14. G[Len(q)] = H
  BY ONLY <1>5, <1>9
<1> QED BY <1>13, <1>14 DEF q, s

LEMMA HistoryPrefix ==
  ASSUME NEW p, IsPath(p), NEW F, History(p, F), NEW n \in 1 .. Len(p)
  PROVE  History(SubSeq(p, 1, n), [i \in 1 .. n |-> F[i]])
<1> DEFINE q == SubSeq(p, 1, n)
           G == [i \in 1 .. n |-> F[i]]
<1>1. Len(q) = n /\ \A i \in 1 .. n : q[i] = p[i]
  BY PathPrefix
<1>2. PICK l \in Nat \ {0} : l = Len(p)
  BY PathStates
<1>3. n \in 1 .. l
  BY ONLY <1>2, n \in 1 .. Len(p)
<1>4. /\ F \in [1 .. l -> SUBSET Forms] /\ F[1] = Sentence /\ (l # 1 => F[2] = Sentence)
      /\ \A i \in 2 .. l - 1 : Reaches(F[i], Sym(p[i + 1]), F[i + 1])
  BY <1>2 DEF History
<1>5. /\ \A i \in 1 .. n : i \in 1 .. l
      /\ 1 \in 1 .. n /\ (n # 1 => 2 \in 1 .. n /\ l # 1)
      /\ \A i \in 2 .. n - 1 : i \in 2 .. l - 1 /\ i \in 1 .. n /\ i + 1 \in 1 .. n
  BY ONLY <1>3, l \in Nat \ {0}
<1>6. \A i \in 1 .. n : F[i] \in SUBSET Forms
  BY ONLY <1>4, <1>5
<1>7. G \in [1 .. n -> SUBSET Forms] /\ \A i \in 1 .. n : G[i] = F[i]
  BY ONLY <1>6
<1> HIDE DEF q, G
<1>8. G[1] = Sentence /\ (n # 1 => G[2] = Sentence)
  BY ONLY <1>4, <1>5, <1>7
<1>9. ASSUME NEW i \in 2 .. n - 1 PROVE Reaches(G[i], Sym(q[i + 1]), G[i + 1])
  <2>1. G[i] = F[i] /\ G[i + 1] = F[i + 1] /\ q[i + 1] = p[i + 1]
        /\ Reaches(F[i], Sym(p[i + 1]), F[i + 1])
    BY ONLY <1>1, <1>4, <1>5, <1>7, i \in 2 .. n - 1
  <2> QED BY ONLY <2>1
<1>10. History(q, G)
  BY ONLY <1>1, <1>7, <1>8, <1>9 DEF History
<1> QED BY <1>10 DEF q, G

(* A complete item: what may follow its left-hand side may follow here.    *)
LEMMA HistoryReduce ==
  ASSUME NEW p, IsPath(p), NEW F, History(p, F), NEW r \in 4 .. 54,
         <<r, Len(rhs(r))>> \in Items[Top(p)], NEW b, b = Below(p, Len(rhs(r))),
         b \in 1 .. Len(p), b # 1
  PROVE  Reaches(F[b], lhs(r), F[Len(p)])
<1> DEFINE n == Len(rhs(r))
           G == [i \in 0 .. n |-> F[b + i]]
<1>1. PICK l \in Nat \ {0} : l = Len(p)
  BY PathStates
<1>2. n \in Nat
  BY RestAll, RightHandSide
<1> HIDE DEF n
<1>3. b = l - n /\ b \in 1 .. l
  BY <1>1 DEF Below, n
<1>4. \A j \in 1 .. n : rhs(r)[j] = Sym(p[b + j])
  <2>1. <<r, n>> \in Items[Top(p)] /\ b = Below(p, n)
    BY DEF n
  <2>2. \A j \in 1 .. n : rhs(r)[j] = Sym(p[Below(p, n) + j])
    BY <2>1, PathSymbols
  <2> QED BY ONLY <2>1, <2>2
<1>5. \A i \in 2 .. l - 1 : Reaches(F[i], Sym(p[i + 1]), F[i + 1])
  BY <1>1 DEF History
<1>6. \A i \in 1 .. n : /\ i \in 0 .. n /\ i - 1 \in 0 .. n /\ b + (i - 1) \in 2 .. l - 1
                        /\ b + (i - 1) + 1 = b + i
  BY ONLY <1>2, <1>3, b # 1, l \in Nat \ {0}
<1>7. \A i \in 0 .. n : G[i] = F[b + i]
  OBVIOUS
<1>8. ASSUME NEW i \in 1 .. n PROVE Reaches(G[i - 1], rhs(r)[i], G[i])
  <2>1. Reaches(F[b + (i - 1)], Sym(p[b + i]), F[b + i])
    BY ONLY <1>5, <1>6, i \in 1 .. n
  <2>2. G[i - 1] = F[b + (i - 1)] /\ G[i] = F[b + i] /\ rhs(r)[i] = Sym(p[b + i])
    BY ONLY <1>4, <1>6, <1>7, i \in 1 .. n
  <2> QED BY ONLY <2>1, <2>2
<1>9. G[0] = F[b] /\ G[n] = F[l]
  <2>1. 0 \in 0 .. n /\ n \in 0 .. n /\ b + 0 = b /\ b + n = l
    BY ONLY <1>2, <1>3, l \in Nat \ {0}
  <2>2. G[0] = F[b + 0] /\ G[n] = F[b + n]
    BY ONLY <1>7, <2>1
  <2> QED BY ONLY <2>1, <2>2
<1> HIDE DEF G
<1>10. Reaches(G[0], lhs(r), G[n])
  BY <1>8, ReachesRule DEF n
<1> QED BY ONLY <1>1, <1>9, <1>10

-----------------------------------------------------------------------------
(***************************************************************************)
(* What may follow a path, the other way round: a form that is behind a    *)
(* symbol comes from the rules the path has begun.                         *)
(***************************************************************************)

Contexts == Seq(States) \X Symbols \X Forms

(* The rule r has begun k symbols before the end of the path, where R puts *)
(* c behind its left-hand side.                                            *)
Goes(R, p, r, k, c) ==
  /\ IsPath(p) /\ Len(p) # 1 /\ <<r, k>> \in Items[Top(p)] /\ OfQuery(r, k) /\ c \in Forms
  /\ IF r = 3 THEN c = <<>> ELSE <<SubSeq(p, 1, Len(p) - k), lhs(r), c>> \in R

Closed(R) ==
  \A p, r, k, c : Goes(R, p, r, k, c) /\ k < Len(rhs(r)) =>
                     <<p, rhs(r)[k + 1], Rest(r, k + 1) \o c>> \in R

Behind == {x \in Contexts : \A R \in SUBSET Contexts : Closed(R) => x \in R}

LEMMA GoesMore ==
  ASSUME NEW R, NEW Q, R \subseteq Q, NEW p, NEW r, NEW k, NEW c, Goes(R, p, r, k, c)
  PROVE  Goes(Q, p, r, k, c)
BY DEF Goes

LEMMA GoesContext ==
  ASSUME NEW R, NEW p, NEW r, NEW k, NEW c, Goes(R, p, r, k, c), k < Len(rhs(r))
  PROVE  /\ <<p, rhs(r)[k + 1], Rest(r, k + 1) \o c>> \in Contexts
         /\ rhs(r)[k + 1] \in Symbols /\ Rest(r, k + 1) \in Forms
         /\ OfQuery(r, k + 1) /\ c \in Forms /\ Rest(r, k + 1) \o c \in Forms
<1>1. p \in Seq(States) /\ OfQuery(r, k) /\ c \in Forms
  BY DEF Goes, IsPath
<1>2. rhs(r)[k + 1] \in Symbols /\ Rest(r, k + 1) \in Forms /\ OfQuery(r, k + 1)
  BY <1>1, RestStep
<1>3. Rest(r, k + 1) \o c \in Forms
  BY <1>1, <1>2, ConcatForms
<1> QED BY <1>1, <1>2, <1>3 DEF Contexts

LEMMA BehindMinimal ==
  ASSUME NEW R \in SUBSET Contexts, Closed(R)
  PROVE  Behind \subseteq R
BY DEF Behind

LEMMA BehindClosed == Closed(Behind)
<1> SUFFICES ASSUME NEW p, NEW r, NEW k, NEW c, Goes(Behind, p, r, k, c), k < Len(rhs(r))
             PROVE  <<p, rhs(r)[k + 1], Rest(r, k + 1) \o c>> \in Behind
  BY DEF Closed
<1>1. ASSUME NEW R \in SUBSET Contexts, Closed(R)
      PROVE  <<p, rhs(r)[k + 1], Rest(r, k + 1) \o c>> \in R
  <2>1. Goes(R, p, r, k, c)
    BY <1>1, BehindMinimal, GoesMore
  <2> QED BY <1>1, <2>1 DEF Closed
<1>2. <<p, rhs(r)[k + 1], Rest(r, k + 1) \o c>> \in Contexts
  BY GoesContext
<1> QED BY <1>1, <1>2 DEF Behind

(* A rule puts it there.                                                   *)
PutThere(p, X, c) ==
  \E r, k, e : /\ Goes(Behind, p, r, k, e) /\ k < Len(rhs(r))
               /\ X = rhs(r)[k + 1] /\ c = Rest(r, k + 1) \o e

LEMMA BehindInversion ==
  ASSUME NEW p, NEW X, NEW c, <<p, X, c>> \in Behind
  PROVE  PutThere(p, X, c)
<1> DEFINE Put(x) == \E r, k, e : /\ Goes(Behind, x[1], r, k, e) /\ k < Len(rhs(r))
                                  /\ x[2] = rhs(r)[k + 1] /\ x[3] = Rest(r, k + 1) \o e
           R == {x \in Behind : Put(x)}
<1>1. R \in SUBSET Contexts /\ R \subseteq Behind
  BY DEF Behind
<1>2. ASSUME NEW q, NEW r, NEW k, NEW e, Goes(R, q, r, k, e), k < Len(rhs(r))
      PROVE  <<q, rhs(r)[k + 1], Rest(r, k + 1) \o e>> \in R
  <2>1. Goes(Behind, q, r, k, e)
    <3> HIDE DEF R
    <3> QED BY <1>1, <1>2, GoesMore
  <2> DEFINE x == <<q, rhs(r)[k + 1], Rest(r, k + 1) \o e>>
  <2>2. x \in Behind
    BY <1>2, <2>1, BehindClosed DEF Closed
  <2>3. x[1] = q /\ x[2] = rhs(r)[k + 1] /\ x[3] = Rest(r, k + 1) \o e
    OBVIOUS
  <2> HIDE DEF x
  <2>4. Put(x)
    BY <1>2, <2>1, <2>3
  <2>5. x \in R
    BY <2>2, <2>4
  <2> QED BY <2>5 DEF x
<1>3. Closed(R)
  <2> HIDE DEF R
  <2> QED BY <1>2 DEF Closed
<1>4. <<p, X, c>> \in R
  <2> HIDE DEF R
  <2> QED BY <1>1, <1>3, BehindMinimal
<1> DEFINE x == <<p, X, c>>
<1>5. x[1] = p /\ x[2] = X /\ x[3] = c /\ Put(x)
  BY <1>4
<1> HIDE DEF x
<1> QED BY <1>5 DEF PutThere

(* What is behind a part begins with a token of its follow set.            *)
LEMMA BehindFollow ==
  ASSUME NEW p, NEW X \in Parts, NEW c, <<p, X, c>> \in Behind, NEW g \in Opened({c})
  PROVE  g # <<>> /\ Head(g) \in FollowOf[X]
<1> DEFINE Fits(x) == x[2] \in Parts => \A h \in Opened({x[3]}) : h # <<>> /\ Head(h) \in FollowOf[x[2]]
           R == {x \in Contexts : Fits(x)}
<1>1. R \in SUBSET Contexts
  OBVIOUS
<1>2. ASSUME NEW q, NEW r, NEW k, NEW e, Goes(R, q, r, k, e), k < Len(rhs(r))
      PROVE  <<q, rhs(r)[k + 1], Rest(r, k + 1) \o e>> \in R
  <2> DEFINE Y == rhs(r)[k + 1]
             d == Rest(r, k + 1) \o e
             x == <<q, Y, d>>
  <2>1. x \in Contexts /\ Y \in Symbols /\ OfQuery(r, k) /\ OfQuery(r, k + 1)
        /\ e \in Forms /\ d \in Forms
    <3> HIDE DEF R
    <3> QED BY <1>2, GoesContext DEF Goes
  <2>2. ASSUME Y \in Parts, NEW h \in Opened({d})
        PROVE  h # <<>> /\ Head(h) \in FollowOf[Y]
    <3>1. CASE r = 3
      <4>1. e = <<>> /\ k \in 1 .. 3 /\ k < 3
        <5>1. e = <<>>
          BY <1>2, <3>1 DEF Goes
        <5>2. k \in 1 .. Len(rhs(r))
          BY <2>1, <3>1 DEF OfQuery
        <5>3. Len(rhs(r)) = 3
          BY <3>1, RestOfInput
        <5> QED BY ONLY <1>2, <5>1, <5>2, <5>3
      <4>2. k = 1
        <5>1. ASSUME k = 2 PROVE FALSE
          <6>1. Y = "SEMICOLON"
            BY <3>1, <5>1, RestOfInput
          <6> QED BY <2>2, <6>1, RestOfInput, PartsAndTokens
        <5> QED BY <4>1, <5>1
      <4>3. Y = "query" /\ Rest(r, k + 1) = <<"SEMICOLON">>
        BY <3>1, <4>2, RestOfInput
      <4>4. d = <<"SEMICOLON">> \o <<>> /\ <<>> \in Forms
        <5>1. <<>> \in Forms
          BY <2>1, <4>1
        <5>2. Rest(r, k + 1) \o e = <<"SEMICOLON">> \o <<>>
          BY ONLY <4>1, <4>3
        <5> QED BY ONLY <5>1, <5>2
      <4>5. Opened({d}) = {d}
        BY <4>4, RestOfInput, OpenedToken
      <4>6. h = <<"SEMICOLON">> \o <<>>
        BY <4>4, <4>5
      <4>7. "SEMICOLON" \in Symbols
        BY RestOfInput DEF Symbols
      <4>8. h # <<>> /\ Head(h) = "SEMICOLON"
        BY <4>4, <4>6, <4>7, FormCons
      <4> QED BY <4>3, <4>8, Certified DEF NoConflict
    <3>2. CASE r # 3
      <4>1. r \in 4 .. 54
        BY <2>1, <3>2 DEF OfQuery
      <4>2. <<SubSeq(q, 1, Len(q) - k), lhs(r), e>> \in R
        BY <1>2, <3>2 DEF Goes
      <4>3. \A f \in Opened({e}) : f # <<>> /\ Head(f) \in FollowOf[lhs(r)]
        <5> DEFINE y == <<SubSeq(q, 1, Len(q) - k), lhs(r), e>>
        <5>1. y[2] = lhs(r) /\ y[3] = e /\ Fits(y)
          BY <4>2
        <5> HIDE DEF y
        <5> QED BY <4>1, <5>1, RuleOfItsPart
      <4>4. PICK m : m = k + 1 /\ m \in 1 .. Len(rhs(r)) /\ m \in Nat
        <5>1. k \in Nat /\ Len(rhs(r)) \in Nat
          BY <2>1, RightHandSide
        <5> QED BY ONLY <1>2, <5>1
      <4>5. (IF m = Len(rhs(r)) THEN FollowOf[lhs(r)] ELSE Firsts(rhs(r)[m + 1]))
              \subseteq FollowOf[Y]
        <5>1. Y = rhs(r)[m] /\ rhs(r)[m] \in Parts
          BY <2>2, <4>4
        <5>2. (IF m = Len(rhs(r)) THEN FollowOf[lhs(r)] ELSE Firsts(rhs(r)[m + 1]))
              \subseteq FollowOf[rhs(r)[m]]
          BY <4>1, <4>4, <5>1, Certified DEF NoConflict
        <5> QED BY ONLY <5>1, <5>2
      <4>6. OfQuery(r, m) /\ d = Rest(r, m) \o e
        BY <2>1, <4>4
      <4>7. CASE m = Len(rhs(r))
        <5>1. Rest(r, m) = <<>>
          BY <4>6, <4>7, RestEnd
        <5>2. d = e
          BY <2>1, <4>6, <5>1, ConcatForms
        <5>3. h # <<>> /\ Head(h) \in FollowOf[lhs(r)]
          BY <2>2, <4>3, <5>2
        <5> QED BY <4>5, <4>7, <5>3
      <4>8. CASE m # Len(rhs(r))
        <5>1. m < Len(rhs(r))
          <6>1. PICK l \in Nat : l = Len(rhs(r))
            BY <2>1, RightHandSide
          <6>2. m < l
            BY ONLY <4>4, <4>8, <6>1
          <6> QED BY ONLY <6>1, <6>2
        <5>2. PICK Z \in Symbols, u \in Forms : Z = rhs(r)[m + 1] /\ Rest(r, m) = <<Z>> \o u
          BY <4>6, <5>1, RestStep
        <5>3. d = <<Z>> \o (u \o e) /\ u \o e \in Forms
          <6>1. (<<Z>> \o u) \o e = <<Z>> \o (u \o e)
            BY <2>1, SingleForm, Assoc
          <6>2. u \o e \in Forms
            BY <2>1, ConcatForms
          <6> QED BY ONLY <4>6, <5>2, <6>1, <6>2
        <5>4. PICK v \in Forms : v = u \o e /\ d = <<Z>> \o v
          BY <5>3
        <5>5. h \in Opened({<<Z>> \o v})
          BY ONLY <2>2, <5>4
        <5>6. h # <<>> /\ Head(h) \in Firsts(Z)
          BY <5>5, OpenedBegins
        <5> QED BY ONLY <4>5, <4>8, <5>2, <5>6
      <4> QED BY <4>7, <4>8
    <3> QED BY <3>1, <3>2
  <2>3. x[2] = Y /\ x[3] = d
    OBVIOUS
  <2> HIDE DEF x, Y, d
  <2>4. Fits(x)
    BY <2>2, <2>3
  <2>5. x \in R
    BY <2>1, <2>4
  <2> QED BY <2>5 DEF x, Y, d
<1>3. Closed(R)
  <2> HIDE DEF R
  <2> QED BY <1>2 DEF Closed
<1>4. <<p, X, c>> \in R
  <2> HIDE DEF R
  <2> QED BY <1>1, <1>3, BehindMinimal
<1> DEFINE z == <<p, X, c>>
<1>5. z[2] = X /\ z[3] = c /\ Fits(z)
  BY <1>4
<1> HIDE DEF z
<1> QED BY <1>5

(* A form that the rules begun on the path explain; one that begins with   *)
(* the symbol X that a rule expects; one that a token expected begins; and *)
(* one that follows a rule that is complete.                               *)
Explained(p, g) ==
  \E r, k, c : Goes(Behind, p, r, k, c) /\ g \in Opened({Rest(r, k) \o c})

Comes(p, g, X) ==
  \E r, k, c : /\ Goes(Behind, p, r, k, c) /\ k < Len(rhs(r)) /\ X = rhs(r)[k + 1]
               /\ g \in Opened({<<X>> \o (Rest(r, k + 1) \o c)})

Takes(p, g, t) ==
  \E r, k, c : /\ Goes(Behind, p, r, k, c) /\ k < Len(rhs(r)) /\ t = rhs(r)[k + 1]
               /\ g = <<t>> \o (Rest(r, k + 1) \o c)

Ends(p, g) ==
  \E r, c : Goes(Behind, p, r, Len(rhs(r)), c) /\ g \in Opened({c})

Descends(S) ==
  \A p, g : \A X \in S : Comes(p, g, X) => \E t \in Tokens : Takes(p, g, t)

LEMMA ComesToken == Descends(Tokens)
<1> SUFFICES ASSUME NEW p, NEW g, NEW X \in Tokens, Comes(p, g, X)
             PROVE  Takes(p, g, X)
  BY DEF Descends
<1>1. PICK r, k, c : /\ Goes(Behind, p, r, k, c) /\ k < Len(rhs(r)) /\ X = rhs(r)[k + 1]
                     /\ g \in Opened({<<X>> \o (Rest(r, k + 1) \o c)})
  BY DEF Comes
<1>2. PICK d \in Forms : d = Rest(r, k + 1) \o c
  BY <1>1, GoesContext
<1>3. g = <<X>> \o d
  <2>1. g \in Opened({<<X>> \o d})
    BY ONLY <1>1, <1>2
  <2> QED BY <2>1, OpenedToken
<1>4. g = <<X>> \o (Rest(r, k + 1) \o c)
  BY ONLY <1>2, <1>3
<1> QED BY <1>1, <1>4 DEF Takes

(* A part that is expected begins with what one of its rules begins with.  *)
LEMMA ComesDown ==
  ASSUME NEW p, NEW g, NEW X \in Parts, Comes(p, g, X)
  PROVE  \E q \in RulesOf(X) : Comes(p, g, Head(rhs(q)))
<1>1. PICK r, k, c : /\ Goes(Behind, p, r, k, c) /\ k < Len(rhs(r)) /\ X = rhs(r)[k + 1]
                     /\ g \in Opened({<<X>> \o (Rest(r, k + 1) \o c)})
  BY DEF Comes
<1>2. PICK d \in Forms : d = Rest(r, k + 1) \o c
  BY <1>1, GoesContext
<1>3. <<p, X, d>> \in Behind
  <2>1. <<p, rhs(r)[k + 1], Rest(r, k + 1) \o c>> \in Behind
    BY <1>1, BehindClosed DEF Closed
  <2> QED BY <1>1, <1>2, <2>1
<1>4. g \in Opened({<<X>> \o d})
  BY ONLY <1>1, <1>2
<1>5. PICK q \in RulesOf(X) : g \in Opened({rhs(q) \o d})
  BY <1>4, OpenedRule
<1>6. q \in 4 .. 54 /\ lhs(q) = X /\ rhs(q) \in Forms /\ rhs(q) # <<>>
  BY PartRules
<1>7. IsPath(p) /\ Len(p) # 1 /\ <<r, k>> \in Items[Top(p)] /\ Top(p) \in States
      /\ Len(p) \in Nat
  BY <1>1, PathStates DEF Goes
<1>8. <<q, 0>> \in Items[Top(p)]
  BY <1>1, <1>7, ItemFacts
<1>9. Goes(Behind, p, q, 0, d)
  <2>1. OfQuery(q, 0)
    BY <1>6, RestAll
  <2>2. SubSeq(p, 1, Len(p) - 0) = p
    <3>1. PICK l \in Nat : l = Len(p)
      BY <1>7
    <3>2. l - 0 = l
      OBVIOUS
    <3>3. SubSeq(p, 1, Len(p)) = p
      BY <1>7 DEF IsPath
    <3> QED BY ONLY <3>1, <3>2, <3>3
  <2>3. <<SubSeq(p, 1, Len(p) - 0), lhs(q), d>> \in Behind
    BY ONLY <1>3, <1>6, <2>2
  <2>4. q # 3
    BY <1>6
  <2> QED BY <1>2, <1>7, <1>8, <2>1, <2>3, <2>4 DEF Goes
<1>10. 0 < Len(rhs(q)) /\ Head(rhs(q)) = rhs(q)[1]
  BY <1>6 DEF Forms
<1>11. PICK z : z = 0
  OBVIOUS
<1>12. /\ rhs(q)[z + 1] \in Symbols /\ Rest(q, z + 1) \in Forms
       /\ Rest(q, z) = <<rhs(q)[z + 1]>> \o Rest(q, z + 1)
  BY <1>6, <1>10, <1>11, RestAll, RestStep
<1>13. rhs(q) = <<rhs(q)[z + 1]>> \o Rest(q, z + 1)
  BY <1>6, <1>11, <1>12, RestAll
<1>14. PICK Y \in Symbols, e \in Forms : Y = rhs(q)[z + 1] /\ e = Rest(q, z + 1)
  BY <1>12
<1>15. (<<Y>> \o e) \o d = <<Y>> \o (e \o d)
  BY SingleForm, Assoc
<1>16. g \in Opened({<<Y>> \o (e \o d)})
  BY ONLY <1>5, <1>13, <1>14, <1>15
<1>17. Y = Head(rhs(q))
  <2>1. z + 1 = 1
    BY <1>11
  <2> QED BY ONLY <1>10, <1>14, <2>1
<1>18. Comes(p, g, Y)
  <2>1. Goes(Behind, p, q, z, d) /\ z < Len(rhs(q))
    BY <1>9, <1>10, <1>11
  <2>2. g \in Opened({<<Y>> \o (Rest(q, z + 1) \o d)})
    BY ONLY <1>14, <1>16
  <2> QED BY <1>14, <2>1, <2>2 DEF Comes
<1> QED BY <1>17, <1>18

LEMMA DescendsLower ==
  ASSUME NEW S, Descends(S)
  PROVE  Descends(Lower(S))
<1> SUFFICES ASSUME NEW p, NEW g, NEW X \in Lower(S), Comes(p, g, X)
             PROVE  \E t \in Tokens : Takes(p, g, t)
  BY DEF Descends
<1>1. CASE X \in S
  BY <1>1 DEF Descends
<1>2. CASE X \notin S
  <2>1. X \in Parts /\ \A r \in RulesOf(X) : Head(rhs(r)) \in S
    BY <1>2 DEF Lower
  <2>2. PICK q \in RulesOf(X) : Comes(p, g, Head(rhs(q)))
    BY <2>1, ComesDown
  <2> QED BY <2>1, <2>2 DEF Descends
<1> QED BY <1>1, <1>2

LEMMA DescendsAll == Descends(Symbols)
<1>1. PICK A : A = Lower(Tokens)
  OBVIOUS
<1>2. PICK B : B = Lower(A)
  OBVIOUS
<1>3. PICK C : C = Lower(B)
  OBVIOUS
<1>4. Descends(A)
  BY <1>1, ComesToken, DescendsLower
<1>5. Descends(B)
  BY <1>2, <1>4, DescendsLower
<1>6. Descends(C)
  BY <1>3, <1>5, DescendsLower
<1>7. Symbols \subseteq C
  <2>1. Symbols \subseteq Lower(Lower(Lower(Tokens)))
    BY Begin DEF PartsBegin
  <2> QED BY ONLY <1>1, <1>2, <1>3, <2>1
<1> QED BY <1>6, <1>7 DEF Descends

(* What is explained follows a complete rule or begins with a token that   *)
(* the state expects.                                                      *)
LEMMA Descend ==
  ASSUME NEW p, NEW g, Explained(p, g)
  PROVE  Ends(p, g) \/ \E t \in Tokens : Takes(p, g, t)
<1>1. PICK r, k, c : Goes(Behind, p, r, k, c) /\ g \in Opened({Rest(r, k) \o c})
  BY DEF Explained
<1>2. OfQuery(r, k) /\ c \in Forms
  BY <1>1 DEF Goes
<1>3. CASE k = Len(rhs(r))
  <2>1. Rest(r, k) = <<>>
    BY <1>2, <1>3, RestEnd
  <2>2. <<>> \o c = c
    BY <1>2, ConcatForms
  <2>3. g \in Opened({c})
    BY ONLY <1>1, <2>1, <2>2
  <2>4. Goes(Behind, p, r, Len(rhs(r)), c)
    BY ONLY <1>1, <1>3
  <2> QED BY <2>3, <2>4 DEF Ends
<1>4. CASE k # Len(rhs(r))
  <2>1. k < Len(rhs(r))
    <3>1. k \in 0 .. Len(rhs(r)) /\ Len(rhs(r)) \in Nat
      BY <1>2, RightHandSide
    <3> QED BY ONLY <1>4, <3>1
  <2>2. PICK X \in Symbols, e \in Forms :
          X = rhs(r)[k + 1] /\ e = Rest(r, k + 1) /\ Rest(r, k) = <<X>> \o e
    BY <1>2, <2>1, RestStep
  <2>3. (<<X>> \o e) \o c = <<X>> \o (e \o c)
    BY <1>2, SingleForm, Assoc
  <2>4. g \in Opened({<<X>> \o (Rest(r, k + 1) \o c)})
    BY ONLY <1>1, <2>2, <2>3
  <2>5. Comes(p, g, X)
    BY <1>1, <2>1, <2>2, <2>4 DEF Comes
  <2> QED BY <2>5, DescendsAll DEF Descends
<1> QED BY <1>3, <1>4

(* A step along the path.                                                  *)
LEMMA GoesOn ==
  ASSUME NEW p, NEW r, NEW k, NEW c, Goes(Behind, p, r, k, c), k < Len(rhs(r)),
         NEW X, X = rhs(r)[k + 1], Trans(Top(p), X) # YYFINAL
  PROVE  /\ X \in NextOf(Items[Top(p)])
         /\ Goes(Behind, Append(p, Trans(Top(p), X)), r, k + 1, c)
<1>1. /\ IsPath(p) /\ Len(p) # 1 /\ <<r, k>> \in Items[Top(p)] /\ OfQuery(r, k) /\ c \in Forms
      /\ IF r = 3 THEN c = <<>> ELSE <<SubSeq(p, 1, Len(p) - k), lhs(r), c>> \in Behind
  BY DEF Goes
<1>2. Top(p) \in States /\ Len(p) \in Nat \ {0}
  BY <1>1, PathStates
<1>3. X \in NextOf(Items[Top(p)])
  BY <1>1, <1>2, ItemFacts
<1>4. <<r, k + 1>> \in Items[Trans(Top(p), X)] /\ OfQuery(r, k + 1)
  BY <1>1, <1>2, ItemForth, RestStep
<1> DEFINE q == Append(p, Trans(Top(p), X))
<1>5. IsPath(q) /\ Len(q) = Len(p) + 1 /\ Top(q) = Trans(Top(p), X)
      /\ \A i \in 1 .. Len(p) : q[i] = p[i]
  BY <1>1, <1>3, PathAppend
<1>6. k \in Nat /\ k < Len(p)
  BY <1>1, PathBack
<1>7. SubSeq(q, 1, Len(q) - (k + 1)) = SubSeq(p, 1, Len(p) - k)
  <2> HIDE DEF q
  <2>1. PICK l \in Nat : l = Len(p)
    BY <1>2
  <2>2. PICK n \in Nat : n = Len(p) - k /\ n <= l /\ n = Len(q) - (k + 1)
    <3>1. l - k \in Nat /\ l - k <= l /\ (l + 1) - (k + 1) = l - k
      BY ONLY <1>6, <2>1
    <3> QED BY ONLY <1>5, <2>1, <3>1
  <2>3. \A i \in 1 .. n : q[i] = p[i]
    BY ONLY <1>5, <2>1, <2>2
  <2>4. SubSeq(q, 1, n) = SubSeq(p, 1, n)
    <3>1. p \in Seq(States) /\ q \in Seq(States)
      BY <1>1, <1>5 DEF IsPath
    <3>2. n <= Len(p) /\ n <= Len(q)
      <4>1. n <= l + 1
        BY ONLY <2>1, <2>2
      <4> QED BY ONLY <1>5, <2>1, <2>2, <4>1
    <3> QED BY ONLY <2>2, <2>3, <3>1, <3>2
  <2> QED BY ONLY <2>2, <2>4
<1>8. Len(q) # 1
  BY <1>1, <1>2, <1>5
<1>9. IF r = 3 THEN c = <<>> ELSE <<SubSeq(q, 1, Len(q) - (k + 1)), lhs(r), c>> \in Behind
  BY ONLY <1>1, <1>7
<1>10. Goes(Behind, q, r, k + 1, c)
  <2> HIDE DEF q
  <2>1. <<r, k + 1>> \in Items[Top(q)]
    BY <1>4, <1>5
  <2> QED BY <1>1, <1>4, <1>5, <1>8, <1>9, <2>1 DEF Goes
<1> QED BY <1>3, <1>10

(* What follows a complete rule is in the follow set of its left-hand      *)
(* side, and the tables reduce by that rule.                               *)
LEMMA EndsReduces ==
  ASSUME NEW p, NEW g, Ends(p, g)
  PROVE  /\ At(yydefact, Top(p)) \in 3 .. 54 /\ IsPath(p) /\ Len(p) # 1
         /\ <<At(yydefact, Top(p)), Len(rhs(At(yydefact, Top(p))))>> \in Items[Top(p)]
         /\ g # <<>> => Head(g) \notin NextOf(Items[Top(p)])
         /\ At(yydefact, Top(p)) # 3 =>
              \E c \in Forms :
                /\ <<SubSeq(p, 1, Below(p, Len(rhs(At(yydefact, Top(p)))))),
                     lhs(At(yydefact, Top(p))), c>> \in Behind
                /\ g \in Opened({c})
<1>1. PICK r, c : Goes(Behind, p, r, Len(rhs(r)), c) /\ g \in Opened({c})
  BY DEF Ends
<1>2. /\ IsPath(p) /\ Len(p) # 1 /\ <<r, Len(rhs(r))>> \in Items[Top(p)]
      /\ OfQuery(r, Len(rhs(r))) /\ c \in Forms
      /\ IF r = 3 THEN c = <<>>
         ELSE <<SubSeq(p, 1, Len(p) - Len(rhs(r))), lhs(r), c>> \in Behind
  BY <1>1 DEF Goes
<1>3. At(yydefact, Top(p)) = r
  BY <1>2, TopState
<1>4. r \in 3 .. 54
  BY <1>2 DEF OfQuery
<1>5. g # <<>> => Head(g) \notin NextOf(Items[Top(p)])
  <2>1. CASE r = 3
    BY <1>1, <1>2, <2>1, OpenedEmpty
  <2>2. CASE r # 3
    <3>1. r \in 4 .. 54 /\ lhs(r) \in Parts
      BY <1>4, <2>2, RuleOfItsPart
    <3>2. <<SubSeq(p, 1, Len(p) - Len(rhs(r))), lhs(r), c>> \in Behind
      BY <1>2, <2>2
    <3>3. Head(g) \in FollowOf[lhs(r)]
      BY <1>1, <3>1, <3>2, BehindFollow
    <3>4. FollowOf[lhs(r)] \cap NextOf(Items[Top(p)]) = {}
      <4> DEFINE i == <<r, Len(rhs(r))>>
      <4>1. i[1] = r /\ i[2] = Len(rhs(r)) /\ i \in Items[Top(p)] /\ Top(p) \in States
        BY <1>2, PathStates
      <4> HIDE DEF i
      <4>2. i[1] \in 4 .. 54 /\ i[2] = Len(rhs(i[1]))
        BY <3>1, <4>1
      <4>3. FollowOf[lhs(i[1])] \cap NextOf(Items[Top(p)]) = {}
        BY <4>1, <4>2, Certified DEF NoConflict
      <4> QED BY <4>1, <4>3
    <3> QED BY <3>3, <3>4
  <2> QED BY <2>1, <2>2
<1>6. r # 3 => <<SubSeq(p, 1, Below(p, Len(rhs(r)))), lhs(r), c>> \in Behind
  BY <1>2 DEF Below
<1> QED BY ONLY <1>1, <1>2, <1>3, <1>4, <1>5, <1>6

(* A token that begins what is explained is expected by the state.         *)
LEMMA TakesExpected ==
  ASSUME NEW p, NEW g, NEW t \in Tokens, Takes(p, g, t)
  PROVE  /\ t \in NextOf(Items[Top(p)]) /\ g # <<>> /\ Head(g) = t
         /\ \E r, k, c : /\ Goes(Behind, p, r, k, c) /\ k < Len(rhs(r)) /\ t = rhs(r)[k + 1]
                         /\ Tail(g) = Rest(r, k + 1) \o c
<1>1. PICK r, k, c : /\ Goes(Behind, p, r, k, c) /\ k < Len(rhs(r)) /\ t = rhs(r)[k + 1]
                     /\ g = <<t>> \o (Rest(r, k + 1) \o c)
  BY DEF Takes
<1>2. PICK d \in Forms : d = Rest(r, k + 1) \o c
  BY <1>1, GoesContext
<1>3. g = <<t>> \o d
  BY ONLY <1>1, <1>2
<1>4. t \in Symbols
  BY DEF Symbols
<1>5. g # <<>> /\ Head(g) = t /\ Tail(g) = d
  BY <1>3, <1>4, FormCons
<1>6. t \in NextOf(Items[Top(p)])
  <2>1. IsPath(p) /\ <<r, k>> \in Items[Top(p)] /\ Top(p) \in States
    BY <1>1, PathStates DEF Goes
  <2> QED BY <1>1, <2>1, ItemFacts
<1> QED BY <1>1, <1>2, <1>5, <1>6

-----------------------------------------------------------------------------
(***************************************************************************)
(* The parser and the grammar.                                             *)
(***************************************************************************)

(* The lexemes read are those behind the path and then the lookahead       *)
(* token; what may follow is what the rules begun on the path explain.     *)
Accounts(p, c, f) ==
  \E F : /\ History(p, F)
         /\ f = (IF c = Empty THEN F[Len(p)] ELSE After(F[Len(p)], c.token))
         /\ Len(p) # 1 =>
              \A g \in Opened(F[Len(p)]) :
                c = Empty \/ (g # <<>> /\ Head(g) = c.token) => Explained(p, g)

(* A state that reduces whatever comes next has read no token yet, unless  *)
(* a reduction led to it.                                                  *)
NotReadYet(p, c) ==
  At(yypact, Top(p)) = YYPACT_NINF /\ (Len(p) = 1 \/ Sym(Top(p)) \in Tokens) => c = Empty

FollowInv ==
  /\ result = Running => Accounts(yyss, yychar, follow) /\ NotReadYet(yyss, yychar)
  /\ ParsesTheGrammar /\ LeavesNoToken

LEMMA ResultNodes ==
  /\ Running.node = "running" /\ SyntaxError.node = "error"
  /\ EndOfInput.node = "end" /\ MemoryExhausted.node = "memory"
BY NodeIsNode DEF IsNode, Running, SyntaxError, EndOfInput, MemoryExhausted

LEMMA FollowInit == Init => FollowInv
<1> SUFFICES ASSUME Init PROVE FollowInv
  OBVIOUS
<1>1. yyss = <<0>> /\ yychar = Empty /\ result = Running /\ follow = Sentence
  BY DEF Init
<1>2. Len(<<0>>) = 1
  OBVIOUS
<1>3. Sentence \in SUBSET Forms
  <2>1. <<"query", "SEMICOLON">> \in Forms
    BY RestOfInput, RestForm
  <2> QED BY <2>1 DEF Sentence
<1>4. Accounts(<<0>>, Empty, Sentence)
  <2> DEFINE F == [i \in 1 .. 1 |-> Sentence]
  <2>1. F \in [1 .. 1 -> SUBSET Forms] /\ F[1] = Sentence
    BY <1>3
  <2> HIDE DEF F
  <2>2. History(<<0>>, F)
    BY <1>2, <2>1 DEF History
  <2> QED BY <1>2, <2>1, <2>2 DEF Accounts
<1>5. NotReadYet(<<0>>, Empty)
  BY DEF NotReadYet
<1>6. Sentence # {}
  BY DEF Sentence
<1>7. ParsesTheGrammar /\ LeavesNoToken
  BY <1>1, <1>6, ResultNodes DEF ParsesTheGrammar, LeavesNoToken
<1> QED BY <1>1, <1>4, <1>5, <1>7 DEF FollowInv

(* What a step that goes on and one that stops need to show.               *)
LEMMA FollowGoesOn ==
  ASSUME result' = Running, Accounts(yyss', yychar', follow'), NotReadYet(yyss', yychar'),
         follow' = {} => yychar' # Empty
  PROVE  FollowInv'
<1>1. result'.node # "query" /\ result' # SyntaxError
  BY ResultNodes
<1> QED BY <1>1 DEF FollowInv, ParsesTheGrammar, LeavesNoToken

LEMMA FollowStops ==
  ASSUME result'.node \in {"end", "memory"}, follow' = {} => yychar' # Empty
  PROVE  FollowInv'
BY ResultNodes DEF FollowInv, ParsesTheGrammar, LeavesNoToken

LEMMA FollowRead ==
  ASSUME TypesInv, FollowInv, ReadToken
  PROVE  FollowInv'
<1>1. /\ result = Running /\ IsPath(yyss) /\ yychar = Empty
      /\ At(yypact, Top(yyss)) # YYPACT_NINF
  BY StepsRun, StateOfTop DEF TypesInv, TypeInv, ReadToken, Decided
<1>2. PICK token \in {t \in Typeable : Room(t)} :
        /\ \E text \in TextsOf(token) :
             /\ typed' = Append(typed, [token |-> token, text |-> text])
             /\ yychar' = yylex(typed'[Len(typed')])
        /\ follow' = After(follow, token)
  BY DEF ReadToken
<1>3. yychar'.token = token /\ yychar' # Empty
  <2>1. PICK text \in TextsOf(token) :
             /\ typed' = Append(typed, [token |-> token, text |-> text])
             /\ yychar' = yylex(typed'[Len(typed')])
    BY <1>2
  <2> DEFINE lexeme == [token |-> token, text |-> text]
  <2>2. PICK S : typed \in Seq(S)
    BY DEF TypesInv
  <2>3. typed'[Len(typed')] = lexeme
    BY ONLY <2>1, <2>2
  <2>4. lexeme.token = token
    OBVIOUS
  <2> HIDE DEF lexeme
  <2>5. yychar' = yylex(lexeme)
    BY <2>1, <2>3
  <2> QED BY <2>4, <2>5, TypeRead DEF yylex
<1>4. PICK F : /\ History(yyss, F) /\ follow = F[Len(yyss)]
               /\ Len(yyss) # 1 => \A g \in Opened(F[Len(yyss)]) : Explained(yyss, g)
  BY <1>1 DEF FollowInv, Accounts
<1>5. yyss' = yyss /\ result' = result
  BY DEF ReadToken
<1>6. follow' = After(F[Len(yyss)], yychar'.token)
  BY <1>2, <1>3, <1>4
<1>7. Accounts(yyss, yychar', follow')
  BY <1>3, <1>4, <1>6 DEF Accounts
<1>8. NotReadYet(yyss, yychar')
  BY <1>1 DEF NotReadYet
<1> QED BY <1>1, <1>3, <1>5, <1>7, <1>8, FollowGoesOn

(* The outcomes of a push.                                                 *)
LEMMA PushCases ==
  ASSUME NEW p, NEW v, NEW s, NEW w, Push(p, v, s, w)
  PROVE  \/ Len(p) + 1 >= YYMAXDEPTH /\ result' = MemoryExhausted
         \/ s = YYFINAL /\ result' = EndOfInput
         \/ s # YYFINAL /\ yyss' = Append(p, s) /\ result' = result
BY DEF Push, Return

(* Only the path of the input alone is in the state 1.                     *)
LEMMA AtInput ==
  ASSUME NEW p, IsPath(p), Top(p) = 1
  PROVE  Len(p) = 2
<1>1. Len(p) \in Nat \ {0} /\ \A i \in 1 .. Len(p) : p[i] \in States /\ (p[i] = 0 <=> i = 1)
  BY PathStates
<1>2. PICK l \in Nat \ {0} : l = Len(p)
  BY <1>1
<1>3. p[l] = 1
  BY <1>2 DEF Top
<1>4. l # 1
  <2>1. 1 \in 1 .. l
    BY ONLY l \in Nat \ {0}
  <2> QED BY <1>1, <1>2, <1>3, <2>1
<1>5. <<3, 1>> \in Items[Top(p)]
  <2>1. 1 \in States
    BY DEF States
  <2> QED BY <2>1, Input, KernelItems DEF InputFits
<1>6. PICK j : j = 1
  OBVIOUS
<1>7. \A i \in 0 .. j : <<3, j - i>> \in Items[p[Len(p) - i]]
  BY <1>5, <1>6, PathBack
<1>8. <<3, 0>> \in Items[p[l - 1]] /\ l - 1 \in 1 .. l
  <2>1. 1 \in 0 .. j /\ j - 1 = 0
    BY ONLY <1>6
  <2>2. l - 1 \in 1 .. l
    BY ONLY <1>4, l \in Nat \ {0}
  <2> QED BY ONLY <1>2, <1>7, <2>1, <2>2
<1>9. p[l - 1] = 0
  <2>1. PICK k : k = 0
    OBVIOUS
  <2>2. p[l - 1] \in States
    BY ONLY <1>1, <1>2, <1>8
  <2>3. <<3, k>> \in Items[p[l - 1]]
    BY ONLY <1>8, <2>1
  <2>4. p[l - 1] # 0 => k > 0
    BY <2>2, <2>3, InputItems
  <2> QED BY ONLY <2>1, <2>4
<1>10. l - 1 = 1
  BY ONLY <1>1, <1>2, <1>8, <1>9
<1>11. l = 2
  BY ONLY <1>10, l \in Nat \ {0}
<1> QED BY ONLY <1>2, <1>11

(* A token of a query that the state expects may follow.                   *)
LEMMA TokenFollows ==
  ASSUME NEW p, IsPath(p), Len(p) # 1, NEW F, History(p, F),
         NEW t \in Tokens, t \in NextOf(Items[Top(p)]), t # "$end"
  PROVE  After(F[Len(p)], t) # {}
<1>1. Len(p) \in Nat \ {0} /\ Top(p) \in States /\ Top(p) # 0
  BY PathStates, TopState
<1>2. PICK r, k : <<r, k>> \in Items[Top(p)] /\ k < Len(rhs(r)) /\ rhs(r)[k + 1] = t
  BY <1>1, NextItem
<1>3. r # 1
  BY <1>1, <1>2, EndItem
<1>4. OfQuery(r, k)
  BY <1>1, <1>2, <1>3, ItemOfQuery
<1>5. Len(p) \in 2 .. Len(p)
  <2>1. PICK l \in Nat \ {0} : l = Len(p)
    BY <1>1
  <2>2. l \in 2 .. l
    BY ONLY <2>1, Len(p) # 1, l \in Nat \ {0}
  <2> QED BY ONLY <2>1, <2>2
<1>6. PICK a \in Forms : Leads(F[Len(p)], Rest(r, k) \o a)
  <2>1. Live(F[Len(p)], Items[Top(p)])
    BY <1>5, HistoryLive DEF Top
  <2> QED BY <1>2, <1>4, <2>1 DEF Live
<1>7. PICK e \in Forms : e = Rest(r, k + 1) /\ Rest(r, k) = <<t>> \o e
  BY <1>2, <1>4, RestStep
<1>8. t \in Symbols
  BY DEF Symbols
<1>9. (<<t>> \o e) \o a = <<t>> \o (e \o a) /\ e \o a \in Forms
  <2>1. PICK X \in Symbols : X = t
    BY <1>8
  <2>2. (<<X>> \o e) \o a = <<X>> \o (e \o a)
    BY SingleForm, Assoc
  <2>3. e \o a \in Forms
    BY ConcatForms
  <2> QED BY ONLY <2>1, <2>2, <2>3
<1>10. PICK d \in Forms : d = e \o a
  BY <1>9
<1>11. Leads(F[Len(p)], <<t>> \o d)
  BY ONLY <1>6, <1>7, <1>9, <1>10
<1>12. F[Len(p)] \in SUBSET Forms
  BY <1>1 DEF History
<1>13. Leads(After(F[Len(p)], t), d)
  BY <1>11, <1>12, ReachesToken DEF Reaches
<1> QED BY <1>13, LeadsSome

LEMMA FollowShift ==
  ASSUME TypesInv, FollowInv, Shift
  PROVE  FollowInv'
<1>1. /\ result = Running /\ IsPath(yyss) /\ Len(yyss) < YYMAXDEPTH
      /\ ValuesFit(yyss, yyvs)
  BY StepsRun DEF TypesInv, TypeInv
<1>2. TokenFits(yychar) /\ yychar # Empty /\ yychar' = Empty /\ follow' = follow
  BY TypeShift DEF Shift
<1>3. PICK t \in Tokens : t = yychar.token
  BY <1>2 DEF TokenFits
<1>4. /\ t \in NextOf(Items[Top(yyss)])
      /\ Push(yyss, yyvs, Trans(Top(yyss), t), yychar)
  BY <1>1, <1>2, <1>3, ShiftPushes
<1>5. At(yypact, Top(yyss)) # YYPACT_NINF
  BY <1>1, StateOfTop DEF Shift, Decided
<1>6. Len(yyss) # 1 /\ Top(yyss) \in States /\ Top(yyss) # 0 /\ Len(yyss) \in Nat \ {0}
  BY <1>1, <1>5, TopState, PathStates
<1>7. PICK F : /\ History(yyss, F) /\ follow = After(F[Len(yyss)], t)
               /\ \A g \in Opened(F[Len(yyss)]) :
                    g # <<>> /\ Head(g) = t => Explained(yyss, g)
  BY <1>1, <1>2, <1>3, <1>6 DEF FollowInv, Accounts
<1>8. t # "$end" => follow # {}
  BY <1>1, <1>4, <1>6, <1>7, TokenFollows
<1>9. Trans(Top(yyss), t) = YYFINAL <=> t = "$end"
  BY <1>4, <1>6, Input DEF InputFits
<1>10. CASE Len(yyss) + 1 >= YYMAXDEPTH /\ result' = MemoryExhausted
  <2>1. t # "$end"
    <3>1. ASSUME t = "$end" PROVE FALSE
      <4>1. Top(yyss) = 1
        BY <1>4, <1>6, <3>1, Input DEF InputFits
      <4>2. Len(yyss) = 2
        BY <1>1, <4>1, AtInput
      <4> QED BY <1>10, <4>2, ParserAssumption DEF ParserAssumption
    <3> QED BY <3>1
  <2> QED BY <1>2, <1>8, <1>10, <2>1, ResultNodes, FollowStops
<1>11. CASE Trans(Top(yyss), t) = YYFINAL /\ result' = EndOfInput
  BY <1>11, ResultNodes DEF FollowInv, ParsesTheGrammar, LeavesNoToken
<1>12. CASE /\ Trans(Top(yyss), t) # YYFINAL /\ yyss' = Append(yyss, Trans(Top(yyss), t))
            /\ result' = result
  <2> DEFINE q == Append(yyss, Trans(Top(yyss), t))
             H == After(F[Len(yyss)], t)
  <2>1. F[Len(yyss)] \in SUBSET Forms
    BY <1>6, <1>7 DEF History
  <2>2. H \in SUBSET Forms /\ Reaches(F[Len(yyss)], t, H)
    BY <2>1, AfterForms, ReachesToken
  <2>3. PICK G : History(q, G) /\ G[Len(q)] = H
    <3> HIDE DEF H
    <3> QED BY <1>1, <1>4, <1>6, <1>7, <1>12, <2>2, HistoryAppend
  <2>4. ASSUME NEW g \in Opened(H) PROVE Explained(q, g)
    <3>1. PICK a \in H : g \in Opened({a})
      BY OpenedUnion
    <3>2. a \in Forms /\ <<t>> \o a \in Opened(F[Len(yyss)])
      BY <2>1, <2>2, <3>1, AfterForms
    <3>3. PICK h : h = <<t>> \o a
      OBVIOUS
    <3>4. h # <<>> /\ Head(h) = t /\ Tail(h) = a
      BY <3>2, <3>3, FormCons DEF Symbols
    <3>5. Explained(yyss, h)
      BY <1>7, <3>2, <3>3, <3>4
    <3>6. ~ Ends(yyss, h)
      BY <1>4, <3>4, EndsReduces
    <3>7. PICK u \in Tokens : Takes(yyss, h, u)
      BY <3>5, <3>6, Descend
    <3>8. u = t
      BY <3>4, <3>7, TakesExpected
    <3>9. PICK r, k, c : /\ Goes(Behind, yyss, r, k, c) /\ k < Len(rhs(r)) /\ t = rhs(r)[k + 1]
                         /\ a = Rest(r, k + 1) \o c
      <4>1. \E r, k, c : /\ Goes(Behind, yyss, r, k, c) /\ k < Len(rhs(r)) /\ u = rhs(r)[k + 1]
                         /\ Tail(h) = Rest(r, k + 1) \o c
        BY <3>7, TakesExpected
      <4> QED BY ONLY <3>4, <3>8, <4>1
    <3>10. Goes(Behind, q, r, k + 1, c)
      BY <1>12, <3>9, GoesOn
    <3>11. g \in Opened({Rest(r, k + 1) \o c})
      BY ONLY <3>1, <3>9
    <3> QED BY <3>10, <3>11 DEF Explained
  <2>5. Accounts(q, Empty, H)
    <3> HIDE DEF q, H
    <3> QED BY <2>3, <2>4 DEF Accounts
  <2>6. NotReadYet(q, Empty)
    BY DEF NotReadYet
  <2>7. follow # {}
    BY <1>8, <1>9, <1>12
  <2> QED BY <1>1, <1>2, <1>7, <1>12, <2>5, <2>6, <2>7, FollowGoesOn
<1> QED BY <1>4, <1>10, <1>11, <1>12, PushCases

(* The rules begun below a complete rule explain what follows it.          *)
LEMMA ExplainedBelow ==
  ASSUME NEW q, NEW X, NEW c, <<q, X, c>> \in Behind, Trans(Top(q), X) # YYFINAL,
         NEW g \in Opened({c})
  PROVE  Explained(Append(q, Trans(Top(q), X)), g)
<1>1. PutThere(q, X, c)
  BY BehindInversion
<1>2. PICK r, k, e : /\ Goes(Behind, q, r, k, e) /\ k < Len(rhs(r))
                     /\ X = rhs(r)[k + 1] /\ c = Rest(r, k + 1) \o e
  BY <1>1 DEF PutThere
<1>3. Goes(Behind, Append(q, Trans(Top(q), X)), r, k + 1, e)
  BY <1>2, GoesOn
<1>4. g \in Opened({Rest(r, k + 1) \o e})
  BY ONLY <1>2, g \in Opened({c})
<1> QED BY <1>3, <1>4 DEF Explained

(* Where the tables reduce without a token or do not know the token, no    *)
(* token that is expected begins what may follow.                          *)
LEMMA NotTaken ==
  ASSUME IsPath(yyss), Len(yyss) # 1, Default, yychar = Empty \/ TokenFits(yychar),
         NEW g, yychar = Empty \/ (g # <<>> /\ Head(g) = yychar.token),
         Explained(yyss, g)
  PROVE  Ends(yyss, g)
<1> SUFFICES ASSUME NEW t \in Tokens, Takes(yyss, g, t)
             PROVE  FALSE
  BY Descend
<1>1. t \in NextOf(Items[Top(yyss)]) /\ Head(g) = t
  BY TakesExpected
<1>2. Top(yyss) \in States /\ yystate = Top(yyss)
  BY StateOfTop
<1>3. CASE At(yypact, Top(yyss)) = YYPACT_NINF
  <2>1. PICK r, k : <<r, k>> \in Items[Top(yyss)] /\ k < Len(rhs(r)) /\ rhs(r)[k + 1] = t
    BY <1>1, <1>2, NextItem
  <2>2. PICK q : q = At(yydefact, Top(yyss))
    OBVIOUS
  <2>3. Items[Top(yyss)] = {<<q, Len(rhs(q))>>}
    BY <1>3, <2>2, TopState
  <2>4. r = q /\ k = Len(rhs(q))
    BY ONLY <2>1, <2>3
  <2>5. Len(rhs(r)) \in Nat
    BY <1>2, <2>1, ItemFacts
  <2> QED BY ONLY <2>1, <2>4, <2>5
<1>4. CASE At(yypact, Top(yyss)) # YYPACT_NINF
  <2>1. yychar # Empty /\ Shifted = 0
    BY <1>2, <1>4 DEF Default, Decided
  <2>2. t = yychar.token
    BY <1>1, <2>1
  <2>3. Shifts(Top(yyss), t) = 0
    BY <1>2, <2>1, <2>2 DEF Shifted
  <2> QED BY <1>1, <1>2, <1>4, <2>3, ShiftGoes
<1> QED BY <1>3, <1>4

(* Nothing may follow only when a token has been read.                     *)
LEMMA NothingFollows ==
  ASSUME FollowInv, result = Running, follow = {}
  PROVE  yychar # Empty
BY ResultNodes DEF FollowInv, ParsesTheGrammar, LeavesNoToken

(* A push that reduces by the rule r on what is below it.                  *)
LEMMA FollowPush ==
  ASSUME TypesInv, FollowInv, Reduce, NEW q, IsPath(q), NEW v, NEW X \in NextOf(Items[Top(q)]),
         NEW w, Push(q, v, Trans(Top(q), X), w), X \in Nonterminals,
         Trans(Top(q), X) # YYFINAL => Accounts(Append(q, Trans(Top(q), X)), yychar, follow)
  PROVE  FollowInv'
<1>1. result = Running /\ yychar' = yychar /\ follow' = follow
  BY StepsRun DEF TypesInv, TypeInv, Reduce
<1>2. follow' = {} => yychar' # Empty
  BY <1>1, NothingFollows
<1>3. CASE result' = MemoryExhausted \/ result' = EndOfInput
  BY <1>2, <1>3, ResultNodes, FollowStops
<1>4. CASE /\ Trans(Top(q), X) # YYFINAL /\ yyss' = Append(q, Trans(Top(q), X))
           /\ result' = result
  <2>1. Accounts(yyss', yychar', follow')
    BY <1>1, <1>4
  <2>2. NotReadYet(yyss', yychar')
    <3>1. /\ Len(yyss') = Len(q) + 1 /\ Top(yyss') = Trans(Top(q), X)
      BY <1>4, PathAppend
    <3>2. Len(q) \in Nat \ {0} /\ Top(q) \in States
      BY PathStates
    <3>3. Len(yyss') # 1
      BY <3>1, <3>2
    <3>4. Sym(Top(yyss')) = X
      BY <3>1, <3>2, TransKernel
    <3>5. X \notin Tokens
      BY Begin DEF PartsBegin
    <3> QED BY <3>3, <3>4, <3>5 DEF NotReadYet
  <2> QED BY <1>1, <1>2, <1>4, <2>1, <2>2, FollowGoesOn
<1> QED BY <1>3, <1>4, PushCases

(* The empty input: behind it comes one query.                             *)
LEMMA FollowEmptyInput ==
  ASSUME FollowInv, result = Running, IsPath(yyss), Len(yyss) = 1,
         Trans(Top(yyss), "input") # YYFINAL, "input" \in NextOf(Items[Top(yyss)])
  PROVE  Accounts(Append(yyss, Trans(Top(yyss), "input")), yychar, follow)
<1> DEFINE q == Append(yyss, Trans(Top(yyss), "input"))
<1>1. At(yypact, Top(yyss)) = YYPACT_NINF /\ Top(yyss) = 0
  BY TopState
<1>2. yychar = Empty
  BY <1>1 DEF FollowInv, NotReadYet
<1>3. PICK F : History(yyss, F) /\ follow = F[1]
  BY <1>2 DEF FollowInv, Accounts
<1>4. follow = Sentence /\ Sentence \in SUBSET Forms
  <2>1. 1 \in 1 .. 1
    OBVIOUS
  <2>2. F \in [1 .. 1 -> SUBSET Forms] /\ F[1] = Sentence
    BY <1>3 DEF History
  <2> QED BY ONLY <1>3, <2>1, <2>2
<1>5. PICK G : History(q, G) /\ G[Len(q)] = Sentence
  BY <1>3, <1>4, HistoryAppend
<1>6. /\ IsPath(q) /\ Len(q) = 2 /\ Top(q) = 1
  <2>1. IsPath(q) /\ Len(q) = Len(yyss) + 1 /\ Top(q) = Trans(Top(yyss), "input")
    BY PathAppend
  <2> QED BY <1>1, <2>1, Input DEF InputFits
<1> HIDE DEF q
<1>7. Goes(Behind, q, 3, 1, <<>>)
  <2>1. <<3, 1>> \in Items[Top(q)]
    <3>1. 1 \in States
      BY DEF States
    <3>2. <<3, 1>> \in Items[1]
      BY <3>1, Input, KernelItems DEF InputFits
    <3> QED BY ONLY <1>6, <3>2
  <2>2. <<>> \in Forms
    BY DEF Forms
  <2>3. Len(q) # 1
    BY <1>6
  <2> QED BY <1>6, <2>1, <2>2, <2>3, RestOfInput DEF Goes
<1>8. ASSUME NEW g \in Opened(Sentence) PROVE Explained(q, g)
  <2>1. PICK d \in Forms : d = <<"query", "SEMICOLON">> /\ d = Rest(3, 1)
    BY RestOfInput, RestForm
  <2>2. Rest(3, 1) \o <<>> = d
    BY <2>1, ConcatForms
  <2>3. g \in Opened({Rest(3, 1) \o <<>>})
    BY <2>1, <2>2 DEF Sentence
  <2> QED BY <1>7, <2>3 DEF Explained
<1> QED BY <1>2, <1>4, <1>5, <1>8 DEF Accounts, q

(* A rule of a part: the path below it goes on with the part.              *)
LEMMA FollowPart ==
  ASSUME TypesInv, FollowInv, Reduce, result = Running, IsPath(yyss),
         NEW r \in 4 .. 54, At(yydefact, Top(yyss)) = r,
         NEW b, b = Below(yyss, Len(rhs(r))), NEW q, q = SubSeq(yyss, 1, b),
         Trans(Top(q), lhs(r)) # YYFINAL
  PROVE  Accounts(Append(q, Trans(Top(q), lhs(r))), yychar, follow)
<1> DEFINE X == lhs(r)
           p == Append(q, Trans(Top(q), X))
<1>1. /\ <<r, Len(rhs(r))>> \in Items[Top(yyss)] /\ b \in 1 .. Len(yyss) /\ b # 1
      /\ X \in NextOf(Items[yyss[b]]) /\ (r = 2 <=> Len(yyss) = 1)
  <2>1. r # 0
    BY ONLY r \in 4 .. 54
  <2>2. /\ <<r, Len(rhs(r))>> \in Items[Top(yyss)]
        /\ Below(yyss, Len(rhs(r))) \in 1 .. Len(yyss)
        /\ Below(yyss, Len(rhs(r))) # 1
        /\ lhs(r) \in NextOf(Items[yyss[Below(yyss, Len(rhs(r)))]])
        /\ (r = 2 <=> Len(yyss) = 1)
    BY <2>1, Reduction
  <2> QED BY ONLY <2>2, b = Below(yyss, Len(rhs(r)))
<1>2. IsPath(q) /\ Len(q) = b /\ Top(q) = yyss[b]
  BY <1>1, PathPrefix
<1>3. Len(yyss) # 1
  <2>1. r # 2
    BY ONLY r \in 4 .. 54
  <2> QED BY ONLY <1>1, <2>1
<1>4. PICK F : /\ History(yyss, F)
               /\ follow = (IF yychar = Empty THEN F[Len(yyss)]
                            ELSE After(F[Len(yyss)], yychar.token))
               /\ \A g \in Opened(F[Len(yyss)]) :
                    yychar = Empty \/ (g # <<>> /\ Head(g) = yychar.token)
                      => Explained(yyss, g)
  BY <1>3 DEF FollowInv, Accounts
<1> DEFINE B == [i \in 1 .. b |-> F[i]]
           H == F[Len(yyss)]
<1>5. History(q, B) /\ B[b] = F[b]
  <2>1. b \in 1 .. b
    BY <1>1, PathStates
  <2> QED BY <1>1, <1>4, <2>1, HistoryPrefix
<1>6. H \in SUBSET Forms
  <2>1. Len(yyss) \in 1 .. Len(yyss)
    BY PathStates
  <2> QED BY <1>4, <2>1 DEF History
<1>7. Reaches(B[Len(q)], X, H)
  BY <1>1, <1>2, <1>4, <1>5, HistoryReduce
<1>8. X \in NextOf(Items[Top(q)]) /\ Len(q) # 1
  BY <1>1, <1>2
<1>9. PICK G : History(p, G) /\ G[Len(p)] = H
  <2>1. PICK D, K : D = B /\ K = H
    OBVIOUS
  <2>2. PICK Y \in NextOf(Items[Top(q)]) : Y = X
    BY <1>8
  <2> HIDE DEF B, H, X
  <2>3. Trans(Top(q), Y) # YYFINAL
    BY <2>2 DEF X
  <2>4. IsPath(q) /\ History(q, D) /\ Len(q) # 1
    BY ONLY <1>2, <1>5, <1>8, <2>1
  <2>5. K \in SUBSET Forms
    BY ONLY <1>6, <2>1
  <2>6. Reaches(D[Len(q)], Y, K)
    BY ONLY <1>7, <2>1, <2>2
  <2>7. \E G : /\ History(Append(q, Trans(Top(q), Y)), G)
               /\ G[Len(Append(q, Trans(Top(q), Y)))] = K
    BY ONLY <2>3, <2>4, <2>5, <2>6, HistoryAppend, Y \in NextOf(Items[Top(q)])
  <2> QED BY ONLY <2>1, <2>2, <2>7
<1>10. ASSUME NEW g \in Opened(H), yychar = Empty \/ (g # <<>> /\ Head(g) = yychar.token)
       PROVE  Explained(p, g)
  <2>1. Explained(yyss, g)
    BY <1>4, <1>10
  <2>2. Default /\ (yychar = Empty \/ TokenFits(yychar))
    BY DEF Reduce, TypesInv, TypeInv
  <2>3. Ends(yyss, g)
    BY <1>3, <1>10, <2>1, <2>2, NotTaken
  <2>4. r # 3
    BY ONLY r \in 4 .. 54
  <2>5. PICK c \in Forms : <<SubSeq(yyss, 1, Below(yyss, Len(rhs(r)))), lhs(r), c>> \in Behind
                           /\ g \in Opened({c})
    BY <2>3, <2>4, EndsReduces
  <2>6. <<q, X, c>> \in Behind
    BY <2>5
  <2> QED BY <2>5, <2>6, ExplainedBelow
<1>11. Accounts(p, yychar, follow)
  <2> HIDE DEF p
  <2> QED BY <1>4, <1>9, <1>10 DEF Accounts
<1> QED BY <1>11

LEMMA FollowReduce ==
  ASSUME TypesInv, FollowInv, Reduce, At(yydefact, Top(yyss)) # 3
  PROVE  FollowInv'
<1>1. result = Running /\ IsPath(yyss) /\ ValuesFit(yyss, yyvs)
  BY StepsRun DEF TypesInv, TypeInv
<1>2. PICK r : At(yydefact, Top(yyss)) = r /\ r # 3
  OBVIOUS
<1>3. PICK b : b = Below(yyss, Len(rhs(r)))
  OBVIOUS
<1>4. r \in 2 .. 54 /\ b \in 1 .. Len(yyss) /\ lhs(r) \in NextOf(Items[Top(SubSeq(yyss, 1, b))])
  BY <1>1, <1>2, <1>3, ReducePushes
<1>5. PICK w : Push(SubSeq(yyss, 1, b), SubSeq(yyvs, 1, b - 1),
                    Trans(Top(SubSeq(yyss, 1, b)), lhs(r)), w)
  BY <1>1, <1>2, <1>3, ReducePushes
<1>6. PICK q, v : q = SubSeq(yyss, 1, b) /\ v = SubSeq(yyvs, 1, b - 1)
  OBVIOUS
<1>7. IsPath(q) /\ Len(q) = b
  BY <1>1, <1>4, <1>6, PathPrefix
<1>8. PICK X \in NextOf(Items[Top(q)]) : X = lhs(r)
  BY <1>4, <1>6
<1>9. Push(q, v, Trans(Top(q), X), w)
  BY ONLY <1>5, <1>6, <1>8
<1>10. X \in Nonterminals /\ (r = 2 <=> Len(yyss) = 1)
  <2>1. r # 0
    BY ONLY <1>4
  <2> QED BY <1>1, <1>2, <1>8, <2>1, Reduction
<1>11. ASSUME Trans(Top(q), X) # YYFINAL
       PROVE  Accounts(Append(q, Trans(Top(q), X)), yychar, follow)
  <2>1. CASE r = 2
    <3>1. Len(yyss) = 1 /\ X = "input" /\ b = 1
      <4>1. lhs(2) = "input"
        BY Input DEF InputFits
      <4>2. Len(yyss) = 1
        BY ONLY <1>10, <2>1
      <4>3. b = 1
        BY ONLY <1>4, <4>2
      <4>4. X = lhs(2)
        BY <1>8, <2>1
      <4> QED BY ONLY <4>1, <4>2, <4>3, <4>4
    <3>2. q = yyss
      <4>1. SubSeq(yyss, 1, Len(yyss)) = yyss
        BY <1>1 DEF IsPath
      <4> QED BY ONLY <1>6, <3>1, <4>1
    <3>3. /\ "input" \in NextOf(Items[Top(yyss)]) /\ Trans(Top(yyss), "input") # YYFINAL
      BY ONLY <1>8, <1>11, <3>1, <3>2
    <3>4. Accounts(Append(yyss, Trans(Top(yyss), "input")), yychar, follow)
      BY <1>1, <3>1, <3>3, FollowEmptyInput
    <3> QED BY ONLY <3>1, <3>2, <3>4
  <2>2. CASE r # 2
    <3>1. r \in 4 .. 54
      BY ONLY <1>2, <1>4, <2>2
    <3>2. Trans(Top(q), lhs(r)) # YYFINAL
      BY ONLY <1>8, <1>11
    <3>3. Accounts(Append(q, Trans(Top(q), lhs(r))), yychar, follow)
      BY <1>1, <1>2, <1>3, <1>6, <3>1, <3>2, FollowPart
    <3> QED BY ONLY <1>8, <3>3
  <2> QED BY <2>1, <2>2
<1> QED BY <1>7, <1>9, <1>10, <1>11, FollowPush

(* A query is returned behind the query and the semicolon of the sentence. *)
LEMMA FollowReturn ==
  ASSUME TypesInv, FollowInv, Reduce, At(yydefact, Top(yyss)) = 3
  PROVE  FollowInv'
<1>1. result = Running /\ IsPath(yyss) /\ ValuesFit(yyss, yyvs)
  BY StepsRun DEF TypesInv, TypeInv
<1>2. result'.node = "query" /\ follow' = follow /\ yychar' = yychar
  BY <1>1, ReduceReturns DEF Reduce
<1>3. PICK r : r = 3
  OBVIOUS
<1>4. PICK n : n = 3
  OBVIOUS
<1>5. /\ Len(yyss) = 4 /\ Len(rhs(r)) = n /\ <<r, Len(rhs(r))>> \in Items[Top(yyss)]
      /\ \A j \in 1 .. Len(rhs(r)) : rhs(r)[j] = Sym(yyss[Below(yyss, Len(rhs(r))) + j])
  <2>1. r # 0 /\ At(yydefact, Top(yyss)) = r
    BY <1>3
  <2>2. r = 3 => Len(yyss) = 4 /\ Len(rhs(r)) = 3
    BY <1>1, <2>1, Reduction
  <2>3. PICK m : m = Len(rhs(r))
    OBVIOUS
  <2>4. <<r, m>> \in Items[Top(yyss)]
    BY <1>1, <2>1, <2>3, Reduction
  <2>5. \A j \in 1 .. m : rhs(r)[j] = Sym(yyss[Below(yyss, m) + j])
    BY <1>1, <2>4, PathSymbols
  <2> QED BY ONLY <1>3, <1>4, <2>2, <2>3, <2>4, <2>5
<1>6. Sym(yyss[3]) = "query" /\ Sym(yyss[4]) = "SEMICOLON"
  <2>1. \A j \in 1 .. 3 : rhs(3)[j] = Sym(yyss[1 + j])
    <3>1. Len(rhs(r)) = 3 /\ 4 - 3 = 1
      BY ONLY <1>4, <1>5
    <3> QED BY ONLY <1>3, <1>5, <3>1 DEF Below
  <2>2. 2 \in 1 .. 3 /\ 3 \in 1 .. 3 /\ 1 + 2 = 3 /\ 1 + 3 = 4
    OBVIOUS
  <2>3. rhs(3)[2] = "query" /\ rhs(3)[3] = "SEMICOLON"
    BY RestOfInput
  <2> QED BY ONLY <2>1, <2>2, <2>3
<1>7. yychar = Empty
  <2>1. Len(yyss) # 1
    BY <1>5
  <2>2. At(yypact, Top(yyss)) = YYPACT_NINF
    BY <1>1, <2>1, TopState
  <2>3. Sym(Top(yyss)) = "SEMICOLON"
    BY ONLY <1>5, <1>6 DEF Top
  <2>4. "SEMICOLON" \in Tokens
    BY RestOfInput
  <2> QED BY <1>1, <2>2, <2>3, <2>4 DEF FollowInv, NotReadYet
<1>8. PICK F : History(yyss, F) /\ follow = F[4]
  BY <1>1, <1>5, <1>7 DEF FollowInv, Accounts
<1>9. /\ F[2] = Sentence /\ F[4] \in SUBSET Forms
      /\ Reaches(F[2], "query", F[3]) /\ Reaches(F[3], "SEMICOLON", F[4])
  <2>1. 4 # 1 /\ 4 \in 1 .. 4 /\ 2 \in 2 .. 4 - 1 /\ 3 \in 2 .. 4 - 1 /\ 2 + 1 = 3 /\ 3 + 1 = 4
    OBVIOUS
  <2>2. /\ F \in [1 .. 4 -> SUBSET Forms] /\ (4 # 1 => F[2] = Sentence)
        /\ \A i \in 2 .. 4 - 1 : Reaches(F[i], Sym(yyss[i + 1]), F[i + 1])
    BY <1>5, <1>8 DEF History
  <2>3. Reaches(F[2], Sym(yyss[2 + 1]), F[2 + 1]) /\ Reaches(F[3], Sym(yyss[3 + 1]), F[3 + 1])
    BY ONLY <2>1, <2>2
  <2> QED BY ONLY <1>6, <2>1, <2>2, <2>3
<1>10. PICK a \in Forms, e \in Forms :
         /\ e = <<>> /\ a = <<"SEMICOLON">> \o e /\ <<"query">> \o a \in Sentence
  <2>1. "SEMICOLON" \in Symbols
    BY RestOfInput DEF Symbols
  <2>2. <<"SEMICOLON">> \in Forms /\ <<"SEMICOLON">> \o <<>> = <<"SEMICOLON">> /\ <<>> \in Forms
    BY <2>1, SingleForm DEF Forms
  <2>3. <<"query">> \o <<"SEMICOLON">> = <<"query", "SEMICOLON">>
    BY TwoSymbols
  <2> QED BY <2>2, <2>3 DEF Sentence
<1>11. Leads(F[2], <<"query">> \o a)
  BY <1>9, <1>10, LeadsMember
<1>12. Leads(F[3], a)
  BY <1>9, <1>11 DEF Reaches
<1>13. Leads(F[4], e)
  <2>1. Leads(F[3], <<"SEMICOLON">> \o e)
    BY ONLY <1>10, <1>12
  <2> QED BY <1>9, <2>1 DEF Reaches
<1>14. <<>> \in Opened(F[4])
  <2>1. Opened({e}) = {<<>>}
    BY <1>10, OpenedEmpty
  <2> QED BY <1>13, <2>1 DEF Leads
<1>15. PICK f \in F[4] : <<>> \in Opened({f})
  BY <1>14, OpenedUnion
<1>16. f = <<>>
  <2>1. ASSUME f # <<>> PROVE FALSE
    <3>1. f \in Forms
      BY <1>9
    <3>2. PICK Y \in Symbols, d \in Forms : f = <<Y>> \o d
      BY <2>1, <3>1, FormSplit
    <3>3. PICK g : g = <<>> /\ g \in Opened({<<Y>> \o d})
      BY ONLY <1>15, <3>2
    <3> QED BY <3>3, OpenedBegins
  <2> QED BY <2>1
<1>17. <<>> \in follow /\ follow # {}
  BY <1>8, <1>15, <1>16
<1>18. result' # Running /\ result' # SyntaxError
  BY <1>2, ResultNodes
<1>19. yychar' = Empty
  BY ONLY <1>2, <1>7
<1> QED BY ONLY <1>2, <1>17, <1>18, <1>19 DEF FollowInv, ParsesTheGrammar, LeavesNoToken

(* A syntax error: what may follow begins with a token that the state      *)
(* expects, and this one is not.                                           *)
LEMMA FollowRefuse ==
  ASSUME TypesInv, FollowInv, Refuse
  PROVE  FollowInv'
<1>1. /\ result = Running /\ IsPath(yyss) /\ ValuesFit(yyss, yyvs)
      /\ yychar = Empty \/ TokenFits(yychar)
  BY StepsRun DEF TypesInv, TypeInv
<1>2. /\ result' = SyntaxError /\ yychar' = yychar /\ follow' = follow
      /\ At(yydefact, Top(yyss)) = 0
  BY <1>1, StateOfTop DEF Refuse, Return
<1>3. Len(yyss) # 1
  <2>1. Len(yyss) = 1 => At(yydefact, Top(yyss)) = 2
    BY <1>1, TopState
  <2> QED BY ONLY <1>2, <2>1
<1>4. yychar # Empty /\ TokenFits(yychar)
  <2>1. At(yypact, Top(yyss)) # YYPACT_NINF
    BY <1>1, <1>2, <1>3, TopState
  <2> QED BY <1>1, <2>1, StateOfTop DEF Refuse, Default, Decided
<1>5. PICK t \in Tokens : t = yychar.token
  BY <1>4 DEF TokenFits
<1>6. PICK F : /\ History(yyss, F) /\ follow = After(F[Len(yyss)], t)
               /\ \A g \in Opened(F[Len(yyss)]) :
                    g # <<>> /\ Head(g) = t => Explained(yyss, g)
  BY <1>1, <1>3, <1>4, <1>5 DEF FollowInv, Accounts
<1>7. follow = {}
  <2> SUFFICES ASSUME NEW a \in follow PROVE FALSE
    OBVIOUS
  <2>1. F[Len(yyss)] \in SUBSET Forms
    <3>1. Len(yyss) \in 1 .. Len(yyss)
      BY <1>1, PathStates
    <3> QED BY <1>6, <3>1 DEF History
  <2>2. a \in Forms /\ <<t>> \o a \in Opened(F[Len(yyss)])
    BY <1>6, <2>1, AfterForms
  <2>3. PICK g : g = <<t>> \o a
    OBVIOUS
  <2>4. g # <<>> /\ Head(g) = t
    BY <2>2, <2>3, FormCons DEF Symbols
  <2>5. Explained(yyss, g)
    BY <1>6, <2>2, <2>3, <2>4
  <2>6. Ends(yyss, g)
    BY <1>1, <1>3, <1>5, <2>4, <2>5, NotTaken DEF Refuse
  <2>7. At(yydefact, Top(yyss)) \in 3 .. 54
    BY <2>6, EndsReduces
  <2> QED BY ONLY <1>2, <2>7
<1>8. result' # Running /\ result'.node # "query"
  BY <1>2, ResultNodes
<1> QED BY <1>2, <1>4, <1>7, <1>8 DEF FollowInv, ParsesTheGrammar, LeavesNoToken

LEMMA FollowNext == TypesInv /\ FollowInv /\ [Next]_vars => FollowInv'
<1> SUFFICES ASSUME TypesInv, FollowInv, [Next]_vars PROVE FollowInv'
  OBVIOUS
<1>1. CASE ReadToken
  BY <1>1, FollowRead
<1>2. CASE Shift
  BY <1>2, FollowShift
<1>3. CASE Reduce
  BY <1>3, FollowReduce, FollowReturn
<1>4. CASE Refuse
  BY <1>4, FollowRefuse
<1>5. CASE UNCHANGED vars
  BY <1>5 DEF vars, FollowInv, ParsesTheGrammar, LeavesNoToken
<1> QED BY <1>1, <1>2, <1>3, <1>4, <1>5 DEF Next

LEMMA FollowInductive == Spec => []FollowInv
<1>1. Init => FollowInv
  BY FollowInit
<1>2. TypesInv /\ FollowInv /\ [Next]_vars => FollowInv'
  BY FollowNext
<1> QED BY <1>1, <1>2, TypeInductive, PTL DEF Spec

(* Whatever is typed, a query is returned for the sentences of the grammar *)
(* of aql.y only, and a syntax error is reported for nothing else and at   *)
(* the first token that cannot continue a sentence.                        *)
THEOREM ParserParsesTheGrammar == Spec => []ParsesTheGrammar
<1>1. FollowInv => ParsesTheGrammar
  BY DEF FollowInv
<1> QED BY <1>1, FollowInductive, PTL

(* The rule of the input is reduced as soon as the semicolon is shifted,   *)
(* without looking further: what is typed behind the first query is left   *)
(* for the next call of yyparse, however long the query.                   *)
THEOREM ParserLeavesNoToken == Spec => []LeavesNoToken
<1>1. FollowInv => LeavesNoToken
  BY DEF FollowInv
<1> QED BY <1>1, FollowInductive, PTL
=============================================================================
