------------------------------ MODULE CorpusProofs ------------------------------
(***************************************************************************)
(* Whatever the generator draws, what it lets out is what its text says,   *)
(* and so is its twin.                                                     *)
(***************************************************************************)
EXTENDS Corpus, Sums

\* Identifiers, and what a document of a sample may state.
Prefixes == {"DOC", "REC", "SUBJ", "NODE", "CHT"}
Id == {<<q, a, b, c>> : q \in Prefixes, a \in Letter, b \in Letter, c \in Letter}

FactSet == [says : {"fact"}, record : Id, about : Id, value : Nat]
ParaphraseSet == [says : {"paraphrase"}, about : Id, value : Nat]
EdgeSet == [says : {"supersedes"}, record : Id, over : Id]
RouteSet == [says : {"route"}, from : Id, to : Id]
Statement == FactSet \cup ParaphraseSet \cup EdgeSet \cup RouteSet

Document == [id : Id, cohort : Id \cup {NoCohort}, says : SUBSET Statement]

Renaming(p, k) == p \in Derangements /\ k \in Nat \ {0}

-----------------------------------------------------------------------------
(* Renaming is one to one, on letters, identifiers and statements.           *)

LEMMA RenameId ==
    ASSUME NEW p \in Derangements, NEW q \in Prefixes,
           NEW a \in Letter, NEW b \in Letter, NEW c \in Letter
    PROVE  /\ Rename(<<q, a, b, c>>, p) = <<q, p[a], p[b], p[c]>>
           /\ Rename(<<q, a, b, c>>, p) \in Id
<1>1. p[a] \in Letter /\ p[b] \in Letter /\ p[c] \in Letter
  BY DEF Derangements
<1>2. Rename(<<q, a, b, c>>, p) = <<q, p[a], p[b], p[c]>>
  BY DEF Rename
<1>3. QED BY <1>1, <1>2 DEF Id

LEMMA RenameType ==
    ASSUME NEW p \in Derangements, NEW x \in Id PROVE Rename(x, p) \in Id
  BY RenameId DEF Id

LEMMA RenameInjective ==
    ASSUME NEW p \in Derangements, NEW x \in Id, NEW y \in Id, Rename(x, p) = Rename(y, p)
    PROVE  x = y
<1>1. PICK q \in Prefixes, a \in Letter, b \in Letter, c \in Letter : x = <<q, a, b, c>>
  BY DEF Id
<1>2. PICK r \in Prefixes, d \in Letter, e \in Letter, f \in Letter : y = <<r, d, e, f>>
  BY DEF Id
<1>3. <<q, p[a], p[b], p[c]>> = <<r, p[d], p[e], p[f]>>
  BY <1>1, <1>2, RenameId
<1>4. q = r /\ p[a] = p[d] /\ p[b] = p[e] /\ p[c] = p[f]
  BY <1>3
<1>5. \A u, v \in Letter : p[u] = p[v] => u = v
  BY DEF Derangements, IsInjective
<1>6. QED BY <1>1, <1>2, <1>4, <1>5

LEMMA ScaleOrder ==
    ASSUME NEW k \in Nat \ {0}, NEW m \in Nat, NEW n \in Nat
    PROVE  /\ Scale(m, k) \in Nat
           /\ Scale(m, k) = Scale(n, k) => m = n
           /\ Scale(m, k) > Scale(n, k) <=> m > n
           /\ Scale(m, k) <= Scale(n, k) <=> m <= n
<1>1. m * k \in Nat /\ n * k \in Nat
  OBVIOUS
<1>2. ASSUME NEW u \in Nat, NEW v \in Nat, u < v PROVE u * k < v * k
  <2>1. PICK d \in Nat \ {0} : v = u + d
    <3>1. v - u \in Nat \ {0} /\ v = u + (v - u) BY <1>2
    <3>2. QED BY <3>1
  <2>2. v * k = u * k + d * k BY <2>1
  <2>3. PICK e \in Nat : d = e + 1
    <3>1. d - 1 \in Nat /\ d = (d - 1) + 1 OBVIOUS
    <3>2. QED BY <3>1
  <2>4. d * k = e * k + k BY <2>3
  <2>5. e * k \in Nat /\ u * k \in Nat /\ v * k \in Nat OBVIOUS
  <2>6. QED BY <2>2, <2>4, <2>5
<1>3. QED BY <1>1, <1>2 DEF Scale

LEMMA RewrittenFact ==
    ASSUME NEW p, NEW k, Renaming(p, k), NEW x \in FactSet
    PROVE  /\ RewrittenStatement(x, p, k) \in FactSet
           /\ RewrittenStatement(x, p, k).record = Rename(x.record, p)
           /\ RewrittenStatement(x, p, k).about = Rename(x.about, p)
           /\ RewrittenStatement(x, p, k).value = Scale(x.value, k)
<1>1. RewrittenStatement(x, p, k) =
        [says |-> "fact", record |-> Rename(x.record, p), about |-> Rename(x.about, p),
         value |-> Scale(x.value, k)]
  BY DEF RewrittenStatement, FactSet
<1>2. x.record \in Id /\ x.about \in Id /\ x.value \in Nat BY DEF FactSet
<1>3. Scale(x.value, k) \in Nat BY <1>2, ScaleOrder DEF Renaming
<1>4. Rename(x.record, p) \in Id /\ Rename(x.about, p) \in Id BY <1>2, RenameType DEF Renaming
<1>5. QED BY <1>1, <1>3, <1>4 DEF FactSet

LEMMA RewrittenParaphrase ==
    ASSUME NEW p, NEW k, Renaming(p, k), NEW x \in ParaphraseSet
    PROVE  /\ RewrittenStatement(x, p, k) \in ParaphraseSet
           /\ RewrittenStatement(x, p, k).about = Rename(x.about, p)
           /\ RewrittenStatement(x, p, k).value = Scale(x.value, k)
<1>1. RewrittenStatement(x, p, k) =
        [says |-> "paraphrase", about |-> Rename(x.about, p), value |-> Scale(x.value, k)]
  BY DEF RewrittenStatement, ParaphraseSet
<1>2. x.about \in Id /\ x.value \in Nat BY DEF ParaphraseSet
<1>3. Scale(x.value, k) \in Nat BY <1>2, ScaleOrder DEF Renaming
<1>4. Rename(x.about, p) \in Id BY <1>2, RenameType DEF Renaming
<1>5. QED BY <1>1, <1>3, <1>4 DEF ParaphraseSet

LEMMA RewrittenEdge ==
    ASSUME NEW p, NEW k, Renaming(p, k), NEW x \in EdgeSet
    PROVE  /\ RewrittenStatement(x, p, k) \in EdgeSet
           /\ RewrittenStatement(x, p, k).record = Rename(x.record, p)
           /\ RewrittenStatement(x, p, k).over = Rename(x.over, p)
<1>1. RewrittenStatement(x, p, k) =
        [says |-> "supersedes", record |-> Rename(x.record, p), over |-> Rename(x.over, p)]
  BY DEF RewrittenStatement, EdgeSet
<1>2. x.record \in Id /\ x.over \in Id BY DEF EdgeSet
<1>4. Rename(x.record, p) \in Id /\ Rename(x.over, p) \in Id BY <1>2, RenameType DEF Renaming
<1>5. QED BY <1>1, <1>4 DEF EdgeSet

LEMMA RewrittenRoute ==
    ASSUME NEW p, NEW k, Renaming(p, k), NEW x \in RouteSet
    PROVE  /\ RewrittenStatement(x, p, k) \in RouteSet
           /\ RewrittenStatement(x, p, k).from = Rename(x.from, p)
           /\ RewrittenStatement(x, p, k).to = Rename(x.to, p)
<1>1. RewrittenStatement(x, p, k) =
        [says |-> "route", from |-> Rename(x.from, p), to |-> Rename(x.to, p)]
  BY DEF RewrittenStatement, RouteSet
<1>2. x.from \in Id /\ x.to \in Id BY DEF RouteSet
<1>4. Rename(x.from, p) \in Id /\ Rename(x.to, p) \in Id BY <1>2, RenameType DEF Renaming
<1>5. QED BY <1>1, <1>4 DEF RouteSet

\* What a statement is does not change, and two are not made one.
LEMMA Says ==
    ASSUME NEW x \in Statement
    PROVE  /\ x.says = "fact" <=> x \in FactSet
           /\ x.says = "paraphrase" <=> x \in ParaphraseSet
           /\ x.says = "supersedes" <=> x \in EdgeSet
           /\ x.says = "route" <=> x \in RouteSet
           /\ x.says \in {"fact", "paraphrase", "supersedes", "route"}
  BY DEF Statement, FactSet, ParaphraseSet, EdgeSet, RouteSet

LEMMA RewrittenType ==
    ASSUME NEW p, NEW k, Renaming(p, k), NEW x \in Statement
    PROVE  RewrittenStatement(x, p, k) \in Statement /\ RewrittenStatement(x, p, k).says = x.says
<1>1. CASE x \in FactSet BY <1>1, RewrittenFact DEF Statement, FactSet
<1>2. CASE x \in ParaphraseSet BY <1>2, RewrittenParaphrase DEF Statement, ParaphraseSet
<1>3. CASE x \in EdgeSet BY <1>3, RewrittenEdge DEF Statement, EdgeSet
<1>4. CASE x \in RouteSet BY <1>4, RewrittenRoute DEF Statement, RouteSet
<1>5. QED BY <1>1, <1>2, <1>3, <1>4 DEF Statement

LEMMA RewrittenInjective ==
    ASSUME NEW p, NEW k, Renaming(p, k), NEW x \in Statement, NEW y \in Statement,
           RewrittenStatement(x, p, k) = RewrittenStatement(y, p, k)
    PROVE  x = y
<1>1. x.says = y.says BY RewrittenType
<1>2. \A i, j \in Id : Rename(i, p) = Rename(j, p) => i = j BY RenameInjective DEF Renaming
<1>3. \A m, n \in Nat : Scale(m, k) = Scale(n, k) => m = n BY ScaleOrder DEF Renaming
<1>4. CASE x \in FactSet
  <2>1. y \in FactSet BY <1>1, <1>4, Says
  <2>2. x.record = y.record /\ x.about = y.about /\ x.value = y.value
    BY <1>2, <1>3, <1>4, <2>1, RewrittenFact DEF FactSet
  <2>3. QED BY <1>4, <2>1, <2>2 DEF FactSet
<1>5. CASE x \in ParaphraseSet
  <2>1. y \in ParaphraseSet BY <1>1, <1>5, Says
  <2>2. x.about = y.about /\ x.value = y.value
    BY <1>2, <1>3, <1>5, <2>1, RewrittenParaphrase DEF ParaphraseSet
  <2>3. QED BY <1>5, <2>1, <2>2 DEF ParaphraseSet
<1>6. CASE x \in EdgeSet
  <2>1. y \in EdgeSet BY <1>1, <1>6, Says
  <2>2. x.record = y.record /\ x.over = y.over
    BY <1>2, <1>6, <2>1, RewrittenEdge DEF EdgeSet
  <2>3. QED BY <1>6, <2>1, <2>2 DEF EdgeSet
<1>7. CASE x \in RouteSet
  <2>1. y \in RouteSet BY <1>1, <1>7, Says
  <2>2. x.from = y.from /\ x.to = y.to
    BY <1>2, <1>7, <2>1, RewrittenRoute DEF RouteSet
  <2>3. QED BY <1>7, <2>1, <2>2 DEF RouteSet
<1>8. QED BY <1>4, <1>5, <1>6, <1>7 DEF Statement

-----------------------------------------------------------------------------
(* What a solver reads of the twin is what it reads of the sample, renamed.  *)

AnswerSet == {Number(n) : n \in Nat} \cup {Entity(i) : i \in Id}

WellFormed(s) ==
    /\ s.subject \in Id /\ s.threshold \in Nat
    /\ s.documents \subseteq Document /\ IsFiniteSet(s.documents)
    /\ IsFiniteSet(Facts(s)) /\ IsFiniteSet(Routes(s))
    /\ s.answer \in AnswerSet /\ s.distractors \subseteq AnswerSet
    /\ s.required \subseteq Id

FactTwin(x, p, k) == [doc |-> Rename(x.doc, p), fact |-> RewrittenStatement(x.fact, p, k)]
RouteTwin(x, p) == [doc |-> Rename(x.doc, p), from |-> Rename(x.from, p), to |-> Rename(x.to, p)]

LEMMA FactsIn ==
    ASSUME NEW s, NEW x
    PROVE  x \in Facts(s) <=>
             \E d \in s.documents : \E f \in d.says : f.says = "fact" /\ x = [doc |-> d.id, fact |-> f]
  BY DEF Facts

LEMMA EdgesIn ==
    ASSUME NEW s, NEW x
    PROVE  x \in Edges(s) <=> \E d \in s.documents : x \in d.says /\ x.says = "supersedes"
  BY DEF Edges

LEMMA RoutesIn ==
    ASSUME NEW s, NEW x
    PROVE  x \in Routes(s) <=>
             \E d \in s.documents : \E r \in d.says :
                r.says = "route" /\ x = [doc |-> d.id, from |-> r.from, to |-> r.to]
  BY DEF Routes

LEMMA FactsType ==
    ASSUME NEW s, s.documents \subseteq Document, NEW x \in Facts(s)
    PROVE  /\ x = [doc |-> x.doc, fact |-> x.fact] /\ x.doc \in Id /\ x.fact \in FactSet
           /\ x.fact.record \in Id /\ x.fact.about \in Id /\ x.fact.value \in Nat
<1>1. PICK d, f : d \in s.documents /\ f \in d.says /\ f.says = "fact" /\ x = [doc |-> d.id, fact |-> f]
  BY FactsIn
<1>2. d \in Document BY <1>1
<1>3. d.id \in Id /\ f \in Statement BY <1>1, <1>2 DEF Document
<1>4. f \in FactSet BY <1>1, <1>3, Says
<1>5. x.doc \in Id /\ x.fact \in FactSet /\ x = [doc |-> x.doc, fact |-> x.fact]
  BY <1>1, <1>3, <1>4
<1>6. QED BY <1>5 DEF FactSet

LEMMA RoutesType ==
    ASSUME NEW s, s.documents \subseteq Document, NEW x \in Routes(s)
    PROVE  x \in [doc : Id, from : Id, to : Id]
<1>1. PICK d, r : d \in s.documents /\ r \in d.says /\
        r.says = "route" /\ x = [doc |-> d.id, from |-> r.from, to |-> r.to]
  BY RoutesIn
<1>2. d \in Document BY <1>1
<1>3. d.id \in Id /\ r \in Statement BY <1>1, <1>2 DEF Document
<1>4. r \in RouteSet BY <1>1, <1>3, Says
<1>5. r.from \in Id /\ r.to \in Id BY <1>4 DEF RouteSet
<1>6. QED BY <1>1, <1>3, <1>5

LEMMA EdgesType ==
    ASSUME NEW s, s.documents \subseteq Document, NEW x \in Edges(s)
    PROVE  x \in EdgeSet
<1>1. PICK d \in s.documents : x \in d.says /\ x.says = "supersedes" BY EdgesIn
<1>2. d \in Document BY <1>1
<1>3. x \in Statement BY <1>1, <1>2 DEF Document
<1>4. QED BY <1>1, <1>3, Says

\* The documents of the twin, and what they state.
LEMMA TwinDocuments ==
    ASSUME NEW p, NEW k, Renaming(p, k), NEW s, s.documents \subseteq Document
    PROVE  /\ Rewritten(s, p, k).documents = {RewrittenDoc(d, p, k) : d \in s.documents}
           /\ \A d \in s.documents :
                /\ d.id \in Id /\ d.says \subseteq Statement
                /\ RewrittenDoc(d, p, k).id = Rename(d.id, p)
                /\ RewrittenDoc(d, p, k).says = {RewrittenStatement(x, p, k) : x \in d.says}
                /\ RewrittenDoc(d, p, k) \in Document
<1>1. Rewritten(s, p, k).documents = {RewrittenDoc(d, p, k) : d \in s.documents}
  BY DEF Rewritten
<1>2. ASSUME NEW d \in s.documents
      PROVE  /\ d.id \in Id /\ d.says \subseteq Statement
             /\ RewrittenDoc(d, p, k).id = Rename(d.id, p)
             /\ RewrittenDoc(d, p, k).says = {RewrittenStatement(x, p, k) : x \in d.says}
             /\ RewrittenDoc(d, p, k) \in Document
  <2>1. d.id \in Id /\ d.cohort \in Id \cup {NoCohort} /\ d.says \subseteq Statement BY DEF Document
  <2>2. {RewrittenStatement(x, p, k) : x \in d.says} \subseteq Statement BY <2>1, RewrittenType
  <2>3. Rename(d.id, p) \in Id BY <2>1, RenameType DEF Renaming
  <2>4. d.cohort # NoCohort => Rename(d.cohort, p) \in Id BY <2>1, RenameType DEF Renaming
  <2>5. QED BY <2>1, <2>2, <2>3, <2>4 DEF RewrittenDoc, Document
<1>3. QED BY <1>1, <1>2

LEMMA FactsTwin ==
    ASSUME NEW p, NEW k, Renaming(p, k), NEW s, s.documents \subseteq Document
    PROVE  Facts(Rewritten(s, p, k)) = {FactTwin(x, p, k) : x \in Facts(s)}
<1> DEFINE T == Rewritten(s, p, k)
           R(x) == RewrittenStatement(x, p, k)
<1>1. /\ T.documents = {RewrittenDoc(d, p, k) : d \in s.documents}
      /\ \A d \in s.documents : /\ d.says \subseteq Statement
                                /\ RewrittenDoc(d, p, k).id = Rename(d.id, p)
                                /\ RewrittenDoc(d, p, k).says = {R(x) : x \in d.says}
  <2>1. T.documents = {RewrittenDoc(d, p, k) : d \in s.documents} BY TwinDocuments
  <2>2. ASSUME NEW d \in s.documents
        PROVE  /\ d.says \subseteq Statement
               /\ RewrittenDoc(d, p, k).id = Rename(d.id, p)
               /\ RewrittenDoc(d, p, k).says = {R(x) : x \in d.says}
    BY TwinDocuments
  <2>3. QED BY <2>1, <2>2
<1>2. \A x \in Statement : R(x).says = x.says BY RewrittenType
<1> HIDE DEF T, R
<1>3. ASSUME NEW y \in Facts(T) PROVE y \in {FactTwin(x, p, k) : x \in Facts(s)}
  <2>1. PICK e, f : e \in T.documents /\ f \in e.says /\ f.says = "fact" /\ y = [doc |-> e.id, fact |-> f]
    BY <1>3, FactsIn
  <2>2. PICK d \in s.documents : e = RewrittenDoc(d, p, k) BY <1>1, <2>1
  <2>3. PICK x \in d.says : f = R(x) BY <1>1, <2>1, <2>2
  <2>4. x.says = "fact" BY <1>1, <1>2, <2>1, <2>3
  <2>5. [doc |-> d.id, fact |-> x] \in Facts(s) BY <2>3, <2>4, FactsIn
  <2>6. y = FactTwin([doc |-> d.id, fact |-> x], p, k)
    BY <1>1, <2>1, <2>2, <2>3 DEF FactTwin, R
  <2>7. QED BY <2>5, <2>6
<1>4. ASSUME NEW x \in Facts(s) PROVE FactTwin(x, p, k) \in Facts(T)
  <2>1. PICK d, f : d \in s.documents /\ f \in d.says /\ f.says = "fact" /\ x = [doc |-> d.id, fact |-> f]
    BY <1>4, FactsIn
  <2> DEFINE e == RewrittenDoc(d, p, k)
  <2>2. e \in T.documents /\ R(f) \in e.says /\ e.id = Rename(d.id, p) BY <1>1, <2>1
  <2>3. R(f).says = "fact" BY <1>1, <1>2, <2>1
  <2>4. FactTwin(x, p, k) = [doc |-> e.id, fact |-> R(f)] BY <2>1, <2>2 DEF FactTwin, R
  <2> HIDE DEF e
  <2>5. QED BY <2>2, <2>3, <2>4, FactsIn
<1>5. QED BY <1>3, <1>4 DEF T

LEMMA EdgesTwin ==
    ASSUME NEW p, NEW k, Renaming(p, k), NEW s, s.documents \subseteq Document
    PROVE  Edges(Rewritten(s, p, k)) = {RewrittenStatement(x, p, k) : x \in Edges(s)}
<1> DEFINE T == Rewritten(s, p, k)
           R(x) == RewrittenStatement(x, p, k)
<1>1. /\ T.documents = {RewrittenDoc(d, p, k) : d \in s.documents}
      /\ \A d \in s.documents : /\ d.says \subseteq Statement
                                /\ RewrittenDoc(d, p, k).id = Rename(d.id, p)
                                /\ RewrittenDoc(d, p, k).says = {R(x) : x \in d.says}
  <2>1. T.documents = {RewrittenDoc(d, p, k) : d \in s.documents} BY TwinDocuments
  <2>2. ASSUME NEW d \in s.documents
        PROVE  /\ d.says \subseteq Statement
               /\ RewrittenDoc(d, p, k).id = Rename(d.id, p)
               /\ RewrittenDoc(d, p, k).says = {R(x) : x \in d.says}
    BY TwinDocuments
  <2>3. QED BY <2>1, <2>2
<1>2. \A x \in Statement : R(x).says = x.says BY RewrittenType
<1> HIDE DEF T, R
<1>3. ASSUME NEW y \in Edges(T) PROVE y \in {R(x) : x \in Edges(s)}
  <2>1. PICK e \in T.documents : y \in e.says /\ y.says = "supersedes" BY <1>3, EdgesIn
  <2>2. PICK d \in s.documents : e = RewrittenDoc(d, p, k) BY <1>1, <2>1
  <2>3. PICK x \in d.says : y = R(x) BY <1>1, <2>1, <2>2
  <2>4. x.says = "supersedes" BY <1>1, <1>2, <2>1, <2>3
  <2>5. x \in Edges(s) BY <2>3, <2>4, EdgesIn
  <2>6. QED BY <2>3, <2>5
<1>4. ASSUME NEW x \in Edges(s) PROVE R(x) \in Edges(T)
  <2>1. PICK d \in s.documents : x \in d.says /\ x.says = "supersedes" BY <1>4, EdgesIn
  <2>2. RewrittenDoc(d, p, k) \in T.documents /\ R(x) \in RewrittenDoc(d, p, k).says BY <1>1, <2>1
  <2>3. R(x).says = "supersedes" BY <1>1, <1>2, <2>1
  <2>4. QED BY <2>2, <2>3, EdgesIn
<1>5. QED BY <1>3, <1>4 DEF T, R

LEMMA RoutesTwin ==
    ASSUME NEW p, NEW k, Renaming(p, k), NEW s, s.documents \subseteq Document
    PROVE  Routes(Rewritten(s, p, k)) = {RouteTwin(x, p) : x \in Routes(s)}
<1> DEFINE T == Rewritten(s, p, k)
           R(x) == RewrittenStatement(x, p, k)
<1>1. /\ T.documents = {RewrittenDoc(d, p, k) : d \in s.documents}
      /\ \A d \in s.documents : /\ d.says \subseteq Statement
                                /\ RewrittenDoc(d, p, k).id = Rename(d.id, p)
                                /\ RewrittenDoc(d, p, k).says = {R(x) : x \in d.says}
  <2>1. T.documents = {RewrittenDoc(d, p, k) : d \in s.documents} BY TwinDocuments
  <2>2. ASSUME NEW d \in s.documents
        PROVE  /\ d.says \subseteq Statement
               /\ RewrittenDoc(d, p, k).id = Rename(d.id, p)
               /\ RewrittenDoc(d, p, k).says = {R(x) : x \in d.says}
    BY TwinDocuments
  <2>3. QED BY <2>1, <2>2
<1>2. \A x \in Statement : R(x).says = x.says BY RewrittenType
<1>6. ASSUME NEW x \in Statement, x.says = "route"
      PROVE  R(x).from = Rename(x.from, p) /\ R(x).to = Rename(x.to, p)
  BY <1>6, RewrittenRoute, Says
<1> HIDE DEF T, R
<1>3. ASSUME NEW y \in Routes(T) PROVE y \in {RouteTwin(x, p) : x \in Routes(s)}
  <2>1. PICK e, f : e \in T.documents /\ f \in e.says /\
          f.says = "route" /\ y = [doc |-> e.id, from |-> f.from, to |-> f.to]
    BY <1>3, RoutesIn
  <2>2. PICK d \in s.documents : e = RewrittenDoc(d, p, k) BY <1>1, <2>1
  <2>3. PICK x \in d.says : f = R(x) BY <1>1, <2>1, <2>2
  <2>4. x.says = "route" /\ x \in Statement BY <1>1, <1>2, <2>1, <2>3
  <2>5. [doc |-> d.id, from |-> x.from, to |-> x.to] \in Routes(s) BY <2>3, <2>4, RoutesIn
  <2>6. y = RouteTwin([doc |-> d.id, from |-> x.from, to |-> x.to], p)
    BY <1>1, <1>6, <2>1, <2>2, <2>3, <2>4 DEF RouteTwin
  <2>7. QED BY <2>5, <2>6
<1>4. ASSUME NEW x \in Routes(s) PROVE RouteTwin(x, p) \in Routes(T)
  <2>1. PICK d, f : d \in s.documents /\ f \in d.says /\
          f.says = "route" /\ x = [doc |-> d.id, from |-> f.from, to |-> f.to]
    BY <1>4, RoutesIn
  <2> DEFINE e == RewrittenDoc(d, p, k)
  <2>2. e \in T.documents /\ R(f) \in e.says /\ e.id = Rename(d.id, p) BY <1>1, <2>1
  <2>3. R(f).says = "route" /\ f \in Statement BY <1>1, <1>2, <2>1
  <2>4. RouteTwin(x, p) = [doc |-> e.id, from |-> R(f).from, to |-> R(f).to]
    BY <1>6, <2>1, <2>2, <2>3 DEF RouteTwin
  <2> HIDE DEF e
  <2>5. QED BY <2>2, <2>3, <2>4, RoutesIn
<1>5. QED BY <1>3, <1>4 DEF T

LEMMA FactTwinOf ==
    ASSUME NEW p, NEW k, Renaming(p, k), NEW s, s.documents \subseteq Document, NEW x \in Facts(s)
    PROVE  /\ FactTwin(x, p, k).doc = Rename(x.doc, p)
           /\ FactTwin(x, p, k).fact.record = Rename(x.fact.record, p)
           /\ FactTwin(x, p, k).fact.about = Rename(x.fact.about, p)
           /\ FactTwin(x, p, k).fact.value = Scale(x.fact.value, k)
  BY FactsType, RewrittenFact DEF FactTwin

LEMMA FactTwinInjective ==
    ASSUME NEW p, NEW k, Renaming(p, k), NEW s, s.documents \subseteq Document,
           NEW x \in Facts(s), NEW y \in Facts(s), FactTwin(x, p, k) = FactTwin(y, p, k)
    PROVE  x = y
<1>1. /\ x = [doc |-> x.doc, fact |-> x.fact] /\ x.doc \in Id /\ x.fact \in FactSet
      /\ y = [doc |-> y.doc, fact |-> y.fact] /\ y.doc \in Id /\ y.fact \in FactSet
  BY FactsType
<1>2. Rename(x.doc, p) = Rename(y.doc, p)
      /\ RewrittenStatement(x.fact, p, k) = RewrittenStatement(y.fact, p, k)
  BY DEF FactTwin
<1>3. x.doc = y.doc BY <1>1, <1>2, RenameInjective DEF Renaming
<1>4. x.fact = y.fact BY <1>1, <1>2, RewrittenInjective DEF Statement
<1>5. QED BY <1>1, <1>3, <1>4

\* A set of facts has as many in the twin.
LEMMA FactTwinCardinality ==
    ASSUME NEW p, NEW k, Renaming(p, k), NEW s, s.documents \subseteq Document,
           NEW A \in SUBSET Facts(s), IsFiniteSet(A)
    PROVE  Cardinality({FactTwin(x, p, k) : x \in A}) = Cardinality(A)
<1> DEFINE f == [x \in A |-> FactTwin(x, p, k)]
<1>1. \A x, y \in A : f[x] = f[y] => x = y BY FactTwinInjective
<1>2. {f[x] : x \in A} = {FactTwin(x, p, k) : x \in A} OBVIOUS
<1> HIDE DEF f
<1>3. QED BY <1>1, <1>2, ImageCardinality

LEMMA AboutTwin ==
    ASSUME NEW p, NEW k, Renaming(p, k), NEW s, s.documents \subseteq Document, NEW id \in Id
    PROVE  About(Rewritten(s, p, k), Rename(id, p)) = {FactTwin(x, p, k) : x \in About(s, id)}
<1>1. Facts(Rewritten(s, p, k)) = {FactTwin(x, p, k) : x \in Facts(s)} BY FactsTwin
<1>2. \A x \in Facts(s) : (FactTwin(x, p, k).fact.about = Rename(id, p)) <=> (x.fact.about = id)
  <2> TAKE x \in Facts(s)
  <2>1. FactTwin(x, p, k).fact.about = Rename(x.fact.about, p) /\ x.fact.about \in Id
    BY FactTwinOf, FactsType
  <2>2. QED BY <2>1, RenameInjective DEF Renaming
<1>3. QED BY <1>1, <1>2 DEF About

SolutionTwin(x, family, p, k) ==
    Solution(RewrittenAnswer(x.answer, family, p, k), {Rename(d, p) : d \in x.evidence})

LEMMA NumberTwin ==
    ASSUME NEW p, NEW k, NEW n \in Nat, NEW family \in {"needle", "supersession", "multi_hop"}
    PROVE  RewrittenAnswer(Number(n), family, p, k) = Number(Scale(n, k))
  BY DEF RewrittenAnswer, Number

LEMMA NeedleTwin ==
    ASSUME NEW p, NEW k, Renaming(p, k), NEW s, WellFormed(s)
    PROVE  SolvedNeedle(Rewritten(s, p, k)) = {SolutionTwin(x, "needle", p, k) : x \in SolvedNeedle(s)}
<1> DEFINE T == Rewritten(s, p, k)
           F(x) == FactTwin(x, p, k)
           hits == About(s, s.subject)
           hitsT == About(T, T.subject)
<1>1. T.subject = Rename(s.subject, p) /\ s.subject \in Id /\ s.documents \subseteq Document
  BY DEF Rewritten, WellFormed
<1>2. hitsT = {F(x) : x \in hits} BY <1>1, AboutTwin
<1>3. hits \subseteq Facts(s) /\ IsFiniteSet(hits) BY FS_Subset DEF About, WellFormed
<1>4. Cardinality(hitsT) = Cardinality(hits) BY <1>1, <1>2, <1>3, FactTwinCardinality
<1>5. \A x \in hits : /\ SolutionTwin(Solution(Number(x.fact.value), {x.doc}), "needle", p, k)
                           = Solution(Number(F(x).fact.value), {F(x).doc})
  <2> TAKE x \in hits
  <2>1. x.fact.value \in Nat BY <1>1, <1>3, FactsType
  <2>2. RewrittenAnswer(Number(x.fact.value), "needle", p, k) = Number(F(x).fact.value)
    BY <1>1, <1>3, <2>1, NumberTwin, FactTwinOf
  <2>3. {Rename(d, p) : d \in {x.doc}} = {F(x).doc} BY <1>1, <1>3, FactTwinOf
  <2>4. QED BY <2>2, <2>3 DEF SolutionTwin, Solution
<1>6. SolvedNeedle(s) = {Solution(Number(x.fact.value), {x.doc}) : x \in {g \in hits : Cardinality(hits) = 1}}
  BY DEF SolvedNeedle
<1>7. SolvedNeedle(T) = {Solution(Number(x.fact.value), {x.doc}) : x \in {g \in hitsT : Cardinality(hitsT) = 1}}
  BY DEF SolvedNeedle
<1> HIDE DEF F, hits, hitsT
<1>8. CASE Cardinality(hits) = 1
  <2> DEFINE G(x) == Solution(Number(x.fact.value), {x.doc})
             S(x) == SolutionTwin(x, "needle", p, k)
  <2>1. /\ SolvedNeedle(s) = {G(x) : x \in hits}
        /\ SolvedNeedle(T) = {G(x) : x \in hitsT}
    BY <1>4, <1>6, <1>7, <1>8
  <2>2. \A x \in hits : S(G(x)) = G(F(x)) BY <1>5
  <2> HIDE DEF T, G, S
  <2>3. SolvedNeedle(T) = {S(x) : x \in SolvedNeedle(s)} BY <1>2, <2>1, <2>2
  <2>4. QED BY <2>3 DEF T, S
<1>9. CASE Cardinality(hits) # 1
  <2>1. SolvedNeedle(s) = {} /\ SolvedNeedle(T) = {} BY <1>4, <1>6, <1>7, <1>9
  <2>2. QED BY <2>1
<1>10. QED BY <1>8, <1>9

LEMMA SupersessionTwin ==
    ASSUME NEW p, NEW k, Renaming(p, k), NEW s, WellFormed(s)
    PROVE  SolvedSupersession(Rewritten(s, p, k))
             = {SolutionTwin(x, "supersession", p, k) : x \in SolvedSupersession(s)}
<1> DEFINE T == Rewritten(s, p, k)
           F(x) == FactTwin(x, p, k)
           R(e) == RewrittenStatement(e, p, k)
           N(i) == Rename(i, p)
           mine == About(s, s.subject)
           mineT == About(T, T.subject)
           records == {f.fact.record : f \in mine}
           recordsT == {f.fact.record : f \in mineT}
           touch == {x \in Edges(s) : {x.record, x.over} \cap records # {}}
           touchT == {x \in Edges(T) : {x.record, x.over} \cap recordsT # {}}
           over == {e.over : e \in touch}
           overT == {e.over : e \in touchT}
           current == {f \in mine : f.fact.record \notin over}
           currentT == {f \in mineT : f.fact.record \notin overT}
<1>1. T.subject = Rename(s.subject, p) /\ s.subject \in Id /\ s.documents \subseteq Document
  BY DEF Rewritten, WellFormed
<1>2. mineT = {F(x) : x \in mine} BY <1>1, AboutTwin
<1>3. mine \subseteq Facts(s) /\ IsFiniteSet(mine) BY FS_Subset DEF About, WellFormed
<1>4. \A x \in mine : /\ F(x).fact.record = N(x.fact.record) /\ x.fact.record \in Id
                      /\ F(x).doc = N(x.doc) /\ F(x).fact.value = Scale(x.fact.value, k)
                      /\ x.fact.value \in Nat
  BY <1>1, <1>3, FactTwinOf, FactsType
<1>5. recordsT = {N(r) : r \in records} /\ records \subseteq Id
  <2> HIDE DEF F, N, mine, mineT
  <2>1. QED BY <1>2, <1>4
<1>6. \A i, j \in Id : N(i) = N(j) => i = j BY RenameInjective DEF Renaming
<1>7. Edges(T) = {R(x) : x \in Edges(s)} BY <1>1, EdgesTwin
<1>8. \A x \in Edges(s) : /\ R(x).record = N(x.record) /\ R(x).over = N(x.over)
                          /\ x.record \in Id /\ x.over \in Id
  <2> TAKE x \in Edges(s)
  <2>1. x \in EdgeSet BY <1>1, EdgesType
  <2>2. QED BY <2>1, RewrittenEdge DEF EdgeSet
<1>9. touchT = {R(x) : x \in touch}
  <2>1. \A x \in Edges(s) : ({R(x).record, R(x).over} \cap recordsT # {})
                              <=> ({x.record, x.over} \cap records # {})
    <3> TAKE x \in Edges(s)
    <3>1. \A i \in Id : N(i) \in recordsT <=> i \in records
      <4> HIDE DEF N, records, recordsT
      <4>1. QED BY <1>5, <1>6
    <3> DEFINE a == x.record
               b == x.over
    <3>2. a \in Id /\ b \in Id /\ R(x).record = N(a) /\ R(x).over = N(b) BY <1>8
    <3> HIDE DEF recordsT, records, a, b
    <3>3. (N(a) \in recordsT <=> a \in records) /\ (N(b) \in recordsT <=> b \in records) BY <3>1, <3>2
    <3>4. ({N(a), N(b)} \cap recordsT # {}) <=> ({a, b} \cap records # {}) BY <3>3
    <3>5. QED BY <3>2, <3>4 DEF a, b
  <2> HIDE DEF R, N, records, recordsT
  <2>2. QED BY <1>7, <2>1
<1>10. overT = {N(i) : i \in over} /\ over \subseteq Id
  <2>1. touch \subseteq Edges(s) OBVIOUS
  <2> HIDE DEF R, N, touch, touchT
  <2>2. QED BY <1>8, <1>9, <2>1
<1>11. currentT = {F(x) : x \in current}
  <2>1. \A i \in Id : N(i) \in overT <=> i \in over
    <3> HIDE DEF N, over, overT
    <3>1. QED BY <1>6, <1>10
  <2> HIDE DEF F, N, mine, mineT, over, overT
  <2>2. QED BY <1>2, <1>4, <2>1
<1>12. Cardinality(currentT) = Cardinality(current)
  <2>1. current \in SUBSET Facts(s) /\ IsFiniteSet(current)
    <3>1. current \in SUBSET mine OBVIOUS
    <3> HIDE DEF current
    <3>2. QED BY <1>3, <3>1, FS_Subset
  <2> HIDE DEF current, currentT
  <2>2. QED BY <1>1, <1>11, <2>1, FactTwinCardinality
<1> DEFINE docs == {g.doc : g \in mine}
           docsT == {g.doc : g \in mineT}
<1>13. docsT = {N(d) : d \in docs}
  <2> HIDE DEF F, N, mine, mineT
  <2>1. QED BY <1>2, <1>4
<1>14. \A x \in current : SolutionTwin(Solution(Number(x.fact.value), docs), "supersession", p, k)
                            = Solution(Number(F(x).fact.value), docsT)
  <2> TAKE x \in current
  <2>1. x.fact.value \in Nat /\ F(x).fact.value = Scale(x.fact.value, k) BY <1>4
  <2>2. RewrittenAnswer(Number(x.fact.value), "supersession", p, k) = Number(F(x).fact.value)
    BY <2>1, NumberTwin
  <2> HIDE DEF docs, docsT, F
  <2>4. QED BY <1>13, <2>2 DEF SolutionTwin, Solution
<1>15. SolvedSupersession(s) = {Solution(Number(f.fact.value), docs) :
           f \in {h \in current : Cardinality(current) = 1}}
  BY DEF SolvedSupersession
<1>16. SolvedSupersession(T) = {Solution(Number(f.fact.value), docsT) :
           f \in {h \in currentT : Cardinality(currentT) = 1}}
  BY DEF SolvedSupersession
<1> HIDE DEF T, F, current, currentT, docs, docsT
<1>17. QED BY <1>11, <1>12, <1>14, <1>15, <1>16 DEF T

LEMMA CohortTwin ==
    ASSUME NEW p, NEW k, Renaming(p, k), NEW s, WellFormed(s)
    PROVE  /\ CohortDocs(Rewritten(s, p, k)) = {Rename(d, p) : d \in CohortDocs(s)}
           /\ CohortDocs(s) \subseteq Id
           /\ CohortFacts(Rewritten(s, p, k)) = {FactTwin(x, p, k) : x \in CohortFacts(s)}
           /\ CohortFacts(s) \subseteq Facts(s) /\ IsFiniteSet(CohortFacts(s))
<1> DEFINE T == Rewritten(s, p, k)
<1>1. T.subject = Rename(s.subject, p) /\ s.subject \in Id /\ s.documents \subseteq Document
  BY DEF Rewritten, WellFormed
<1>2. /\ T.documents = {RewrittenDoc(d, p, k) : d \in s.documents}
      /\ \A d \in s.documents : d.id \in Id /\ RewrittenDoc(d, p, k).id = Rename(d.id, p)
  <2>1. T.documents = {RewrittenDoc(d, p, k) : d \in s.documents} BY <1>1, TwinDocuments
  <2>2. ASSUME NEW d \in s.documents PROVE d.id \in Id /\ RewrittenDoc(d, p, k).id = Rename(d.id, p)
    BY <1>1, TwinDocuments
  <2>3. QED BY <2>1, <2>2
<1>3. \A d \in s.documents : (RewrittenDoc(d, p, k).cohort = T.subject) <=> (d.cohort = s.subject)
  <2> TAKE d \in s.documents
  <2>1. d.cohort \in Id \cup {NoCohort} BY <1>1 DEF Document
  <2>2. NoCohort \notin Id BY DEF NoCohort, Id
  <2>3. RewrittenDoc(d, p, k).cohort = IF d.cohort = NoCohort THEN NoCohort ELSE Rename(d.cohort, p)
    BY DEF RewrittenDoc
  <2>4. Rename(s.subject, p) \in Id BY <1>1, RenameType DEF Renaming
  <2>5. QED BY <1>1, <2>1, <2>2, <2>3, <2>4, RenameInjective DEF Renaming
<1> HIDE DEF T
<1>4. CohortDocs(T) = {Rename(d, p) : d \in CohortDocs(s)} /\ CohortDocs(s) \subseteq Id
  BY <1>2, <1>3 DEF CohortDocs
<1>5. Facts(T) = {FactTwin(x, p, k) : x \in Facts(s)} BY <1>1, FactsTwin DEF T
<1>6. \A x \in Facts(s) : FactTwin(x, p, k).doc \in CohortDocs(T) <=> x.doc \in CohortDocs(s)
  <2> TAKE x \in Facts(s)
  <2>1. FactTwin(x, p, k).doc = Rename(x.doc, p) /\ x.doc \in Id BY <1>1, FactTwinOf, FactsType
  <2>2. \A d \in CohortDocs(s) : Rename(d, p) = Rename(x.doc, p) => d = x.doc
    BY <1>4, <2>1, RenameInjective DEF Renaming
  <2>3. QED BY <1>4, <2>1, <2>2
<1>7. CohortFacts(T) = {FactTwin(x, p, k) : x \in CohortFacts(s)} BY <1>5, <1>6 DEF CohortFacts
<1>8. CohortFacts(s) \subseteq Facts(s) BY DEF CohortFacts
<1>9. IsFiniteSet(CohortFacts(s)) BY <1>8, FS_Subset DEF WellFormed
<1>10. QED BY <1>4, <1>7, <1>8, <1>9 DEF T

LEMMA CountTwin ==
    ASSUME NEW p, NEW k, Renaming(p, k), NEW s, WellFormed(s)
    PROVE  SolvedCount(Rewritten(s, p, k))
             = {SolutionTwin(x, "aggregate_count", p, k) : x \in SolvedCount(s)}
<1> DEFINE T == Rewritten(s, p, k)
           F(x) == FactTwin(x, p, k)
           above == {f \in CohortFacts(s) : f.fact.value > s.threshold}
           aboveT == {f \in CohortFacts(T) : f.fact.value > T.threshold}
<1>1. T.threshold = Scale(s.threshold, k) /\ s.threshold \in Nat /\ s.documents \subseteq Document
  BY DEF Rewritten, WellFormed
<1>2. /\ CohortDocs(T) = {Rename(d, p) : d \in CohortDocs(s)}
      /\ CohortFacts(T) = {F(x) : x \in CohortFacts(s)}
      /\ CohortFacts(s) \subseteq Facts(s) /\ IsFiniteSet(CohortFacts(s))
  BY CohortTwin
<1>3. \A x \in CohortFacts(s) : F(x).fact.value > T.threshold <=> x.fact.value > s.threshold
  <2> TAKE x \in CohortFacts(s)
  <2>1. F(x).fact.value = Scale(x.fact.value, k) /\ x.fact.value \in Nat
    BY <1>1, <1>2, FactTwinOf, FactsType
  <2>2. QED BY <1>1, <2>1, ScaleOrder DEF Renaming
<1>4. aboveT = {F(x) : x \in above}
  <2> HIDE DEF T, F
  <2>1. QED BY <1>2, <1>3
<1>5. above \in SUBSET Facts(s) /\ IsFiniteSet(above)
  <2>1. above \in SUBSET CohortFacts(s) OBVIOUS
  <2> HIDE DEF above
  <2>2. QED BY <1>2, <2>1, FS_Subset
<1>6. Cardinality(aboveT) = Cardinality(above)
  <2> HIDE DEF above, aboveT
  <2>1. QED BY <1>1, <1>4, <1>5, FactTwinCardinality
<1> DEFINE n == Cardinality(above)
<1>7. SolvedCount(s) = {Solution(Number(n), CohortDocs(s))}
      /\ SolvedCount(T) = {Solution(Number(n), CohortDocs(T))}
  BY <1>6 DEF SolvedCount
<1>8. SolutionTwin(Solution(Number(n), CohortDocs(s)), "aggregate_count", p, k)
        = Solution(Number(n), CohortDocs(T))
  <2> HIDE DEF n, T
  <2>1. RewrittenAnswer(Number(n), "aggregate_count", p, k) = Number(n)
    BY DEF RewrittenAnswer, Number
  <2>2. QED BY <1>2, <2>1 DEF SolutionTwin, Solution
<1> HIDE DEF n, T
<1>9. QED BY <1>7, <1>8 DEF T

\* What a subject holds, as a sum of a function.
Holdings(A) == [f \in A |-> f.fact.value]

LEMMA TotalOfIs ==
    ASSUME NEW A, IsFiniteSet(A)
    PROVE  MapThenSumSet(LAMBDA f : f.fact.value, A) = Total(Holdings(A), A)
<1> DEFINE w == Holdings(A)
           P(g) == g = [s \in SUBSET A |->
                          IF s = {} THEN 0 ELSE First(s).fact.value + g[s \ {First(s)}]]
           h == CHOOSE g : P(g)
<1>1. \A s \in SUBSET A : s # {} => w[First(s)] = First(s).fact.value
  BY FirstIn DEF Holdings
<1> HIDE DEF w
<1>2. \A g : P(g) <=> AddsUp(g, w, A)
  <2> TAKE g
  <2>1. [s \in SUBSET A |-> IF s = {} THEN 0 ELSE First(s).fact.value + g[s \ {First(s)}]]
          = [s \in SUBSET A |-> IF s = {} THEN 0 ELSE w[First(s)] + g[s \ {First(s)}]]
    BY <1>1
  <2>2. QED BY <2>1 DEF AddsUp
<1>3. P(h) BY <1>2, AddsUpExists
<1>4. AddsUp(h, w, A) BY <1>2, <1>3
<1>5. MapThenSumSet(LAMBDA f : f.fact.value, A) = h[A]
  BY DEF MapThenSumSet, MapThenFoldSet, First
<1>6. PICK g : AddsUp(g, w, A) /\ Total(w, A) = g[A] BY TotalAddsUp
<1>7. A \in SUBSET (A \cap A) OBVIOUS
<1> HIDE DEF h, P
<1>8. h[A] = g[A] BY <1>4, <1>6, <1>7, AddsUpAgree
<1>9. QED BY <1>5, <1>6, <1>8 DEF w

LEMMA TotalTwin ==
    ASSUME NEW p, NEW k, Renaming(p, k), NEW s, WellFormed(s), NEW x \in Id
    PROVE  /\ TotalOf(s, x) \in Nat
           /\ TotalOf(Rewritten(s, p, k), Rename(x, p)) = Scale(TotalOf(s, x), k)
<1> DEFINE T == Rewritten(s, p, k)
           F(y) == FactTwin(y, p, k)
           A == {f \in CohortFacts(s) : f.fact.about = x}
           B == {f \in CohortFacts(T) : f.fact.about = Rename(x, p)}
<1>1. s.documents \subseteq Document BY DEF WellFormed
<1>2. /\ CohortFacts(T) = {F(y) : y \in CohortFacts(s)}
      /\ CohortFacts(s) \subseteq Facts(s) /\ IsFiniteSet(CohortFacts(s))
  BY CohortTwin
<1>3. \A y \in CohortFacts(s) : F(y).fact.about = Rename(x, p) <=> y.fact.about = x
  <2> TAKE y \in CohortFacts(s)
  <2>1. F(y).fact.about = Rename(y.fact.about, p) /\ y.fact.about \in Id
    BY <1>1, <1>2, FactTwinOf, FactsType
  <2>2. QED BY <2>1, RenameInjective DEF Renaming
<1>4. B = {F(y) : y \in A}
  <2> HIDE DEF T, F
  <2>1. QED BY <1>2, <1>3
<1>5. A \in SUBSET CohortFacts(s) /\ IsFiniteSet(A)
  <2>1. A \in SUBSET CohortFacts(s) OBVIOUS
  <2> HIDE DEF A
  <2>2. QED BY <1>2, <2>1, FS_Subset
<1> DEFINE f == [y \in A |-> F(y)]
<1>6. \A y, z \in A : f[y] = f[z] => y = z BY <1>1, <1>2, FactTwinInjective
<1>7. B = {f[y] : y \in A} BY <1>4
<1>8. k \in Nat BY DEF Renaming
<1>9. \A y \in A : Holdings(A)[y] \in Nat /\ Holdings(B)[f[y]] = Holdings(A)[y] * k
  <2> TAKE y \in A
  <2>1. y \in Facts(s) BY <1>2
  <2>2. y.fact.value \in Nat /\ F(y).fact.value = Scale(y.fact.value, k)
    BY <1>1, <2>1, FactTwinOf, FactsType
  <2>3. F(y) \in B BY <1>4
  <2>4. QED BY <2>2, <2>3 DEF Holdings, Scale
<1>10. TotalOf(s, x) = Total(Holdings(A), A)
  <2>1. TotalOf(s, x) = MapThenSumSet(LAMBDA g : g.fact.value, A) BY DEF TotalOf
  <2> HIDE DEF A
  <2>2. QED BY <1>5, <2>1, TotalOfIs
<1>11. IsFiniteSet(B)
  <2> HIDE DEF A, B, f
  <2>1. QED BY <1>5, <1>7, ImageFinite
<1>12. TotalOf(T, Rename(x, p)) = Total(Holdings(B), B)
  <2>1. TotalOf(T, Rename(x, p)) = MapThenSumSet(LAMBDA g : g.fact.value, B) BY DEF TotalOf
  <2> HIDE DEF B
  <2>2. QED BY <1>11, <2>1, TotalOfIs
<1> HIDE DEF A, B, f, T
<1>13. Total(Holdings(B), {f[y] : y \in A}) = Total(Holdings(A), A) * k
  BY <1>5, <1>6, <1>8, <1>9, TotalImage
<1>14. Total(Holdings(A), A) \in Nat BY <1>5, <1>9, TotalType
<1>15. QED BY <1>7, <1>10, <1>12, <1>13, <1>14 DEF Scale, T

LEMMA ArgmaxTwin ==
    ASSUME NEW p, NEW k, Renaming(p, k), NEW s, WellFormed(s)
    PROVE  SolvedArgmax(Rewritten(s, p, k))
             = {SolutionTwin(x, "aggregate_argmax", p, k) : x \in SolvedArgmax(s)}
<1> DEFINE T == Rewritten(s, p, k)
           N(x) == Rename(x, p)
           subjects == {f.fact.about : f \in CohortFacts(s)}
           subjectsT == {f.fact.about : f \in CohortFacts(T)}
           best == {x \in subjects : \A y \in subjects : TotalOf(s, x) >= TotalOf(s, y)}
           bestT == {x \in subjectsT : \A y \in subjectsT : TotalOf(T, x) >= TotalOf(T, y)}
<1>1. s.documents \subseteq Document BY DEF WellFormed
<1>2. /\ CohortDocs(T) = {N(d) : d \in CohortDocs(s)}
      /\ CohortFacts(T) = {FactTwin(y, p, k) : y \in CohortFacts(s)}
      /\ CohortFacts(s) \subseteq Facts(s) /\ IsFiniteSet(CohortFacts(s))
  BY CohortTwin
<1>3. \A y \in CohortFacts(s) : FactTwin(y, p, k).fact.about = N(y.fact.about) /\ y.fact.about \in Id
  BY <1>1, <1>2, FactTwinOf, FactsType
<1>4. subjectsT = {N(x) : x \in subjects} /\ subjects \subseteq Id
  <2> HIDE DEF T, N
  <2>1. QED BY <1>2, <1>3
<1>5. \A x \in subjects : TotalOf(s, x) \in Nat /\ TotalOf(T, N(x)) = Scale(TotalOf(s, x), k)
  BY <1>4, TotalTwin
<1>6. \A x, y \in subjects : TotalOf(T, N(x)) >= TotalOf(T, N(y)) <=> TotalOf(s, x) >= TotalOf(s, y)
  <2> TAKE x, y \in subjects
  <2> DEFINE a == TotalOf(s, x)
             b == TotalOf(s, y)
  <2>1. a \in Nat /\ b \in Nat /\ TotalOf(T, N(x)) = Scale(a, k) /\ TotalOf(T, N(y)) = Scale(b, k)
    BY <1>5
  <2> HIDE DEF a, b
  <2>2. Scale(b, k) <= Scale(a, k) <=> b <= a BY <2>1, ScaleOrder DEF Renaming
  <2>3. Scale(a, k) \in Nat /\ Scale(b, k) \in Nat BY <2>1, ScaleOrder DEF Renaming
  <2>4. Scale(a, k) >= Scale(b, k) <=> a >= b BY <2>1, <2>2, <2>3
  <2>5. QED BY <2>1, <2>4 DEF a, b
<1>7. bestT = {N(x) : x \in best} /\ best \subseteq Id
  <2>1. best \subseteq Id BY <1>4
  <2> HIDE DEF T, N, subjects, subjectsT
  <2>2. QED BY <1>4, <1>6, <2>1
<1>8. IsFiniteSet(best)
  <2> DEFINE f == [y \in CohortFacts(s) |-> y.fact.about]
  <2>1. subjects = {f[y] : y \in CohortFacts(s)} OBVIOUS
  <2>2. IsFiniteSet({f[y] : y \in CohortFacts(s)})
    <3> HIDE DEF f
    <3>1. QED BY <1>2, ImageFinite
  <2>3. best \in SUBSET subjects OBVIOUS
  <2> HIDE DEF subjects, best
  <2>4. QED BY <2>1, <2>2, <2>3, FS_Subset
<1>9. Cardinality(bestT) = Cardinality(best)
  <2> DEFINE f == [x \in best |-> N(x)]
  <2>1. \A x, y \in best : f[x] = f[y] => x = y BY <1>7, RenameInjective DEF Renaming
  <2>2. bestT = {f[x] : x \in best} BY <1>7
  <2> HIDE DEF f, best, bestT
  <2>3. QED BY <1>8, <2>1, <2>2, ImageCardinality
<1> DEFINE G(x) == Solution(Entity(x), CohortDocs(s))
           GT(x) == Solution(Entity(x), CohortDocs(T))
           S(x) == SolutionTwin(x, "aggregate_argmax", p, k)
<1>10. \A x \in best : S(G(x)) = GT(N(x))
  <2> TAKE x \in best
  <2>1. RewrittenAnswer(Entity(x), "aggregate_argmax", p, k) = Entity(N(x))
    BY DEF RewrittenAnswer, Entity
  <2> HIDE DEF N, T
  <2>2. QED BY <1>2, <2>1 DEF SolutionTwin, Solution, N
<1>11. /\ SolvedArgmax(s) = {G(x) : x \in {y \in best : Cardinality(best) = 1}}
       /\ SolvedArgmax(T) = {GT(x) : x \in {y \in bestT : Cardinality(bestT) = 1}}
  BY DEF SolvedArgmax
<1> HIDE DEF T, N, best, bestT, G, GT, S
<1>12. SolvedArgmax(T) = {S(x) : x \in SolvedArgmax(s)} BY <1>7, <1>9, <1>10, <1>11
<1>13. QED BY <1>12 DEF T, S

-----------------------------------------------------------------------------
(* The path a solver of multi_hop walks.                                     *)

Onward(s, node) == {r \in Routes(s) : r.from = node}
Functional(s) == \A q, r \in Routes(s) : q.from = r.from => q = r

NextNode(s, node) ==
    IF Onward(s, node) = {} THEN node ELSE (CHOOSE r \in Onward(s, node) : TRUE).to

IsPath(path, s) ==
    path = [i \in 0..Cardinality(Routes(s)) |->
              IF i = 0 THEN s.subject
              ELSE NextNode(s, path[i - 1])]

PathOf(s) == CHOOSE path : IsPath(path, s)
EndOf(s) == PathOf(s)[Cardinality(Routes(s))]
Trail(s, f) == {f.doc} \cup {r.doc : r \in {x \in Routes(s) : x.from \in Range(PathOf(s))}}

LEMMA SolvedMultiHopIs ==
    ASSUME NEW s
    PROVE  SolvedMultiHop(s) =
             {Solution(Number(f.fact.value), Trail(s, f)) :
                f \in {g \in About(s, EndOf(s)) :
                         /\ Cardinality(About(s, EndOf(s))) = 1 /\ Onward(s, EndOf(s)) = {}
                         /\ Functional(s)}}
  BY DEF SolvedMultiHop, PathOf, IsPath, NextNode, Onward, EndOf, Trail, Functional

LEMMA OnwardTo ==
    ASSUME NEW s, s.documents \subseteq Document, NEW y, Onward(s, y) # {}
    PROVE  /\ (CHOOSE r \in Onward(s, y) : TRUE) \in Onward(s, y)
           /\ (CHOOSE r \in Onward(s, y) : TRUE).to \in Id
<1>1. (CHOOSE r \in Onward(s, y) : TRUE) \in Onward(s, y) OBVIOUS
<1>2. \A r \in Onward(s, y) : r.to \in Id BY RoutesType DEF Onward
<1>3. QED BY <1>1, <1>2

\* There is one path, and it stays among the identifiers.
LEMMA PathUnique ==
    ASSUME NEW s, NEW g, IsPath(g, s), NEW h, IsPath(h, s), Cardinality(Routes(s)) \in Nat
    PROVE  g = h
<1> DEFINE n == Cardinality(Routes(s))
           T == {i \in 0..n : g[i] # h[i]}
<1>1. T = {}
  <2> SUFFICES ASSUME T # {} PROVE FALSE
    OBVIOUS
  <2>1. PICK i \in T : \A j \in T : i <= j
    <3>1. T \subseteq Nat OBVIOUS
    <3> HIDE DEF T
    <3>2. QED BY <3>1, LeastNat
  <2>2. i # 0 BY <2>1 DEF IsPath
  <2>3. i - 1 \in 0..n /\ ~(i <= i - 1) BY <2>1, <2>2
  <2>4. g[i - 1] = h[i - 1] BY <2>1, <2>3
  <2>5. g[i] = NextNode(s, g[i - 1]) /\ h[i] = NextNode(s, h[i - 1]) BY <2>1, <2>2 DEF IsPath
  <2>6. QED BY <2>1, <2>4, <2>5
<1>2. g = [i \in 0..n |-> g[i]] /\ h = [i \in 0..n |-> h[i]] BY DEF IsPath
<1>3. \A i \in 0..n : g[i] = h[i] BY <1>1
<1> HIDE DEF n, T
<1>4. QED BY <1>2, <1>3

LEMMA PathExists ==
    ASSUME NEW s, s.documents \subseteq Document, IsFiniteSet(Routes(s)), s.subject \in Id
    PROVE  /\ Cardinality(Routes(s)) \in Nat
           /\ IsPath(PathOf(s), s)
           /\ PathOf(s) \in [0..Cardinality(Routes(s)) -> Id]
<1> DEFINE n == Cardinality(Routes(s))
           f == [y \in Id |-> NextNode(s, y)]
<1>1. n \in Nat BY FS_CardinalityType
<1>2. f \in [Id -> Id] BY OnwardTo DEF NextNode
<1>3. \A y \in Id : f[y] = NextNode(s, y) OBVIOUS
<1> HIDE DEF f
<1>4. PICK g \in [0..n -> Id] : Iterates(g, s.subject, f, n)
  <2> HIDE DEF n
  <2>1. QED BY <1>1, <1>2, IteratesExist
<1>5. \A i \in 0..n : g[i] = IF i = 0 THEN s.subject
                             ELSE NextNode(s, g[i - 1])
  <2> TAKE i \in 0..n
  <2>1. g[i] = IF i = 0 THEN s.subject ELSE f[g[i - 1]] BY <1>4 DEF Iterates
  <2>2. i # 0 => i - 1 \in 0..n BY <1>1
  <2>3. i # 0 => g[i - 1] \in Id BY <1>4, <2>2
  <2>4. QED BY <1>3, <2>1, <2>3
<1>6. g = [i \in 0..n |-> g[i]] BY <1>4
<1>7. IsPath(g, s)
  <2>1. g = [i \in 0..n |-> IF i = 0 THEN s.subject
                            ELSE NextNode(s, g[i - 1])]
    BY <1>5, <1>6
  <2>2. QED BY <2>1 DEF IsPath
<1>8. IsPath(PathOf(s), s) BY <1>7 DEF PathOf
<1>9. PathOf(s) = g BY <1>1, <1>7, <1>8, PathUnique
<1>10. QED BY <1>1, <1>4, <1>8, <1>9

LEMMA PathStep ==
    ASSUME NEW s, s.documents \subseteq Document, IsFiniteSet(Routes(s)), s.subject \in Id,
           NEW i \in 0..Cardinality(Routes(s))
    PROVE  PathOf(s)[i] = IF i = 0 THEN s.subject
                          ELSE NextNode(s, PathOf(s)[i - 1])
<1>1. IsPath(PathOf(s), s) BY PathExists
<1> DEFINE path == PathOf(s)
<1> HIDE DEF path
<1>2. IsPath(path, s) BY <1>1 DEF path
<1>3. path[i] = IF i = 0 THEN s.subject
                ELSE NextNode(s, path[i - 1])
  BY <1>2 DEF IsPath
<1>4. QED BY <1>3 DEF path

LEMMA RouteTwinOf ==
    ASSUME NEW p, NEW k, Renaming(p, k), NEW s, WellFormed(s)
    PROVE  /\ \A x \in Routes(s) :
                /\ x.doc \in Id /\ x.from \in Id /\ x.to \in Id
                /\ RouteTwin(x, p).doc = Rename(x.doc, p)
                /\ RouteTwin(x, p).from = Rename(x.from, p)
                /\ RouteTwin(x, p).to = Rename(x.to, p)
           /\ \A x, y \in Routes(s) : RouteTwin(x, p) = RouteTwin(y, p) => x = y
           /\ IsFiniteSet(Routes(Rewritten(s, p, k)))
           /\ Cardinality(Routes(Rewritten(s, p, k))) = Cardinality(Routes(s))
<1>1. \A x \in Routes(s) : x \in [doc : Id, from : Id, to : Id]
  BY RoutesType DEF WellFormed
<1>2. \A x \in Routes(s) :
        /\ x.doc \in Id /\ x.from \in Id /\ x.to \in Id
        /\ RouteTwin(x, p).doc = Rename(x.doc, p)
        /\ RouteTwin(x, p).from = Rename(x.from, p)
        /\ RouteTwin(x, p).to = Rename(x.to, p)
  BY <1>1 DEF RouteTwin
<1>3. ASSUME NEW x \in Routes(s), NEW y \in Routes(s), RouteTwin(x, p) = RouteTwin(y, p)
      PROVE  x = y
  <2>1. x.doc = y.doc /\ x.from = y.from /\ x.to = y.to
    BY <1>2, <1>3, RenameInjective DEF Renaming
  <2>2. x \in [doc : Id, from : Id, to : Id] /\ y \in [doc : Id, from : Id, to : Id] BY <1>1
  <2>3. QED BY <2>1, <2>2
<1> DEFINE f == [x \in Routes(s) |-> RouteTwin(x, p)]
<1>4. \A x, y \in Routes(s) : f[x] = f[y] => x = y BY <1>3
<1>5. {f[x] : x \in Routes(s)} = Routes(Rewritten(s, p, k))
  <2>1. {f[x] : x \in Routes(s)} = {RouteTwin(x, p) : x \in Routes(s)} OBVIOUS
  <2> HIDE DEF f
  <2>2. QED BY <2>1, RoutesTwin DEF WellFormed
<1>6. IsFiniteSet(Routes(s)) BY DEF WellFormed
<1> HIDE DEF f
<1>7. IsFiniteSet(Routes(Rewritten(s, p, k)))
      /\ Cardinality(Routes(Rewritten(s, p, k))) = Cardinality(Routes(s))
  BY <1>4, <1>5, <1>6, ImageCardinality
<1>8. QED BY <1>2, <1>3, <1>7

LEMMA OnwardTwin ==
    ASSUME NEW p, NEW k, Renaming(p, k), NEW s, WellFormed(s), NEW y \in Id
    PROVE  Onward(Rewritten(s, p, k), Rename(y, p)) = {RouteTwin(x, p) : x \in Onward(s, y)}
<1>1. Routes(Rewritten(s, p, k)) = {RouteTwin(x, p) : x \in Routes(s)}
  BY RoutesTwin DEF WellFormed
<1>2. \A x \in Routes(s) : RouteTwin(x, p).from = Rename(y, p) <=> x.from = y
  BY RouteTwinOf, RenameInjective DEF Renaming
<1>3. QED BY <1>1, <1>2 DEF Onward

LEMMA FunctionalTwin ==
    ASSUME NEW p, NEW k, Renaming(p, k), NEW s, WellFormed(s)
    PROVE  Functional(Rewritten(s, p, k)) <=> Functional(s)
<1>1. Routes(Rewritten(s, p, k)) = {RouteTwin(x, p) : x \in Routes(s)}
  BY RoutesTwin DEF WellFormed
<1>2. \A x, y \in Routes(s) : /\ RouteTwin(x, p).from = RouteTwin(y, p).from <=> x.from = y.from
                              /\ RouteTwin(x, p) = RouteTwin(y, p) <=> x = y
  <2> TAKE x, y \in Routes(s)
  <2>1. RouteTwin(x, p) = RouteTwin(y, p) => x = y BY RouteTwinOf
  <2>2. /\ x.from \in Id /\ y.from \in Id
        /\ RouteTwin(x, p).from = Rename(x.from, p) /\ RouteTwin(y, p).from = Rename(y.from, p)
    BY RouteTwinOf
  <2>3. QED BY <2>1, <2>2, RenameInjective DEF Renaming
<1>3. QED BY <1>1, <1>2 DEF Functional

\* Where a node has one way on, the twin's has one too.
LEMMA NextTwin ==
    ASSUME NEW p, NEW k, Renaming(p, k), NEW s, WellFormed(s), Functional(s), NEW y \in Id
    PROVE  /\ NextNode(s, y) \in Id
           /\ NextNode(Rewritten(s, p, k), Rename(y, p)) = Rename(NextNode(s, y), p)
<1> DEFINE T == Rewritten(s, p, k)
<1>1. Onward(T, Rename(y, p)) = {RouteTwin(x, p) : x \in Onward(s, y)} BY OnwardTwin
<1>2. CASE Onward(s, y) = {}
  <2>1. Onward(T, Rename(y, p)) = {} BY <1>1, <1>2
  <2> HIDE DEF T
  <2>2. QED BY <1>2, <2>1 DEF NextNode, T
<1>3. CASE Onward(s, y) # {}
  <2>1. PICK r \in Onward(s, y) : TRUE BY <1>3
  <2>2. Onward(s, y) = {r} BY <2>1 DEF Onward, Functional
  <2>3. Onward(T, Rename(y, p)) = {RouteTwin(r, p)} BY <1>1, <2>2
  <2>4. (CHOOSE q \in {r} : TRUE) = r OBVIOUS
  <2>5. (CHOOSE q \in {RouteTwin(r, p)} : TRUE) = RouteTwin(r, p) OBVIOUS
  <2>6. r \in Routes(s) BY <2>1 DEF Onward
  <2>7. r.to \in Id /\ RouteTwin(r, p).to = Rename(r.to, p) BY <2>6, RouteTwinOf
  <2>8. NextNode(s, y) = r.to
    <3>1. NextNode(s, y) = (CHOOSE q \in Onward(s, y) : TRUE).to BY <1>3 DEF NextNode
    <3>2. QED BY <2>2, <2>4, <3>1
  <2>9. NextNode(T, Rename(y, p)) = RouteTwin(r, p).to
    <3>1. NextNode(T, Rename(y, p)) = (CHOOSE q \in Onward(T, Rename(y, p)) : TRUE).to
      <4> HIDE DEF T
      <4>1. QED BY <2>3 DEF NextNode
    <3>2. QED BY <2>3, <2>5, <3>1
  <2>10. QED BY <2>7, <2>8, <2>9
<1>4. QED BY <1>2, <1>3

LEMMA PathTwin ==
    ASSUME NEW p, NEW k, Renaming(p, k), NEW s, WellFormed(s), Functional(s)
    PROVE  PathOf(Rewritten(s, p, k)) = [i \in 0..Cardinality(Routes(s)) |-> Rename(PathOf(s)[i], p)]
<1> DEFINE T == Rewritten(s, p, k)
           n == Cardinality(Routes(s))
           g == PathOf(s)
           h == [i \in 0..n |-> Rename(g[i], p)]
<1>1. /\ n \in Nat /\ g \in [0..n -> Id]
      /\ \A i \in 0..n : g[i] = IF i = 0 THEN s.subject ELSE NextNode(s, g[i - 1])
  BY PathExists, PathStep DEF WellFormed
<1>2. IsFiniteSet(Routes(T)) /\ Cardinality(Routes(T)) = n BY RouteTwinOf
<1>3. /\ T.subject = Rename(s.subject, p) /\ T.subject \in Id
      /\ s.documents \subseteq Document
  BY RenameType DEF Rewritten, WellFormed, Renaming
<1>4. T.documents \subseteq Document
  <2>1. T.documents = {RewrittenDoc(d, p, k) : d \in s.documents} BY <1>3, TwinDocuments
  <2>2. \A d \in s.documents : RewrittenDoc(d, p, k) \in Document BY <1>3, TwinDocuments
  <2> HIDE DEF T
  <2>3. QED BY <2>1, <2>2
<1>5. \A y \in Id : NextNode(T, Rename(y, p)) = Rename(NextNode(s, y), p) BY NextTwin
<1> HIDE DEF T, n, g
<1>6. \A i \in 0..n : h[i] = IF i = 0 THEN T.subject ELSE NextNode(T, h[i - 1])
  <2> TAKE i \in 0..n
  <2>1. CASE i = 0 BY <1>1, <1>3, <2>1
  <2>2. CASE i # 0
    <3>1. i - 1 \in 0..n BY <1>1, <2>2
    <3>2. g[i - 1] \in Id /\ g[i] = NextNode(s, g[i - 1]) BY <1>1, <2>2, <3>1
    <3>3. h[i] = Rename(g[i], p) /\ h[i - 1] = Rename(g[i - 1], p) BY <3>1
    <3> HIDE DEF h
    <3>4. QED BY <1>5, <2>2, <3>2, <3>3
  <2>3. QED BY <2>1, <2>2
<1>7. h = [i \in 0..n |-> h[i]] OBVIOUS
<1> HIDE DEF h
<1>8. h = [i \in 0..n |-> IF i = 0 THEN T.subject ELSE NextNode(T, h[i - 1])] BY <1>6, <1>7
<1>9. IsPath(h, T) BY <1>2, <1>8 DEF IsPath
<1>10. IsPath(PathOf(T), T) BY <1>2, <1>3, <1>4, PathExists
<1>11. PathOf(T) = h BY <1>1, <1>2, <1>9, <1>10, PathUnique
<1>12. QED BY <1>11 DEF T, h, n, g

LEMMA MultiHopTwin ==
    ASSUME NEW p, NEW k, Renaming(p, k), NEW s, WellFormed(s)
    PROVE  SolvedMultiHop(Rewritten(s, p, k))
             = {SolutionTwin(x, "multi_hop", p, k) : x \in SolvedMultiHop(s)}
<1> DEFINE T == Rewritten(s, p, k)
           S(x) == SolutionTwin(x, "multi_hop", p, k)
           F(x) == FactTwin(x, p, k)
           N(i) == Rename(i, p)
           n == Cardinality(Routes(s))
<1>1. CASE ~Functional(s)
  <2>1. SolvedMultiHop(s) = {} BY <1>1, SolvedMultiHopIs
  <2>2. ~Functional(T) BY <1>1, FunctionalTwin
  <2>3. SolvedMultiHop(T) = {}
    <3> HIDE DEF T
    <3>1. QED BY <2>2, SolvedMultiHopIs
  <2>4. QED BY <2>1, <2>3
<1>2. CASE Functional(s)
  <2> DEFINE end == EndOf(s)
             hits == About(s, end)
             hitsT == About(T, N(end))
  <2>1. Functional(T) BY <1>2, FunctionalTwin
  <2>2. /\ n \in Nat /\ PathOf(s) \in [0..n -> Id]
        /\ PathOf(T) = [i \in 0..n |-> N(PathOf(s)[i])]
    BY <1>2, PathExists, PathTwin DEF WellFormed
  <2>3. Cardinality(Routes(T)) = n BY RouteTwinOf
  <2>4. end \in Id /\ EndOf(T) = N(end)
    <3> HIDE DEF T, n, N
    <3>1. QED BY <2>2, <2>3 DEF EndOf, n
  <2>5. hitsT = {F(x) : x \in hits} /\ s.documents \subseteq Document BY <2>4, AboutTwin DEF WellFormed
  <2>6. hits \subseteq Facts(s) /\ IsFiniteSet(hits) BY FS_Subset DEF About, WellFormed
  <2>7. Cardinality(hitsT) = Cardinality(hits) BY <2>5, <2>6, FactTwinCardinality
  <2>8. Onward(T, N(end)) = {} <=> Onward(s, end) = {}
    <3>1. Onward(T, N(end)) = {RouteTwin(x, p) : x \in Onward(s, end)} BY <2>4, OnwardTwin
    <3> HIDE DEF T, N, end
    <3>2. QED BY <3>1
  <2>9. \A y \in Id : N(y) \in Range(PathOf(T)) <=> y \in Range(PathOf(s))
    <3>1. \A x, y \in Id : N(x) = N(y) => x = y BY RenameInjective DEF Renaming
    <3> HIDE DEF T, N, n
    <3>2. QED BY <2>2, <3>1 DEF Range
  <2>10. \A f \in hits : Trail(T, F(f)) = {N(d) : d \in Trail(s, f)}
    <3> TAKE f \in hits
    <3>1. F(f).doc = N(f.doc) BY <2>5, <2>6, FactTwinOf
    <3>2. Routes(T) = {RouteTwin(x, p) : x \in Routes(s)} BY <2>5, RoutesTwin
    <3>3. \A x \in Routes(s) : /\ x.from \in Id /\ RouteTwin(x, p).from = N(x.from)
                               /\ RouteTwin(x, p).doc = N(x.doc)
      BY RouteTwinOf
    <3> HIDE DEF T, N, F
    <3>4. QED BY <2>9, <3>1, <3>2, <3>3 DEF Trail
  <2> DEFINE G(f) == Solution(Number(f.fact.value), Trail(s, f))
             GT(f) == Solution(Number(f.fact.value), Trail(T, f))
  <2>11. \A f \in hits : S(G(f)) = GT(F(f))
    <3> TAKE f \in hits
    <3>1. f.fact.value \in Nat /\ F(f).fact.value = Scale(f.fact.value, k)
      BY <2>5, <2>6, FactTwinOf, FactsType
    <3>2. RewrittenAnswer(Number(f.fact.value), "multi_hop", p, k) = Number(F(f).fact.value)
      BY <3>1, NumberTwin
    <3>3. Trail(T, F(f)) = {Rename(d, p) : d \in Trail(s, f)} BY <2>10
    <3> HIDE DEF T, F
    <3>4. QED BY <3>2, <3>3 DEF SolutionTwin, Solution
  <2>12. SolvedMultiHop(s) = {G(f) : f \in {g \in hits : Cardinality(hits) = 1 /\ Onward(s, end) = {}}}
    BY <1>2, SolvedMultiHopIs
  <2>13. SolvedMultiHop(T) = {GT(f) : f \in {g \in hitsT : Cardinality(hitsT) = 1 /\ Onward(T, N(end)) = {}}}
    <3> HIDE DEF T
    <3>1. SolvedMultiHop(T) =
             {GT(f) : f \in {g \in About(T, EndOf(T)) :
                         /\ Cardinality(About(T, EndOf(T))) = 1 /\ Onward(T, EndOf(T)) = {}
                         /\ Functional(T)}}
      BY SolvedMultiHopIs
    <3>2. QED BY <2>1, <2>4, <3>1
  <2> HIDE DEF T, G, GT, S, F, N, hits, hitsT, end
  <2>14. SolvedMultiHop(T) = {S(x) : x \in SolvedMultiHop(s)}
    BY <2>5, <2>7, <2>8, <2>11, <2>12, <2>13
  <2>15. QED BY <2>14 DEF T, S
<1>3. QED BY <1>1, <1>2

-----------------------------------------------------------------------------
(* What was verified of the sample holds of the twin.                        *)

LEMMA RederivedTwin ==
    ASSUME NEW p, NEW k, Renaming(p, k), NEW s, WellFormed(s), s.family \in Families
    PROVE  Rederived(Rewritten(s, p, k)) = {SolutionTwin(x, s.family, p, k) : x \in Rederived(s)}
<1> DEFINE T == Rewritten(s, p, k)
<1>1. T.family = s.family BY DEF Rewritten
<1> HIDE DEF T
<1>2. CASE s.family = "needle"
  <2>1. Rederived(s) = SolvedNeedle(s) /\ Rederived(T) = SolvedNeedle(T) BY <1>1, <1>2 DEF Rederived
  <2>2. SolvedNeedle(T) = {SolutionTwin(x, "needle", p, k) : x \in SolvedNeedle(s)} BY NeedleTwin DEF T
  <2>3. QED BY <1>2, <2>1, <2>2 DEF T
<1>3. CASE s.family = "supersession"
  <2>1. Rederived(s) = SolvedSupersession(s) /\ Rederived(T) = SolvedSupersession(T)
    BY <1>1, <1>3 DEF Rederived
  <2>2. SolvedSupersession(T) = {SolutionTwin(x, "supersession", p, k) : x \in SolvedSupersession(s)}
    BY SupersessionTwin DEF T
  <2>3. QED BY <1>3, <2>1, <2>2 DEF T
<1>4. CASE s.family = "multi_hop"
  <2>1. Rederived(s) = SolvedMultiHop(s) /\ Rederived(T) = SolvedMultiHop(T) BY <1>1, <1>4 DEF Rederived
  <2>2. SolvedMultiHop(T) = {SolutionTwin(x, "multi_hop", p, k) : x \in SolvedMultiHop(s)}
    BY MultiHopTwin DEF T
  <2>3. QED BY <1>4, <2>1, <2>2 DEF T
<1>5. CASE s.family = "aggregate_count"
  <2>1. Rederived(s) = SolvedCount(s) /\ Rederived(T) = SolvedCount(T) BY <1>1, <1>5 DEF Rederived
  <2>2. SolvedCount(T) = {SolutionTwin(x, "aggregate_count", p, k) : x \in SolvedCount(s)}
    BY CountTwin DEF T
  <2>3. QED BY <1>5, <2>1, <2>2 DEF T
<1>6. CASE s.family = "aggregate_argmax"
  <2>1. Rederived(s) = SolvedArgmax(s) /\ Rederived(T) = SolvedArgmax(T) BY <1>1, <1>6 DEF Rederived
  <2>2. SolvedArgmax(T) = {SolutionTwin(x, "aggregate_argmax", p, k) : x \in SolvedArgmax(s)}
    BY ArgmaxTwin DEF T
  <2>3. QED BY <1>6, <2>1, <2>2 DEF T
<1>7. QED BY <1>2, <1>3, <1>4, <1>5, <1>6 DEF Families

LEMMA AnswerInjective ==
    ASSUME NEW p, NEW k, Renaming(p, k), NEW family, NEW a \in AnswerSet, NEW b \in AnswerSet,
           RewrittenAnswer(a, family, p, k) = RewrittenAnswer(b, family, p, k)
    PROVE  a = b
<1>1. \A n \in Nat : RewrittenAnswer(Number(n), family, p, k) \in {Number(n), Number(Scale(n, k))}
                     /\ Number(n).number = n /\ DOMAIN Number(n) = {"number"}
  BY DEF RewrittenAnswer, Number
<1>2. \A i \in Id : RewrittenAnswer(Entity(i), family, p, k) = Entity(Rename(i, p))
                    /\ Entity(i).entity = i /\ DOMAIN Entity(i) = {"entity"}
  BY DEF RewrittenAnswer, Entity
<1>3. CASE \E i, j \in Id : a = Entity(i) /\ b = Entity(j)
  <2>1. PICK i, j \in Id : a = Entity(i) /\ b = Entity(j) BY <1>3
  <2>2. Entity(Rename(i, p)).entity = Rename(i, p) /\ Entity(Rename(j, p)).entity = Rename(j, p)
    BY DEF Entity
  <2>3. Rename(i, p) = Rename(j, p) BY <1>2, <2>1, <2>2
  <2>4. i = j BY <2>3, RenameInjective DEF Renaming
  <2>5. QED BY <2>1, <2>4
<1>4. CASE \E m, n \in Nat : a = Number(m) /\ b = Number(n)
  <2>1. PICK m, n \in Nat : a = Number(m) /\ b = Number(n) BY <1>4
  <2>2. CASE family \in {"needle", "supersession", "multi_hop"}
    <3>1. Number(Scale(m, k)).number = Scale(m, k) /\ Number(Scale(n, k)).number = Scale(n, k)
      BY DEF Number
    <3>2. Scale(m, k) = Scale(n, k) BY <2>1, <2>2, <3>1, NumberTwin
    <3>3. m = n BY <3>2, ScaleOrder DEF Renaming
    <3>4. QED BY <2>1, <3>3
  <2>3. CASE family \notin {"needle", "supersession", "multi_hop"}
    BY <2>1, <2>3 DEF RewrittenAnswer, Number
  <2>4. QED BY <2>2, <2>3
<1>5. ASSUME NEW i \in Id, NEW n \in Nat
      PROVE  RewrittenAnswer(Entity(i), family, p, k) # RewrittenAnswer(Number(n), family, p, k)
  <2>1. DOMAIN RewrittenAnswer(Entity(i), family, p, k) = {"entity"}
    <3>1. RewrittenAnswer(Entity(i), family, p, k) = Entity(Rename(i, p)) BY <1>2
    <3>2. DOMAIN Entity(Rename(i, p)) = {"entity"} BY DEF Entity
    <3>3. QED BY <3>1, <3>2
  <2>2. DOMAIN RewrittenAnswer(Number(n), family, p, k) = {"number"}
    <3>1. DOMAIN Number(n) = {"number"} /\ DOMAIN Number(Scale(n, k)) = {"number"} BY DEF Number
    <3>2. QED BY <1>1, <3>1
  <2>3. QED BY <2>1, <2>2
<1>6. QED BY <1>3, <1>4, <1>5 DEF AnswerSet

LEMMA VerifiedTwin ==
    ASSUME NEW p, NEW k, Renaming(p, k), NEW s, WellFormed(s), s.family \in Families, Verified(s)
    PROVE  Verified(Rewritten(s, p, k))
<1> DEFINE T == Rewritten(s, p, k)
           A(a) == RewrittenAnswer(a, s.family, p, k)
<1>1. /\ T.answer = A(s.answer) /\ T.required = {Rename(d, p) : d \in s.required}
      /\ T.distractors = {A(a) : a \in s.distractors}
  BY DEF Rewritten
<1>2. Rederived(T) = {Solution(T.answer, T.required)}
  <2>1. Rederived(T) = {SolutionTwin(x, s.family, p, k) : x \in Rederived(s)} BY RederivedTwin
  <2>2. Rederived(s) = {Solution(s.answer, s.required)} BY DEF Verified
  <2>3. SolutionTwin(Solution(s.answer, s.required), s.family, p, k) = Solution(T.answer, T.required)
    <3> HIDE DEF T
    <3>1. QED BY <1>1 DEF SolutionTwin, Solution
  <2> HIDE DEF T
  <2>4. QED BY <2>1, <2>2, <2>3
<1>3. T.answer \notin T.distractors
  <2>1. s.answer \in AnswerSet /\ s.distractors \subseteq AnswerSet BY DEF WellFormed
  <2>2. \A a \in s.distractors : A(a) = A(s.answer) => a = s.answer BY <2>1, AnswerInjective
  <2>3. s.answer \notin s.distractors BY DEF Verified
  <2> HIDE DEF T, A
  <2>4. QED BY <1>1, <2>2, <2>3
<1>4. T.required \subseteq {d.id : d \in T.documents}
  <2>1. s.required \subseteq {d.id : d \in s.documents} BY DEF Verified
  <2>2. s.documents \subseteq Document BY DEF WellFormed
  <2>3. T.documents = {RewrittenDoc(d, p, k) : d \in s.documents} BY <2>2, TwinDocuments
  <2>4. \A d \in s.documents : RewrittenDoc(d, p, k).id = Rename(d.id, p) BY <2>2, TwinDocuments
  <2> HIDE DEF T
  <2>5. QED BY <1>1, <2>1, <2>3, <2>4
<1> HIDE DEF T
<1>5. QED BY <1>2, <1>3, <1>4 DEF Verified, T

\* The twin has as many documents.
LEMMA DocumentsTwin ==
    ASSUME NEW p, NEW k, Renaming(p, k), NEW s, WellFormed(s)
    PROVE  Cardinality(Rewritten(s, p, k).documents) = Cardinality(s.documents)
<1>1. s.documents \subseteq Document /\ IsFiniteSet(s.documents) BY DEF WellFormed
<1>2. ASSUME NEW d \in s.documents, NEW e \in s.documents, RewrittenDoc(d, p, k) = RewrittenDoc(e, p, k)
      PROVE  d = e
  <2>1. d \in Document /\ e \in Document BY <1>1
  <2>2. /\ d.id \in Id /\ d.says \subseteq Statement /\ d.cohort \in Id \cup {NoCohort}
        /\ e.id \in Id /\ e.says \subseteq Statement /\ e.cohort \in Id \cup {NoCohort}
    BY <2>1 DEF Document
  <2>3. /\ Rename(d.id, p) = Rename(e.id, p)
        /\ {RewrittenStatement(x, p, k) : x \in d.says} = {RewrittenStatement(x, p, k) : x \in e.says}
        /\ (IF d.cohort = NoCohort THEN NoCohort ELSE Rename(d.cohort, p))
             = (IF e.cohort = NoCohort THEN NoCohort ELSE Rename(e.cohort, p))
    BY <1>2 DEF RewrittenDoc
  <2>4. d.id = e.id BY <2>2, <2>3, RenameInjective DEF Renaming
  <2>5. d.says = e.says
    <3> DEFINE R(x) == RewrittenStatement(x, p, k)
    <3>1. \A x, y \in Statement : R(x) = R(y) => x = y BY RewrittenInjective
    <3>2. {R(x) : x \in d.says} = {R(x) : x \in e.says} BY <2>3
    <3> HIDE DEF R
    <3>3. ASSUME NEW x PROVE x \in d.says <=> x \in e.says
      <4>1. x \in d.says => R(x) \in {R(y) : y \in e.says} BY <3>2
      <4>2. x \in e.says => R(x) \in {R(y) : y \in d.says} BY <3>2
      <4>3. QED BY <2>2, <3>1, <4>1, <4>2
    <3>4. QED BY <3>3
  <2>6. d.cohort = e.cohort
    <3>1. NoCohort \notin Id BY DEF NoCohort, Id
    <3>2. \A i \in Id : Rename(i, p) \in Id BY RenameType DEF Renaming
    <3>3. QED BY <2>2, <2>3, <3>1, <3>2, RenameInjective DEF Renaming
  <2>7. QED BY <2>1, <2>4, <2>5, <2>6 DEF Document
<1> DEFINE f == [d \in s.documents |-> RewrittenDoc(d, p, k)]
<1>3. \A d, e \in s.documents : f[d] = f[e] => d = e BY <1>2
<1>4. Rewritten(s, p, k).documents = {f[d] : d \in s.documents}
  <2>1. Rewritten(s, p, k).documents = {RewrittenDoc(d, p, k) : d \in s.documents}
    BY <1>1, TwinDocuments
  <2>2. {f[d] : d \in s.documents} = {RewrittenDoc(d, p, k) : d \in s.documents} OBVIOUS
  <2>3. QED BY <2>1, <2>2
<1> HIDE DEF f
<1>5. QED BY <1>1, <1>3, <1>4, ImageCardinality

\* As many entities are one letter apart.
LEMMA NearPairsTwin ==
    ASSUME NEW p, NEW k, Renaming(p, k), NEW s, WellFormed(s)
    PROVE  Cardinality(NearPairs(Rewritten(s, p, k))) = Cardinality(NearPairs(s))
<1> DEFINE T == Rewritten(s, p, k)
           N(i) == Rename(i, p)
<1>1. s.documents \subseteq Document /\ IsFiniteSet(Facts(s)) BY DEF WellFormed
<1>2. Facts(T) = {FactTwin(x, p, k) : x \in Facts(s)} BY <1>1, FactsTwin
<1>3. \A x \in Facts(s) : FactTwin(x, p, k).fact.about = N(x.fact.about) /\ x.fact.about \in Id
  BY <1>1, FactTwinOf, FactsType
<1>4. Named(T) = {N(i) : i \in Named(s)} /\ Named(s) \subseteq Id
  <2> HIDE DEF T, N
  <2>1. QED BY <1>2, <1>3 DEF Named
<1>5. ASSUME NEW i \in Id, NEW j \in Id PROVE Apart(N(i), N(j)) = Apart(i, j)
  <2>1. PICK q \in Prefixes, a \in Letter, b \in Letter, c \in Letter : i = <<q, a, b, c>> BY DEF Id
  <2>2. PICK r \in Prefixes, d \in Letter, e \in Letter, f \in Letter : j = <<r, d, e, f>> BY DEF Id
  <2>3. N(i) = <<q, p[a], p[b], p[c]>> /\ N(j) = <<r, p[d], p[e], p[f]>> BY <2>1, <2>2, RenameId DEF Renaming
  <2>4. \A u, v \in Letter : p[u] = p[v] <=> u = v BY DEF Renaming, Derangements, IsInjective
  <2>5. DOMAIN N(i) = 1..4 /\ DOMAIN i = 1..4 BY <2>1, <2>3
  <2>6. \A l \in 1..4 : N(i)[l] # N(j)[l] <=> i[l] # j[l]
    <3> TAKE l \in 1..4
    <3>1. l = 1 \/ l = 2 \/ l = 3 \/ l = 4 OBVIOUS
    <3> HIDE DEF N
    <3>2. QED BY <2>1, <2>2, <2>3, <2>4, <3>1
  <2> HIDE DEF N
  <2>7. {l \in DOMAIN N(i) : N(i)[l] # N(j)[l]} = {l \in DOMAIN i : i[l] # j[l]} BY <2>5, <2>6
  <2>8. QED BY <2>7 DEF Apart
<1> DEFINE f == [c \in NearPairs(s) |-> <<N(c[1]), N(c[2])>>]
<1>6. \A i, j \in Id : N(i) = N(j) => i = j BY RenameInjective DEF Renaming
<1>7. NearPairs(T) = {f[c] : c \in NearPairs(s)}
  <2>1. ASSUME NEW c \in NearPairs(s) PROVE f[c] \in NearPairs(T)
    <3>1. c[1] \in Named(s) /\ c[2] \in Named(s) /\ Apart(c[1], c[2]) = 1 BY DEF NearPairs
    <3>2. Apart(N(c[1]), N(c[2])) = 1 BY <1>4, <1>5, <3>1
    <3>3. N(c[1]) \in Named(T) /\ N(c[2]) \in Named(T) BY <1>4, <3>1
    <3>4. f[c] = <<N(c[1]), N(c[2])>> OBVIOUS
    <3> HIDE DEF T, N, f
    <3>5. QED BY <3>2, <3>3, <3>4 DEF NearPairs
  <2>2. ASSUME NEW d \in NearPairs(T) PROVE \E c \in NearPairs(s) : d = f[c]
    <3>1. d = <<d[1], d[2]>> /\ d[1] \in Named(T) /\ d[2] \in Named(T) /\ Apart(d[1], d[2]) = 1
      BY DEF NearPairs
    <3>2. PICK i \in Named(s), j \in Named(s) : d[1] = N(i) /\ d[2] = N(j) BY <1>4, <3>1
    <3>3. Apart(i, j) = 1 BY <1>4, <1>5, <3>1, <3>2
    <3>4. <<i, j>> \in NearPairs(s) BY <3>2, <3>3 DEF NearPairs
    <3>5. f[<<i, j>>] = <<N(i), N(j)>> BY <3>4
    <3>6. QED BY <3>1, <3>2, <3>4, <3>5
  <2> HIDE DEF f, T
  <2>3. QED BY <2>1, <2>2
<1>8. \A c, d \in NearPairs(s) : f[c] = f[d] => c = d
  <2> TAKE c, d \in NearPairs(s)
  <2>1. /\ c = <<c[1], c[2]>> /\ c[1] \in Id /\ c[2] \in Id
        /\ d = <<d[1], d[2]>> /\ d[1] \in Id /\ d[2] \in Id
    BY <1>4 DEF NearPairs
  <2>2. f[c] = <<N(c[1]), N(c[2])>> /\ f[d] = <<N(d[1]), N(d[2])>> OBVIOUS
  <2> HIDE DEF f, N
  <2>3. QED BY <1>6, <2>1, <2>2
<1>9. IsFiniteSet(NearPairs(s))
  <2> DEFINE g == [x \in Facts(s) |-> x.fact.about]
  <2>1. Named(s) = {g[x] : x \in Facts(s)} BY DEF Named
  <2>2. IsFiniteSet(Named(s))
    <3> HIDE DEF g
    <3>1. QED BY <1>1, <2>1, ImageFinite
  <2>3. IsFiniteSet(Named(s) \X Named(s)) BY <2>2, FS_Product
  <2>4. NearPairs(s) \in SUBSET (Named(s) \X Named(s)) BY DEF NearPairs
  <2>5. QED BY <2>3, <2>4, FS_Subset
<1> HIDE DEF f, T
<1>10. Cardinality(NearPairs(T)) = Cardinality(NearPairs(s)) BY <1>7, <1>8, <1>9, ImageCardinality
<1>11. QED BY <1>10 DEF T

LEMMA LargestTwin ==
    ASSUME NEW p, NEW k, Renaming(p, k), NEW s, WellFormed(s)
    PROVE  LargestHolders(Rewritten(s, p, k)) = {Rename(i, p) : i \in LargestHolders(s)}
<1> DEFINE T == Rewritten(s, p, k)
           F(x) == FactTwin(x, p, k)
           large == {x \in CohortFacts(s) : \A y \in CohortFacts(s) : y.fact.value <= x.fact.value}
           largeT == {x \in CohortFacts(T) : \A y \in CohortFacts(T) : y.fact.value <= x.fact.value}
<1>1. s.documents \subseteq Document BY DEF WellFormed
<1>2. /\ CohortFacts(T) = {F(y) : y \in CohortFacts(s)} /\ CohortFacts(s) \subseteq Facts(s)
  BY CohortTwin
<1>3. \A x \in CohortFacts(s) : /\ F(x).fact.about = Rename(x.fact.about, p)
                                /\ F(x).fact.value = Scale(x.fact.value, k) /\ x.fact.value \in Nat
  BY <1>1, <1>2, FactTwinOf, FactsType
<1>4. \A x, y \in CohortFacts(s) : F(y).fact.value <= F(x).fact.value <=> y.fact.value <= x.fact.value
  BY <1>3, ScaleOrder DEF Renaming
<1> HIDE DEF T, F
<1>5. largeT = {F(x) : x \in large} BY <1>2, <1>4
<1>6. LargestHolders(T) = {f.fact.about : f \in largeT} /\ LargestHolders(s) = {f.fact.about : f \in large}
  BY DEF LargestHolders
<1>7. \A x \in large : F(x).fact.about = Rename(x.fact.about, p) BY <1>3
<1> HIDE DEF large, largeT
<1>8. QED BY <1>5, <1>6, <1>7 DEF T

-----------------------------------------------------------------------------
(* What the builders draw from.                                              *)

\* What CorpusSpec and the ranges of the builders allow; the largest sizes are those for
\* which every identifier of a sample is one of the alphabet.
DrawsInRange ==
    /\ Similarities \subseteq 0..4
    /\ Values \subseteq Nat
    /\ ChainLength \in 2..10 /\ Hops \in 2..3
    /\ CohortSize \in 6..24 /\ CohortValues \subseteq Nat /\ IsFiniteSet(CohortValues)
    /\ WinnerShares \subseteq 2000..2399 /\ SpikeGaps \subseteq 200..399
    /\ SpikeRests \subseteq 0..199 /\ OtherShares \subseteq 0..899
    /\ Factors \subseteq Nat \ {0}

LEMMA MakeIs ==
    ASSUME NEW q \in Prefixes, NEW n \in 0..26
    PROVE  /\ Make(q, n) \in Id
           /\ Make(q, n)[1] = q
           /\ \A r \in Prefixes, m \in 0..26 : Make(q, n) = Make(r, m) => q = r /\ n = m
<1>1. ASSUME NEW m \in 0..26
      PROVE  /\ m \div 9 \in 0..2 /\ (m \div 3) % 3 \in 0..2 /\ m % 3 \in 0..2
             /\ m = 9 * (m \div 9) + 3 * ((m \div 3) % 3) + (m % 3)
  OBVIOUS
<1>2. ASSUME NEW r \in Prefixes, NEW m \in 0..26, Make(q, n) = Make(r, m) PROVE q = r /\ n = m
  <2>1. /\ q = r /\ n \div 9 = m \div 9 /\ (n \div 3) % 3 = (m \div 3) % 3 /\ n % 3 = m % 3
    BY <1>2 DEF Make
  <2>2. QED BY <1>1, <2>1
<1>3. Make(q, n) \in Id /\ Make(q, n)[1] = q BY <1>1 DEF Make, Id, Letter
<1>4. QED BY <1>2, <1>3

\* The same for each prefix.
LEMMA Makes ==
    /\ \A i \in 0..26 : /\ Make("DOC", i) \in Id /\ Make("REC", i) \in Id /\ Make("SUBJ", i) \in Id
                        /\ Make("NODE", i) \in Id /\ Make("CHT", i) \in Id
    /\ \A i, j \in 0..26 : Make("DOC", i) = Make("DOC", j) => i = j
    /\ \A i, j \in 0..26 : Make("REC", i) = Make("REC", j) => i = j
    /\ \A i, j \in 0..26 : Make("SUBJ", i) = Make("SUBJ", j) => i = j
    /\ \A i, j \in 0..26 : Make("NODE", i) = Make("NODE", j) => i = j
    /\ \A i, j \in 0..26 : Make("CHT", i) = Make("CHT", j) => i = j
<1>1. /\ "DOC" \in Prefixes /\ "REC" \in Prefixes /\ "SUBJ" \in Prefixes /\ "NODE" \in Prefixes
      /\ "CHT" \in Prefixes
  BY DEF Prefixes
<1>2. \A q \in Prefixes : /\ \A i \in 0..26 : Make(q, i) \in Id
                          /\ \A i, j \in 0..26 : Make(q, i) = Make(q, j) => i = j
  BY MakeIs
<1>3. QED BY <1>1, <1>2

LEMMA NearMissIs ==
    ASSUME NEW q \in Prefixes, NEW a \in Letter, NEW b \in Letter, NEW c \in Letter, NEW used,
           NEW x \in NearMiss(<<q, a, b, c>>, used)
    PROVE  /\ x \in Id /\ x # <<q, a, b, c>> /\ x \notin used
           /\ \E d \in Letter : x = <<q, d, b, c>> \/ x = <<q, a, d, c>> \/ x = <<q, a, b, d>>
<1> DEFINE id == <<q, a, b, c>>
<1>1. PICK i \in 2..4, d \in Letter : x = [id EXCEPT ![i] = d]
  <2>1. Len(id) = 4 OBVIOUS
  <2>2. QED BY <2>1 DEF NearMiss
<1>2. x # id /\ x \notin used BY DEF NearMiss
<1>3. i = 2 \/ i = 3 \/ i = 4 OBVIOUS
<1>4. x = <<q, d, b, c>> \/ x = <<q, a, d, c>> \/ x = <<q, a, b, d>> BY <1>1, <1>3
<1>5. x \in Id BY <1>4 DEF Id
<1>6. QED BY <1>2, <1>4, <1>5

\* Another attribute is never in the canonical template.
LEMMA ParaphraseIs ==
    ASSUME similarity \in 0..4, NEW r, NEW a, NEW v
    PROVE  Paraphrase(r, a, v) = [says |-> "paraphrase", about |-> a, value |-> v]
<1>1. BySimilarity(5, 1) # 0
  <2> DEFINE x == (4 - similarity) * 3
  <2>1. x \in Nat OBVIOUS
  <2>2. BySimilarity(5, 1) = 1 + (IF x % 4 = 2 THEN x \div 4 + ((x \div 4) % 2) ELSE (x + 2) \div 4)
    BY DEF BySimilarity
  <2> HIDE DEF x
  <2>3. x \div 4 \in Nat /\ (x \div 4) % 2 \in Nat /\ (x + 2) \div 4 \in Nat BY <2>1
  <2>4. QED BY <2>2, <2>3
<1>2. QED BY <1>1 DEF Paraphrase

LEMMA FactIs ==
    ASSUME NEW r \in Id, NEW a \in Id, NEW v \in Nat
    PROVE  /\ Fact(r, a, v) \in FactSet /\ Fact(r, a, v).says = "fact"
           /\ Fact(r, a, v).record = r /\ Fact(r, a, v).about = a /\ Fact(r, a, v).value = v
  BY DEF Fact, FactSet

LEMMA DocIs ==
    ASSUME NEW n \in 0..26, NEW says \in SUBSET Statement
    PROVE  /\ Doc(n, says).id = Make("DOC", n) /\ Doc(n, says).says = says
           /\ Doc(n, says).cohort = NoCohort /\ Doc(n, says) \in Document
<1>1. Make("DOC", n) \in Id BY Makes
<1>2. QED BY <1>1 DEF Doc, Document

LEMMA MemberIs ==
    ASSUME NEW n \in 0..26, NEW c \in Id, NEW says \in SUBSET Statement
    PROVE  /\ Member(n, c, says).id = Make("DOC", n) /\ Member(n, c, says).says = says
           /\ Member(n, c, says).cohort = c /\ Member(n, c, says) \in Document
<1>1. Make("DOC", n) \in Id BY Makes
<1>2. QED BY <1>1 DEF Member, Document

LEMMA FillerIs ==
    ASSUME similarity \in 0..4
    PROVE  /\ Filler \in Document /\ IsFiniteSet(Filler.says) /\ Filler.cohort = NoCohort
           /\ Filler.id = Make("DOC", 26)
           /\ \A x \in Filler.says : x.says = "paraphrase"
<1> DEFINE x == [says |-> "paraphrase", about |-> Make("SUBJ", 26), value |-> 1000]
<1>1. Filler = Doc(26, {x}) BY ParaphraseIs DEF Filler
<1>2. x \in ParaphraseSet /\ x.says = "paraphrase"
  <2>1. Make("SUBJ", 26) \in Id BY Makes
  <2>2. QED BY <2>1 DEF ParaphraseSet
<1> HIDE DEF x
<1>3. IsFiniteSet({x}) BY FS_Singleton
<1>4. {x} \in SUBSET Statement BY <1>2 DEF Statement
<1>5. QED BY <1>1, <1>2, <1>3, <1>4, DocIs

\* What a sample of finitely many finite documents reads as is finite.
LEMMA ReadingFinite ==
    ASSUME NEW s, IsFiniteSet(s.documents), \A d \in s.documents : IsFiniteSet(d.says)
    PROVE  IsFiniteSet(Facts(s)) /\ IsFiniteSet(Routes(s))
<1> DEFINE A(d) == {[doc |-> d.id, fact |-> f] : f \in {x \in d.says : x.says = "fact"}}
           B(d) == {[doc |-> d.id, from |-> x.from, to |-> x.to] :
                       x \in {y \in d.says : y.says = "route"}}
           a == [d \in s.documents |-> A(d)]
           b == [d \in s.documents |-> B(d)]
<1>1. ASSUME NEW d \in s.documents PROVE IsFiniteSet(A(d)) /\ IsFiniteSet(B(d))
  <2> DEFINE S == {x \in d.says : x.says = "fact"}
             R == {x \in d.says : x.says = "route"}
             f == [x \in S |-> [doc |-> d.id, fact |-> x]]
             g == [x \in R |-> [doc |-> d.id, from |-> x.from, to |-> x.to]]
  <2>1. S \in SUBSET d.says /\ R \in SUBSET d.says OBVIOUS
  <2>2. A(d) = {f[x] : x \in S} /\ B(d) = {g[x] : x \in R} OBVIOUS
  <2> HIDE DEF S, R, f, g
  <2>3. IsFiniteSet(S) /\ IsFiniteSet(R) BY <2>1, FS_Subset
  <2>4. IsFiniteSet({f[x] : x \in S}) /\ IsFiniteSet({g[x] : x \in R}) BY <2>3, ImageFinite
  <2>5. QED BY <2>2, <2>4
<1>2. Facts(s) = UNION {a[d] : d \in s.documents} /\ Routes(s) = UNION {b[d] : d \in s.documents}
  <2>1. {a[d] : d \in s.documents} = {A(d) : d \in s.documents} OBVIOUS
  <2>2. {b[d] : d \in s.documents} = {B(d) : d \in s.documents} OBVIOUS
  <2>3. Facts(s) = UNION {A(d) : d \in s.documents} BY DEF Facts
  <2>4. Routes(s) = UNION {B(d) : d \in s.documents} BY DEF Routes
  <2>5. QED BY <2>1, <2>2, <2>3, <2>4
<1>3. \A d \in s.documents : IsFiniteSet(a[d]) /\ IsFiniteSet(b[d]) BY <1>1
<1> HIDE DEF a, b
<1>4. IsFiniteSet({a[d] : d \in s.documents}) /\ IsFiniteSet({b[d] : d \in s.documents})
  BY ImageFinite
<1>5. QED BY ZenonT(40), <1>2, <1>3, <1>4, FS_UNION

-----------------------------------------------------------------------------
(* The builders: whatever they draw, the sample is in shape, the largest     *)
(* record of an argmax misleads, and with distractors close to the answer    *)
(* the sample's own text supports it.                                        *)

ArgmaxTrap(s) ==
    s.family = "aggregate_argmax" => \A x \in LargestHolders(s) : Entity(x) \in s.distractors

Drawn(s) ==
    /\ WellFormed(s) /\ s.family \in Families /\ ArgmaxTrap(s)
    /\ similarity >= 2 => Verified(s)

LEMMA FewFinite ==
    ASSUME NEW a, NEW b, NEW c, NEW d
    PROVE  IsFiniteSet({a}) /\ IsFiniteSet({a, b}) /\ IsFiniteSet({a, b, c}) /\ IsFiniteSet({a, b, c, d})
<1>1. IsFiniteSet({a}) BY FS_Singleton
<1>2. IsFiniteSet({a} \cup {b}) BY <1>1, FS_AddElement
<1>3. {a} \cup {b} = {a, b} OBVIOUS
<1>4. IsFiniteSet({a, b} \cup {c}) BY <1>2, <1>3, FS_AddElement
<1>5. {a, b} \cup {c} = {a, b, c} OBVIOUS
<1>6. IsFiniteSet({a, b, c} \cup {d}) BY <1>4, <1>5, FS_AddElement
<1>7. {a, b, c} \cup {d} = {a, b, c, d} OBVIOUS
<1>8. QED BY <1>1, <1>2, <1>3, <1>4, <1>5, <1>6, <1>7

LEMMA NeedleDraws ==
    ASSUME DrawsInRange, similarity \in 0..4, Needle
    PROVE  \E s : Drawn(s) /\ Generate(s)
<1> DEFINE subject == Make("SUBJ", 0)
<1>1. PICK value, other, wrong :
        /\ value \in Values /\ other \in NearMiss(subject, {})
        /\ wrong \in [1..2 -> DistractorValue(value)]
        /\ LET hit == Doc(0, {Fact(Make("REC", 0), subject, value)})
               near == Doc(1, {Fact(Make("REC", 1), other, wrong[1])})
               loose == Doc(2, {Paraphrase(Make("REC", 2), subject, wrong[2])})
           IN Generate(Sample("needle", subject, {hit, near, loose}, Number(value), {hit},
                              {Number(wrong[1]), Number(wrong[2])}))
  BY DEF Needle
<1> DEFINE f0 == Fact(Make("REC", 0), subject, value)
           f1 == Fact(Make("REC", 1), other, wrong[1])
           f2 == Paraphrase(Make("REC", 2), subject, wrong[2])
           hit == Doc(0, {f0})
           near == Doc(1, {f1})
           loose == Doc(2, {f2})
           s == Sample("needle", subject, {hit, near, loose}, Number(value), {hit},
                       {Number(wrong[1]), Number(wrong[2])})
<1>2. Generate(s) BY <1>1
<1>3. /\ subject \in Id /\ Make("REC", 0) \in Id /\ Make("REC", 1) \in Id /\ Make("DOC", 0) \in Id
      /\ Make("DOC", 0) # Make("DOC", 1)
  BY Makes
<1>4. other \in Id /\ other # subject
  <2>1. subject = <<"SUBJ", 0, 0, 0>> BY DEF Make
  <2>2. "SUBJ" \in Prefixes /\ 0 \in Letter BY DEF Prefixes, Letter
  <2> HIDE DEF subject
  <2>3. QED BY <1>1, <2>1, <2>2, NearMissIs
<1>5. /\ value \in Nat /\ wrong[1] \in Nat /\ wrong[2] \in Nat
      /\ similarity >= 2 => wrong[1] # value /\ wrong[2] # value
  <2>1. wrong[1] \in DistractorValue(value) /\ wrong[2] \in DistractorValue(value) BY <1>1
  <2>2. DistractorValue(value) \subseteq Values /\ (similarity >= 2 => value \notin DistractorValue(value))
    BY DEF DistractorValue
  <2>3. value \in Nat /\ Values \subseteq Nat BY <1>1 DEF DrawsInRange
  <2>4. QED BY <2>1, <2>2, <2>3
<1> HIDE DEF subject
<1>6. /\ f0 \in FactSet /\ f0.says = "fact" /\ f0.about = subject /\ f0.value = value
      /\ f1 \in FactSet /\ f1.says = "fact" /\ f1.about = other
      /\ f2 \in ParaphraseSet /\ f2.says = "paraphrase"
  <2>1. f2 = [says |-> "paraphrase", about |-> subject, value |-> wrong[2]] BY ParaphraseIs
  <2>2. f2 \in ParaphraseSet /\ f2.says = "paraphrase" BY <1>3, <1>5, <2>1 DEF ParaphraseSet
  <2> HIDE DEF f2
  <2>3. QED BY <1>3, <1>4, <1>5, <2>2, FactIs
<1> HIDE DEF f0, f1, f2
<1>7. /\ hit.id = Make("DOC", 0) /\ hit.says = {f0} /\ hit \in Document
      /\ near.id = Make("DOC", 1) /\ near.says = {f1} /\ near \in Document
      /\ loose.says = {f2} /\ loose \in Document
  <2>1. {f0} \in SUBSET Statement /\ {f1} \in SUBSET Statement /\ {f2} \in SUBSET Statement
    BY <1>6 DEF Statement
  <2>2. hit.id = Make("DOC", 0) /\ hit.says = {f0} /\ hit \in Document BY <2>1, DocIs
  <2>3. near.id = Make("DOC", 1) /\ near.says = {f1} /\ near \in Document BY <2>1, DocIs
  <2>4. loose.says = {f2} /\ loose \in Document BY <2>1, DocIs
  <2>5. QED BY <2>2, <2>3, <2>4
<1>8. /\ s.family = "needle" /\ s.subject = subject /\ s.threshold = 0
      /\ s.documents = {hit, near, loose, Filler} /\ s.answer = Number(value)
      /\ s.required = {Make("DOC", 0)} /\ s.distractors = {Number(wrong[1]), Number(wrong[2])}
  <2>1. {d.id : d \in {hit}} = {Make("DOC", 0)} BY <1>7
  <2> HIDE DEF hit, near, loose
  <2>2. {hit, near, loose} \cup {Filler} = {hit, near, loose, Filler} OBVIOUS
  <2>3. QED BY <2>1, <2>2 DEF Sample
<1> HIDE DEF hit, near, loose, s
<1> DEFINE F == [doc |-> Make("DOC", 0), fact |-> f0]
           E == [doc |-> Make("DOC", 1), fact |-> f1]
<1>9. Facts(s) = {F, E}
  <2>1. \A x \in Filler.says : x.says = "paraphrase" BY FillerIs
  <2>2. F \in Facts(s)
    <3>1. hit \in s.documents /\ f0 \in hit.says BY <1>7, <1>8
    <3>2. QED BY <1>6, <1>7, <3>1, FactsIn
  <2>3. E \in Facts(s)
    <3>1. near \in s.documents /\ f1 \in near.says BY <1>7, <1>8
    <3>2. QED BY <1>6, <1>7, <3>1, FactsIn
  <2>4. ASSUME NEW x \in Facts(s) PROVE x \in {F, E}
    <3>1. PICK d \in s.documents : \E f \in d.says : f.says = "fact" /\ x = [doc |-> d.id, fact |-> f]
      BY FactsIn
    <3>2. d = hit \/ d = near \/ d = loose \/ d = Filler BY <1>8, <3>1
    <3>3. QED BY <1>6, <1>7, <2>1, <3>1, <3>2
  <2>5. QED BY <2>2, <2>3, <2>4
<1>10. WellFormed(s)
  <2>1. Filler \in Document /\ IsFiniteSet(Filler.says) BY FillerIs
  <2>2. IsFiniteSet(s.documents)
    <3>1. IsFiniteSet({hit, near, loose, Filler}) BY FewFinite
    <3>2. QED BY <1>8, <3>1
  <2>3. \A d \in s.documents : IsFiniteSet(d.says)
    <3>1. IsFiniteSet({f0}) /\ IsFiniteSet({f1}) /\ IsFiniteSet({f2}) BY FS_Singleton
    <3>2. QED BY <1>7, <1>8, <2>1, <3>1
  <2>4. IsFiniteSet(Facts(s)) /\ IsFiniteSet(Routes(s)) BY <2>2, <2>3, ReadingFinite
  <2>5. s.documents \subseteq Document BY <1>7, <1>8, <2>1
  <2>6. s.answer \in AnswerSet /\ s.distractors \subseteq AnswerSet BY <1>5, <1>8 DEF AnswerSet
  <2>7. QED BY <1>3, <1>8, <2>2, <2>4, <2>5, <2>6 DEF WellFormed
<1>11. About(s, subject) = {F} BY <1>4, <1>6, <1>9 DEF About
<1>12. ASSUME similarity >= 2 PROVE Verified(s)
  <2>1. SolvedNeedle(s) = {Solution(Number(value), {Make("DOC", 0)})}
    <3>1. Cardinality({F}) = 1 BY FS_Singleton
    <3>2. SolvedNeedle(s) = {Solution(Number(x.fact.value), {x.doc}) : x \in {F}}
      BY <1>8, <1>11, <3>1 DEF SolvedNeedle
    <3>3. F.fact.value = value /\ F.doc = Make("DOC", 0) BY <1>6
    <3> HIDE DEF F
    <3>4. QED BY <3>2, <3>3
  <2>2. Rederived(s) = SolvedNeedle(s) BY <1>8 DEF Rederived
  <2>3. s.answer \notin s.distractors
    <3>1. \A m, n : Number(m) = Number(n) => m = n BY DEF Number
    <3>2. QED BY <1>5, <1>8, <1>12, <3>1
  <2>4. s.required \subseteq {d.id : d \in s.documents} BY <1>7, <1>8
  <2>5. QED BY <1>8, <2>1, <2>2, <2>3, <2>4 DEF Verified
<1>13. Drawn(s) BY <1>8, <1>10, <1>12 DEF Drawn, Families, ArgmaxTrap
<1>14. QED BY <1>2, <1>13

LEMMA SupersessionDraws ==
    ASSUME DrawsInRange, similarity \in 0..4, Supersession
    PROVE  \E s : Drawn(s) /\ Generate(s)
<1> DEFINE subject == Make("SUBJ", 0)
           n == ChainLength
           edge(new, old) == [says |-> "supersedes", record |-> Make("REC", new), over |-> Make("REC", old)]
<1> DEFINE Built(value, others, wrong) ==
             LET chain == {Doc(i, {Fact(Make("REC", i), subject, value[i])}
                                  \cup (IF i > 1 THEN {edge(i, i - 1)} ELSE {})) : i \in 1..n}
                 first == CHOOSE o \in others : TRUE
                 decoy(i) == Doc(10 + i, {Fact(Make("REC", 10 + i),
                                               IF i = 1 THEN first ELSE CHOOSE o \in others : o # first, wrong[i]),
                                          edge(20 + i, 10 + i)})
             IN Generate(Sample("supersession", subject, chain \cup {decoy(1), decoy(2)},
                                Number(value[n]), chain,
                                {Number(value[i]) : i \in 1..(n - 1)} \cup {Number(wrong[i]) : i \in 1..2}))
<1>0. \E value \in {f \in [1..n -> Values] : IsInjective(f)} :
      \E others \in kSubset(2, NearMiss(subject, {})), wrong \in [1..2 -> DistractorValue(value[n])] :
        Built(value, others, wrong)
  BY DEF Supersession
<1>1. PICK value, others, wrong :
        /\ value \in {f \in [1..n -> Values] : IsInjective(f)}
        /\ others \in kSubset(2, NearMiss(subject, {}))
        /\ wrong \in [1..2 -> DistractorValue(value[n])]
        /\ Built(value, others, wrong)
  <2> HIDE DEF Built
  <2>1. QED BY <1>0
<1> DEFINE first == CHOOSE o \in others : TRUE
           second == CHOOSE o \in others : o # first
           f(i) == Fact(Make("REC", i), subject, value[i])
           says(i) == {f(i)} \cup (IF i > 1 THEN {edge(i, i - 1)} ELSE {})
           c(i) == Doc(i, says(i))
           chain == {c(i) : i \in 1..n}
           g(i) == Fact(Make("REC", 10 + i), IF i = 1 THEN first ELSE second, wrong[i])
           decoy(i) == Doc(10 + i, {g(i), edge(20 + i, 10 + i)})
           s == Sample("supersession", subject, chain \cup {decoy(1), decoy(2)},
                       Number(value[n]), chain,
                       {Number(value[i]) : i \in 1..(n - 1)} \cup {Number(wrong[i]) : i \in 1..2})
<1>2. Generate(s) BY <1>1
<1> HIDE DEF Built
<1>3. /\ n \in 2..10 /\ n \in 1..n
      /\ \A i \in 0..26 : Make("REC", i) \in Id /\ Make("DOC", i) \in Id
      /\ \A i, j \in 0..26 : Make("REC", i) = Make("REC", j) => i = j
      /\ \A i, j \in 0..26 : Make("DOC", i) = Make("DOC", j) => i = j
      /\ subject \in Id
  BY Makes DEF DrawsInRange
<1>4. first \in Id /\ second \in Id /\ first # subject /\ second # subject
  <2>1. subject = <<"SUBJ", 0, 0, 0>> BY DEF Make
  <2>2. "SUBJ" \in Prefixes /\ 0 \in Letter BY DEF Prefixes, Letter
  <2>3. others \subseteq NearMiss(subject, {}) /\ Cardinality(others) = 2 BY <1>1 DEF kSubset
  <2>4. others # {} BY <2>3, FS_EmptySet
  <2>5. first \in others BY <2>4
  <2>6. \E o \in others : o # first
    <3>1. CASE others = {first}
      <4>1. Cardinality({first}) = 1 BY FS_Singleton
      <4> HIDE DEF first
      <4>2. QED BY <2>3, <3>1, <4>1
    <3>2. CASE others # {first} BY <2>5, <3>2
    <3>3. QED BY <3>1, <3>2
  <2>7. second \in others BY <2>6
  <2> HIDE DEF subject, first, second
  <2>8. QED BY <2>1, <2>2, <2>3, <2>5, <2>7, NearMissIs
<1>5. /\ \A i \in 1..n : value[i] \in Nat
      /\ \A i, j \in 1..n : value[i] = value[j] => i = j
      /\ \A i \in 1..2 : wrong[i] \in Nat /\ (similarity >= 2 => wrong[i] # value[n])
  <2>1. DistractorValue(value[n]) \subseteq Values
        /\ (similarity >= 2 => value[n] \notin DistractorValue(value[n]))
    BY DEF DistractorValue
  <2>2. Values \subseteq Nat BY DEF DrawsInRange
  <2>3. \A i \in 1..n : value[i] \in Nat BY <1>1, <2>2
  <2>4. \A i, j \in 1..n : value[i] = value[j] => i = j BY <1>1 DEF IsInjective
  <2>5. \A i \in 1..2 : wrong[i] \in DistractorValue(value[n]) BY <1>1
  <2>6. QED BY <2>1, <2>2, <2>3, <2>4, <2>5
<1> HIDE DEF subject, first, second
<1>6. \A i \in 1..n : /\ f(i) \in FactSet /\ f(i).says = "fact" /\ f(i).about = subject
                      /\ f(i).value = value[i] /\ f(i).record = Make("REC", i)
  <2> TAKE i \in 1..n
  <2>1. Make("REC", i) \in Id /\ value[i] \in Nat /\ subject \in Id BY <1>3, <1>5
  <2>2. QED BY <2>1, FactIs
<1>7. \A i \in 1..2 : /\ g(i) \in FactSet /\ g(i).says = "fact" /\ g(i).about # subject
  <2> TAKE i \in 1..2
  <2>1. Make("REC", 10 + i) \in Id /\ wrong[i] \in Nat BY <1>3, <1>5
  <2>2. (IF i = 1 THEN first ELSE second) \in Id /\ (IF i = 1 THEN first ELSE second) # subject BY <1>4
  <2>3. QED BY <2>1, <2>2, FactIs
<1>8. \A i, j \in 0..26 : /\ edge(i, j) \in EdgeSet /\ edge(i, j).says = "supersedes"
                          /\ edge(i, j).record = Make("REC", i) /\ edge(i, j).over = Make("REC", j)
  BY <1>3 DEF EdgeSet
<1>8a. /\ edge(21, 11).record = Make("REC", 21) /\ edge(21, 11).over = Make("REC", 11)
       /\ edge(22, 12).record = Make("REC", 22) /\ edge(22, 12).over = Make("REC", 12)
  OBVIOUS
<1> HIDE DEF f, g, edge
<1>9. \A i \in 1..n : /\ says(i) \in SUBSET Statement /\ IsFiniteSet(says(i)) /\ f(i) \in says(i)
                      /\ i > 1 => edge(i, i - 1) \in says(i)
                      /\ \A x \in says(i) : x = f(i) \/ (i > 1 /\ x = edge(i, i - 1))
  <2> TAKE i \in 1..n
  <2>1. f(i) \in Statement BY <1>6 DEF Statement
  <2>2. i > 1 => edge(i, i - 1) \in Statement
    <3>1. i > 1 => i \in 0..26 /\ i - 1 \in 0..26 BY <1>3
    <3>2. QED BY <1>8, <3>1 DEF Statement
  <2>3. IsFiniteSet(says(i))
    <3>1. IsFiniteSet({f(i)}) /\ IsFiniteSet({f(i), edge(i, i - 1)}) BY FewFinite
    <3>2. says(i) = IF i > 1 THEN {f(i), edge(i, i - 1)} ELSE {f(i)} OBVIOUS
    <3> HIDE DEF says
    <3>3. QED BY <3>1, <3>2
  <2>4. QED BY <2>1, <2>2, <2>3
<1>10. \A i \in 1..n : c(i).id = Make("DOC", i) /\ c(i).says = says(i) /\ c(i) \in Document
  <2> TAKE i \in 1..n
  <2>1. i \in 0..26 BY <1>3
  <2>3. says(i) \in SUBSET Statement BY <1>9
  <2> HIDE DEF says
  <2>2. QED BY <2>1, <2>3, DocIs
<1>11. \A i \in 1..2 : /\ decoy(i).id = Make("DOC", 10 + i) /\ decoy(i).says = {g(i), edge(20 + i, 10 + i)}
                       /\ decoy(i) \in Document
  <2> TAKE i \in 1..2
  <2>1. 10 + i \in 0..26 /\ 20 + i \in 0..26 OBVIOUS
  <2>2. {g(i), edge(20 + i, 10 + i)} \in SUBSET Statement BY <1>7, <1>8, <2>1 DEF Statement
  <2>3. QED BY <2>1, <2>2, DocIs
<1> DEFINE D == {Make("DOC", i) : i \in 1..n}
<1>12. /\ s.family = "supersession" /\ s.subject = subject /\ s.threshold = 0
       /\ s.documents = (chain \cup {decoy(1), decoy(2)}) \cup {Filler} /\ s.answer = Number(value[n])
       /\ s.required = D
       /\ s.distractors = {Number(value[i]) : i \in 1..(n - 1)} \cup {Number(wrong[i]) : i \in 1..2}
  <2>1. {d.id : d \in chain} = D BY <1>10
  <2> HIDE DEF chain, decoy, D
  <2>2. QED BY <2>1 DEF Sample
<1> HIDE DEF s, says
<1>13. \A d \in s.documents : (\E i \in 1..n : d = c(i)) \/ d = decoy(1) \/ d = decoy(2) \/ d = Filler
  BY <1>12
<1>14. (\A i \in 1..n : c(i) \in s.documents) /\ decoy(1) \in s.documents /\ decoy(2) \in s.documents
       /\ Filler \in s.documents
  BY <1>12
<1>15. \A x \in Filler.says : x.says = "paraphrase" BY FillerIs
<1> HIDE DEF c, decoy
<1> DEFINE m(i) == [doc |-> Make("DOC", i), fact |-> f(i)]
           mine == {m(i) : i \in 1..n}
<1>16. About(s, subject) = mine
  <2>1. ASSUME NEW i \in 1..n PROVE m(i) \in About(s, subject)
    <3>1. c(i) \in s.documents /\ f(i) \in c(i).says /\ f(i).says = "fact" /\ f(i).about = subject
      BY <1>6, <1>9, <1>10, <1>14
    <3>2. m(i) = [doc |-> c(i).id, fact |-> f(i)] BY <1>10
    <3>3. m(i) \in Facts(s) BY <3>1, <3>2, FactsIn
    <3>4. QED BY <3>1, <3>3 DEF About
  <2>2. ASSUME NEW x \in About(s, subject) PROVE \E i \in 1..n : x = m(i)
    <3>1. x \in Facts(s) /\ x.fact.about = subject BY DEF About
    <3>2. PICK d \in s.documents : \E y \in d.says : y.says = "fact" /\ x = [doc |-> d.id, fact |-> y]
      BY <3>1, FactsIn
    <3>3. PICK y \in d.says : y.says = "fact" /\ x = [doc |-> d.id, fact |-> y] BY <3>2
    <3>4. y.about = subject BY <3>1, <3>3
    <3>5. CASE \E i \in 1..n : d = c(i)
      <4>1. PICK i \in 1..n : d = c(i) BY <3>5
      <4>2. y = f(i)
        <5>1. y = f(i) \/ (i > 1 /\ y = edge(i, i - 1)) BY <1>9, <1>10, <3>3, <4>1
        <5>2. i > 1 => edge(i, i - 1).says = "supersedes"
          <6>1. i > 1 => i \in 0..26 /\ i - 1 \in 0..26 BY <1>3
          <6>2. QED BY <1>8, <6>1
        <5>3. QED BY <3>3, <5>1, <5>2
      <4>3. QED BY <1>10, <3>3, <4>1, <4>2
    <3>6. ASSUME NEW i \in 1..2, d = decoy(i) PROVE FALSE
      <4>1. y = g(i) \/ y = edge(20 + i, 10 + i) BY <1>11, <3>3, <3>6
      <4>2. edge(20 + i, 10 + i).says = "supersedes"
        <5>1. 10 + i \in 0..26 /\ 20 + i \in 0..26 OBVIOUS
        <5>2. QED BY <1>8, <5>1
      <4>3. QED BY <1>7, <3>3, <3>4, <4>1, <4>2
    <3>7. CASE d = Filler BY <1>15, <3>3, <3>7
    <3>8. 1 \in 1..2 /\ 2 \in 1..2 OBVIOUS
    <3>9. QED BY <1>13, <3>5, <3>6, <3>7, <3>8
  <2> HIDE DEF m
  <2>3. QED BY <2>1, <2>2
<1>17. /\ \A i \in 2..n : edge(i, i - 1) \in Edges(s)
       /\ \A x \in Edges(s) : \/ \E i \in 2..n : x = edge(i, i - 1)
                              \/ x = edge(21, 11) \/ x = edge(22, 12)
  <2>1. ASSUME NEW i \in 2..n PROVE edge(i, i - 1) \in Edges(s)
    <3>1. i \in 1..n /\ i > 1 /\ i \in 0..26 /\ i - 1 \in 0..26 BY <1>3
    <3>2. c(i) \in s.documents /\ edge(i, i - 1) \in c(i).says BY <1>9, <1>10, <1>14, <3>1
    <3>3. edge(i, i - 1).says = "supersedes" BY <1>8, <3>1
    <3>4. QED BY <3>2, <3>3, EdgesIn
  <2>2. ASSUME NEW x \in Edges(s)
        PROVE  (\E i \in 2..n : x = edge(i, i - 1)) \/ x = edge(21, 11) \/ x = edge(22, 12)
    <3>1. PICK d \in s.documents : x \in d.says /\ x.says = "supersedes" BY EdgesIn
    <3>2. CASE \E i \in 1..n : d = c(i)
      <4>1. PICK i \in 1..n : d = c(i) BY <3>2
      <4>2. x = f(i) \/ (i > 1 /\ x = edge(i, i - 1)) BY <1>9, <1>10, <3>1, <4>1
      <4>3. x # f(i) BY <1>6, <3>1
      <4>4. i > 1 => i \in 2..n BY <1>3
      <4>5. QED BY <4>2, <4>3, <4>4
    <3>3. CASE d = decoy(1)
      <4>1. 1 \in 1..2 /\ 20 + 1 = 21 /\ 10 + 1 = 11 OBVIOUS
      <4>2. decoy(1).says = {g(1), edge(21, 11)} BY <1>11, <4>1
      <4>3. x # g(1) BY <1>7, <3>1, <4>1
      <4>4. QED BY <3>1, <3>3, <4>2, <4>3
    <3>4. CASE d = decoy(2)
      <4>1. 2 \in 1..2 /\ 20 + 2 = 22 /\ 10 + 2 = 12 OBVIOUS
      <4>2. decoy(2).says = {g(2), edge(22, 12)} BY <1>11, <4>1
      <4>3. x # g(2) BY <1>7, <3>1, <4>1
      <4>4. QED BY <3>1, <3>4, <4>2, <4>3
    <3>5. CASE d = Filler BY <1>15, <3>1, <3>5
    <3>6. QED BY <1>13, <3>2, <3>3, <3>4, <3>5
  <2>3. QED BY <2>1, <2>2
<1>18. WellFormed(s)
  <2>1. Filler \in Document /\ IsFiniteSet(Filler.says) BY FillerIs
  <2>2. IsFiniteSet(s.documents)
    <3> DEFINE h == [i \in 1..n |-> c(i)]
    <3>1. chain = {h[i] : i \in 1..n} OBVIOUS
    <3>2. IsFiniteSet(1..n) BY <1>3, FS_Interval
    <3> HIDE DEF h
    <3>3. IsFiniteSet(chain) BY <3>1, <3>2, ImageFinite
    <3>4. IsFiniteSet({decoy(1), decoy(2)}) /\ IsFiniteSet({Filler}) BY FewFinite
    <3> HIDE DEF chain
    <3>5. IsFiniteSet(chain \cup {decoy(1), decoy(2)}) BY <3>3, <3>4, FS_Union
    <3>6. IsFiniteSet((chain \cup {decoy(1), decoy(2)}) \cup {Filler}) BY <3>4, <3>5, FS_Union
    <3>7. QED BY <1>12, <3>6
  <2>3. \A d \in s.documents : IsFiniteSet(d.says) /\ d \in Document
    <3> TAKE d \in s.documents
    <3>1. CASE \E i \in 1..n : d = c(i) BY <1>9, <1>10, <3>1
    <3>2. ASSUME NEW i \in 1..2, d = decoy(i) PROVE IsFiniteSet(d.says) /\ d \in Document
      <4>1. IsFiniteSet({g(i), edge(20 + i, 10 + i)}) BY FewFinite
      <4>2. QED BY <1>11, <3>2, <4>1
    <3>3. CASE d = Filler BY <2>1, <3>3
    <3>4. 1 \in 1..2 /\ 2 \in 1..2 OBVIOUS
    <3>5. QED BY <1>13, <3>1, <3>2, <3>3, <3>4
  <2>4. IsFiniteSet(Facts(s)) /\ IsFiniteSet(Routes(s)) BY <2>2, <2>3, ReadingFinite
  <2>5. s.answer \in AnswerSet BY <1>3, <1>5, <1>12 DEF AnswerSet
  <2>6. s.distractors \subseteq AnswerSet
    <3>1. \A i \in 1..(n - 1) : value[i] \in Nat BY <1>3, <1>5
    <3>2. QED BY <1>5, <1>12, <3>1 DEF AnswerSet
  <2>7. s.required \subseteq Id
    <3>1. \A i \in 1..n : i \in 0..26 BY <1>3
    <3>2. QED BY <1>3, <1>12, <3>1
  <2>8. QED BY <1>3, <1>12, <2>2, <2>3, <2>4, <2>5, <2>6, <2>7 DEF WellFormed
<1> DEFINE records == {x.fact.record : x \in mine}
           touch == {x \in Edges(s) : {x.record, x.over} \cap records # {}}
           over == {e.over : e \in touch}
           current == {x \in mine : x.fact.record \notin over}
<1>19. records = {Make("REC", i) : i \in 1..n}
  <2>1. \A i \in 1..n : m(i).fact.record = Make("REC", i) BY <1>6
  <2> HIDE DEF m
  <2>2. QED BY <2>1
<1>20. over = {Make("REC", i) : i \in 1..(n - 1)}
  <2>1. ASSUME NEW i \in 2..n PROVE edge(i, i - 1) \in touch /\ edge(i, i - 1).over = Make("REC", i - 1)
    <3>1. i \in 1..n /\ i \in 0..26 /\ i - 1 \in 0..26 BY <1>3
    <3>2. edge(i, i - 1) \in Edges(s) BY <1>17
    <3>3. edge(i, i - 1).record \in records /\ edge(i, i - 1).over = Make("REC", i - 1) BY <1>8, <1>19, <3>1
    <3> HIDE DEF records
    <3>4. QED BY <3>2, <3>3
  <2>2. ASSUME NEW x \in touch PROVE \E i \in 2..n : x = edge(i, i - 1)
    <3>1. x \in Edges(s) /\ (x.record \in records \/ x.over \in records) OBVIOUS
    <3>2. ASSUME NEW i \in {11, 12, 21, 22} PROVE Make("REC", i) \notin records
      <4>1. i \in 0..26 /\ \A j \in 1..n : j \in 0..26 /\ i # j BY <1>3
      <4> HIDE DEF records
      <4>2. QED BY <1>3, <1>19, <4>1
    <3>3. x # edge(21, 11) /\ x # edge(22, 12)
      <4>1. /\ Make("REC", 11) \notin records /\ Make("REC", 12) \notin records
            /\ Make("REC", 21) \notin records /\ Make("REC", 22) \notin records
        BY <3>2
      <4> HIDE DEF records, touch
      <4>2. QED BY <1>8a, <3>1, <4>1
    <3> HIDE DEF records, touch
    <3>4. QED BY <1>17, <3>1, <3>3
  <2>3. ASSUME NEW i \in 1..(n - 1) PROVE i + 1 \in 2..n /\ (i + 1) - 1 = i BY <1>3
  <2>4. ASSUME NEW i \in 2..n PROVE i - 1 \in 1..(n - 1) BY <1>3
  <2> HIDE DEF touch
  <2>5. QED BY <2>1, <2>2, <2>3, <2>4
<1>21. current = {m(n)}
  <2>1. \A i \in 1..n : m(i).fact.record = Make("REC", i) BY <1>6
  <2>2. \A i \in 1..n : Make("REC", i) \in over <=> i # n
    <3> TAKE i \in 1..n
    <3>1. i \in 0..26 /\ \A j \in 1..(n - 1) : j \in 0..26 BY <1>3
    <3>2. i # n <=> i \in 1..(n - 1) BY <1>3
    <3> HIDE DEF over
    <3>3. QED BY <1>3, <1>20, <3>1, <3>2
  <2> HIDE DEF over, m
  <2>3. QED BY <1>3, <2>1, <2>2
<1>22. SolvedSupersession(s) = {Solution(Number(value[n]), D)}
  <2>1. Cardinality(current) = 1
    <3> HIDE DEF current, m
    <3>1. QED BY <1>21, FS_Singleton
  <2>2. {x.doc : x \in mine} = D
    <3>1. \A i \in 1..n : m(i).doc = Make("DOC", i) OBVIOUS
    <3> HIDE DEF m
    <3>2. QED BY <3>1
  <2>3. SolvedSupersession(s) = {Solution(Number(x.fact.value), {y.doc : y \in mine}) :
                                   x \in {y \in current : Cardinality(current) = 1}}
    BY <1>12, <1>16 DEF SolvedSupersession
  <2>4. m(n).fact.value = value[n] BY <1>3, <1>6
  <2> HIDE DEF current, mine, m, D
  <2>5. QED BY <1>21, <2>1, <2>2, <2>3, <2>4
<1>23. ASSUME similarity >= 2 PROVE Verified(s)
  <2>1. Rederived(s) = SolvedSupersession(s) BY <1>12 DEF Rederived
  <2>2. s.answer \notin s.distractors
    <3>1. \A i, j : Number(i) = Number(j) => i = j BY DEF Number
    <3>2. \A i \in 1..(n - 1) : value[i] # value[n]
      <4>1. \A i \in 1..(n - 1) : i \in 1..n /\ i # n BY <1>3
      <4>2. QED BY <1>3, <1>5, <4>1
    <3>3. \A i \in 1..2 : wrong[i] # value[n] BY <1>5, <1>23
    <3>4. QED BY <1>12, <3>1, <3>2, <3>3
  <2>3. s.required \subseteq {d.id : d \in s.documents} BY <1>10, <1>12, <1>14
  <2> HIDE DEF D
  <2>4. QED BY <1>12, <1>22, <2>1, <2>2, <2>3 DEF Verified
<1>24. Drawn(s) BY <1>12, <1>18, <1>23 DEF Drawn, Families, ArgmaxTrap
<1>25. QED BY <1>2, <1>24

LEMMA MultiHopDraws ==
    ASSUME DrawsInRange, similarity \in 0..4, MultiHop
    PROVE  \E s : Drawn(s) /\ Generate(s)
<1> DEFINE n == Hops
           node(i) == Make("NODE", (13 * i) % 27)
           route(x, y) == [says |-> "route", from |-> x, to |-> y]
           used == {node(i) : i \in 0..n}
           first(i) == Doc(i, {route(node(i), node(i + 1))})
           required(value) == {first(i) : i \in 0..(n - 1)} \cup {Doc(n, {Fact(Make("REC", 0), node(n), value)})}
           decoy(i, start, v) ==
                {Doc(10 * i, {route(start, Make("NODE", 6 * i - 1))}),
                 Doc(10 * i + 1, {route(Make("NODE", 6 * i - 1), Make("NODE", 8 * i - 1))}),
                 Doc(10 * i + 2, {Fact(Make("REC", i), Make("NODE", 8 * i - 1), v)})}
           Whole(value, wrong, near1, near2) ==
                Sample("multi_hop", node(0),
                       required(value) \cup decoy(1, near1, wrong[1]) \cup decoy(2, near2, wrong[2]),
                       Number(value), required(value), {Number(wrong[i]) : i \in 1..2})
<1>0. \E value \in Values :
      \E wrong \in [1..2 -> DistractorValue(value)], near1 \in NearMiss(node(0), used) :
      \E near2 \in NearMiss(node(1), used \cup {near1}) :
        Generate(Whole(value, wrong, near1, near2))
  BY DEF MultiHop
<1>1. PICK value, wrong, near1, near2 :
        /\ value \in Values /\ wrong \in [1..2 -> DistractorValue(value)]
        /\ near1 \in NearMiss(node(0), used) /\ near2 \in NearMiss(node(1), used \cup {near1})
        /\ Generate(Whole(value, wrong, near1, near2))
  <2> HIDE DEF Whole, used, node
  <2>1. QED BY <1>0
<1> DEFINE s == Whole(value, wrong, near1, near2)
           N(i) == Make("NODE", i)
           D(i) == Make("DOC", i)
           f0 == Fact(Make("REC", 0), node(n), value)
           f1 == Fact(Make("REC", 1), N(7), wrong[1])
           f2 == Fact(Make("REC", 2), N(15), wrong[2])
           last == Doc(n, {f0})
           a1 == Doc(10, {route(near1, N(5))})
           b1 == Doc(11, {route(N(5), N(7))})
           c1 == Doc(12, {f1})
           a2 == Doc(20, {route(near2, N(11))})
           b2 == Doc(21, {route(N(11), N(15))})
           c2 == Doc(22, {f2})
           decoys == {a1, b1, c1, a2, b2, c2}
<1>2. Generate(s) BY <1>1
<1>3. n = 2 \/ n = 3 BY DEF DrawsInRange
<1>4. /\ \A i \in 0..26 : N(i) \in Id /\ D(i) \in Id /\ Make("REC", i) \in Id
      /\ \A i, j \in 0..26 : N(i) = N(j) => i = j
      /\ \A i, j \in 0..26 : D(i) = D(j) => i = j
  BY Makes
<1>5. /\ N(5) = <<"NODE", 0, 1, 2>> /\ N(11) = <<"NODE", 1, 0, 2>>
      /\ N(0) = <<"NODE", 0, 0, 0>> /\ N(13) = <<"NODE", 1, 1, 1>>
  BY DEF Make
<1>6. node(0) = N(0) /\ node(1) = N(13) /\ node(2) = N(26) /\ node(3) = N(12)
  <2>1. (13 * 0) % 27 = 0 /\ (13 * 1) % 27 = 13 /\ (13 * 2) % 27 = 26 /\ (13 * 3) % 27 = 12 OBVIOUS
  <2>2. QED BY <2>1
<1>7. /\ near1 \in Id /\ near1 \notin used /\ near1 # N(5) /\ near1 # N(11)
      /\ near2 \in Id /\ near2 \notin used /\ near2 # N(5) /\ near2 # N(11) /\ near2 # near1
  <2>1. "NODE" \in Prefixes /\ 0 \in Letter /\ 1 \in Letter BY DEF Prefixes, Letter
  <2>2. near1 \in NearMiss(<<"NODE", 0, 0, 0>>, used) BY <1>1, <1>5, <1>6
  <2>3. near2 \in NearMiss(<<"NODE", 1, 1, 1>>, used \cup {near1}) BY <1>1, <1>5, <1>6
  <2> HIDE DEF used, N
  <2>4. /\ near1 \in Id /\ near1 \notin used
        /\ \E d \in Letter : near1 = <<"NODE", d, 0, 0>> \/ near1 = <<"NODE", 0, d, 0>>
                             \/ near1 = <<"NODE", 0, 0, d>>
    BY <2>1, <2>2, NearMissIs
  <2>5. /\ near2 \in Id /\ near2 \notin used \cup {near1}
        /\ \E d \in Letter : near2 = <<"NODE", d, 1, 1>> \/ near2 = <<"NODE", 1, d, 1>>
                             \/ near2 = <<"NODE", 1, 1, d>>
    BY <2>1, <2>3, NearMissIs
  <2>6. near1 # N(5) /\ near1 # N(11) BY <1>5, <2>4
  <2>7. near2 # N(5) /\ near2 # N(11) BY <1>5, <2>5
  <2>8. QED BY <2>4, <2>5, <2>6, <2>7
<1>8. /\ value \in Nat /\ wrong[1] \in Nat /\ wrong[2] \in Nat
      /\ similarity >= 2 => wrong[1] # value /\ wrong[2] # value
  <2>1. wrong[1] \in DistractorValue(value) /\ wrong[2] \in DistractorValue(value) BY <1>1
  <2>2. DistractorValue(value) \subseteq Values /\ (similarity >= 2 => value \notin DistractorValue(value))
    BY DEF DistractorValue
  <2>3. value \in Nat /\ Values \subseteq Nat BY <1>1 DEF DrawsInRange
  <2>4. QED BY <2>1, <2>2, <2>3
<1>9. /\ \A i \in 0..n : node(i) \in Id /\ node(i) # N(5) /\ node(i) # N(11) /\ node(i) # N(7) /\ node(i) # N(15)
      /\ \A i, j \in 0..n : node(i) = node(j) => i = j
  <2>1. \A i \in 0..n : i = 0 \/ i = 1 \/ i = 2 \/ i = 3 BY <1>3
  <2> HIDE DEF node, N
  <2>2. /\ N(0) \in Id /\ N(13) \in Id /\ N(26) \in Id /\ N(12) \in Id
        /\ N(0) # N(13) /\ N(0) # N(26) /\ N(0) # N(12) /\ N(13) # N(26) /\ N(13) # N(12) /\ N(26) # N(12)
    BY <1>4
  <2>3. \A i \in {0, 13, 26, 12} : N(i) # N(5) /\ N(i) # N(11) /\ N(i) # N(7) /\ N(i) # N(15)
    BY <1>4
  <2>4. QED BY <1>6, <2>1, <2>2, <2>3
<1> HIDE DEF N, node
<1>10. required(value) = {first(i) : i \in 0..(n - 1)} \cup {last} OBVIOUS
<1>11. decoy(1, near1, wrong[1]) = {a1, b1, c1} /\ decoy(2, near2, wrong[2]) = {a2, b2, c2}
  <2>1. /\ 10 * 1 = 10 /\ 10 * 1 + 1 = 11 /\ 10 * 1 + 2 = 12 /\ 6 * 1 - 1 = 5 /\ 8 * 1 - 1 = 7
        /\ 10 * 2 = 20 /\ 10 * 2 + 1 = 21 /\ 10 * 2 + 2 = 22 /\ 6 * 2 - 1 = 11 /\ 8 * 2 - 1 = 15
    OBVIOUS
  <2>2. decoy(1, near1, wrong[1]) = {a1, b1, c1} BY <2>1 DEF N
  <2>3. decoy(2, near2, wrong[2]) = {a2, b2, c2} BY <2>1 DEF N
  <2>4. QED BY <2>2, <2>3
<1>12. /\ f0 \in FactSet /\ f0.says = "fact" /\ f0.about = node(n) /\ f0.value = value
       /\ f1 \in FactSet /\ f1.says = "fact" /\ f1.about = N(7)
       /\ f2 \in FactSet /\ f2.says = "fact" /\ f2.about = N(15)
  <2>1. node(n) \in Id BY <1>3, <1>9
  <2>2. N(7) \in Id /\ N(15) \in Id /\ Make("REC", 0) \in Id /\ Make("REC", 1) \in Id /\ Make("REC", 2) \in Id
    BY <1>4
  <2>3. f0 \in FactSet /\ f0.says = "fact" /\ f0.about = node(n) /\ f0.value = value
    BY <1>8, <2>1, <2>2, FactIs
  <2>4. f1 \in FactSet /\ f1.says = "fact" /\ f1.about = N(7) BY <1>8, <2>2, FactIs
  <2>5. f2 \in FactSet /\ f2.says = "fact" /\ f2.about = N(15) BY <1>8, <2>2, FactIs
  <2>6. QED BY <2>3, <2>4, <2>5
<1> HIDE DEF f0, f1, f2
<1>13. \A x, y \in Id : /\ route(x, y) \in RouteSet /\ route(x, y).says = "route"
                        /\ route(x, y).from = x /\ route(x, y).to = y
  BY DEF RouteSet
<1> HIDE DEF route
<1>14. \A i \in 0..(n - 1) : /\ first(i).id = D(i) /\ first(i).says = {route(node(i), node(i + 1))}
                             /\ first(i) \in Document
  <2> TAKE i \in 0..(n - 1)
  <2>1. i \in 0..26 /\ i \in 0..n /\ i + 1 \in 0..n BY <1>3
  <2>2. {route(node(i), node(i + 1))} \in SUBSET Statement BY <1>9, <1>13, <2>1 DEF Statement
  <2>3. QED BY <2>1, <2>2, DocIs
<1>15. last.id = D(n) /\ last.says = {f0} /\ last \in Document
  <2>1. n \in 0..26 BY <1>3
  <2>2. {f0} \in SUBSET Statement BY <1>12 DEF Statement
  <2>3. QED BY <2>1, <2>2, DocIs
<1>16. /\ a1.id = D(10) /\ a1.says = {route(near1, N(5))} /\ a1 \in Document
       /\ b1.id = D(11) /\ b1.says = {route(N(5), N(7))} /\ b1 \in Document
       /\ a2.id = D(20) /\ a2.says = {route(near2, N(11))} /\ a2 \in Document
       /\ b2.id = D(21) /\ b2.says = {route(N(11), N(15))} /\ b2 \in Document
  <2>1. N(5) \in Id /\ N(7) \in Id /\ N(11) \in Id /\ N(15) \in Id BY <1>4
  <2>2. /\ {route(near1, N(5))} \in SUBSET Statement /\ {route(N(5), N(7))} \in SUBSET Statement
        /\ {route(near2, N(11))} \in SUBSET Statement /\ {route(N(11), N(15))} \in SUBSET Statement
    BY <1>7, <1>13, <2>1 DEF Statement
  <2>3. a1.id = D(10) /\ a1.says = {route(near1, N(5))} /\ a1 \in Document BY <2>2, DocIs
  <2>4. b1.id = D(11) /\ b1.says = {route(N(5), N(7))} /\ b1 \in Document BY <2>2, DocIs
  <2>5. a2.id = D(20) /\ a2.says = {route(near2, N(11))} /\ a2 \in Document BY <2>2, DocIs
  <2>6. b2.id = D(21) /\ b2.says = {route(N(11), N(15))} /\ b2 \in Document BY <2>2, DocIs
  <2>7. QED BY <2>3, <2>4, <2>5, <2>6
<1>17. /\ c1.id = D(12) /\ c1.says = {f1} /\ c1 \in Document
       /\ c2.id = D(22) /\ c2.says = {f2} /\ c2 \in Document
  <2>1. {f1} \in SUBSET Statement /\ {f2} \in SUBSET Statement BY <1>12 DEF Statement
  <2>2. c1.id = D(12) /\ c1.says = {f1} /\ c1 \in Document BY <2>1, DocIs
  <2>3. c2.id = D(22) /\ c2.says = {f2} /\ c2 \in Document BY <2>1, DocIs
  <2>4. QED BY <2>2, <2>3
<1> DEFINE Q == {D(i) : i \in 0..n}
<1>18. {d.id : d \in required(value)} = Q
  <2>1. \A i \in 0..n : i \in 0..(n - 1) \/ i = n BY <1>3
  <2>2. \A i \in 0..(n - 1) : i \in 0..n BY <1>3
  <2>3. n \in 0..n BY <1>3
  <2> HIDE DEF required, first, last, D
  <2>4. QED BY <1>10, <1>14, <1>15, <2>1, <2>2, <2>3
<1>19. /\ s.family = "multi_hop" /\ s.subject = node(0) /\ s.threshold = 0
       /\ s.documents = ({first(i) : i \in 0..(n - 1)} \cup {last, Filler}) \cup decoys
       /\ s.answer = Number(value) /\ s.required = Q
       /\ s.distractors = {Number(wrong[i]) : i \in 1..2}
  <2> DEFINE req == required(value)
             d1 == decoy(1, near1, wrong[1])
             d2 == decoy(2, near2, wrong[2])
  <2>1. /\ s.family = "multi_hop" /\ s.subject = node(0) /\ s.threshold = 0
        /\ s.documents = (req \cup d1 \cup d2) \cup {Filler}
        /\ s.answer = Number(value) /\ s.required = {d.id : d \in req}
        /\ s.distractors = {Number(wrong[i]) : i \in 1..2}
    <3> HIDE DEF req, d1, d2
    <3>1. s = Sample("multi_hop", node(0), req \cup d1 \cup d2, Number(value), req,
                     {Number(wrong[i]) : i \in 1..2})
      BY DEF req, d1, d2
    <3> HIDE DEF s
    <3>2. QED BY <3>1 DEF Sample
  <2> HIDE DEF a1, b1, c1, a2, b2, c2, last, first
  <2>2. (req \cup d1 \cup d2) \cup {Filler} = ({first(i) : i \in 0..(n - 1)} \cup {last, Filler}) \cup decoys
    <3> HIDE DEF req, d1, d2
    <3>1. req = {first(i) : i \in 0..(n - 1)} \cup {last} /\ d1 = {a1, b1, c1} /\ d2 = {a2, b2, c2}
      BY <1>10, <1>11 DEF req, d1, d2
    <3>2. QED BY <3>1
  <2>3. QED BY <1>18, <2>1, <2>2
<1> HIDE DEF s, Whole, required, decoy, first, last, a1, b1, c1, a2, b2, c2, Q, D
<1>20. /\ \A d \in s.documents : (\E i \in 0..(n - 1) : d = first(i)) \/ d = last \/ d = Filler \/ d \in decoys
       /\ (\A i \in 0..(n - 1) : first(i) \in s.documents) /\ last \in s.documents
       /\ Filler \in s.documents /\ decoys \subseteq s.documents
  BY <1>19
<1>21. \A x \in Filler.says : x.says = "paraphrase" BY FillerIs
<1> DEFINE r(i) == [doc |-> D(i), from |-> node(i), to |-> node(i + 1)]
           ra1 == [doc |-> D(10), from |-> near1, to |-> N(5)]
           rb1 == [doc |-> D(11), from |-> N(5), to |-> N(7)]
           ra2 == [doc |-> D(20), from |-> near2, to |-> N(11)]
           rb2 == [doc |-> D(21), from |-> N(11), to |-> N(15)]
           chain == {r(i) : i \in 0..(n - 1)}
<1>22. Routes(s) = chain \cup {ra1, rb1, ra2, rb2}
  <2>1. N(5) \in Id /\ N(7) \in Id /\ N(11) \in Id /\ N(15) \in Id BY <1>4
  <2>2. \A i \in 0..(n - 1) : node(i) \in Id /\ node(i + 1) \in Id
    <3>1. \A i \in 0..(n - 1) : i \in 0..n /\ i + 1 \in 0..n BY <1>3
    <3>2. QED BY <1>9, <3>1
  <2>3. ASSUME NEW i \in 0..(n - 1) PROVE r(i) \in Routes(s)
    <3> DEFINE x == route(node(i), node(i + 1))
    <3>1. x \in first(i).says /\ first(i) \in s.documents /\ first(i).id = D(i) BY <1>14, <1>20
    <3>2. x.says = "route" /\ x.from = node(i) /\ x.to = node(i + 1) BY <1>13, <2>2
    <3> HIDE DEF x
    <3>3. r(i) = [doc |-> first(i).id, from |-> x.from, to |-> x.to] BY <3>1, <3>2
    <3> HIDE DEF r
    <3>4. QED BY <3>1, <3>2, <3>3, RoutesIn
  <2>4. ASSUME NEW d \in decoys, NEW x \in Id, NEW y \in Id, d.says = {route(x, y)}
        PROVE  [doc |-> d.id, from |-> x, to |-> y] \in Routes(s)
    <3>1. d \in s.documents BY <1>20
    <3>2. route(x, y) \in d.says /\ route(x, y).says = "route" /\ route(x, y).from = x /\ route(x, y).to = y
      BY <1>13, <2>4
    <3>3. QED BY <3>1, <3>2, RoutesIn
  <2>5. ra1 \in Routes(s) /\ rb1 \in Routes(s) /\ ra2 \in Routes(s) /\ rb2 \in Routes(s)
    <3>1. a1 \in decoys /\ b1 \in decoys /\ a2 \in decoys /\ b2 \in decoys OBVIOUS
    <3>2. [doc |-> a1.id, from |-> near1, to |-> N(5)] \in Routes(s) BY <1>7, <1>16, <2>1, <2>4, <3>1
    <3>3. [doc |-> b1.id, from |-> N(5), to |-> N(7)] \in Routes(s) BY <1>16, <2>1, <2>4, <3>1
    <3>4. [doc |-> a2.id, from |-> near2, to |-> N(11)] \in Routes(s) BY <1>7, <1>16, <2>1, <2>4, <3>1
    <3>5. [doc |-> b2.id, from |-> N(11), to |-> N(15)] \in Routes(s) BY <1>16, <2>1, <2>4, <3>1
    <3>6. QED BY <1>16, <3>2, <3>3, <3>4, <3>5
  <2>6. ASSUME NEW y \in Routes(s) PROVE y \in chain \cup {ra1, rb1, ra2, rb2}
    <3>1. PICK d, x : d \in s.documents /\ x \in d.says /\ x.says = "route"
                      /\ y = [doc |-> d.id, from |-> x.from, to |-> x.to]
      BY RoutesIn
    <3>2. CASE \E i \in 0..(n - 1) : d = first(i)
      <4>1. PICK i \in 0..(n - 1) : d = first(i) BY <3>2
      <4>2. x = route(node(i), node(i + 1)) BY <1>14, <3>1, <4>1
      <4>3. x.from = node(i) /\ x.to = node(i + 1) BY <1>13, <2>2, <4>2
      <4>4. y = r(i) BY <1>14, <3>1, <4>1, <4>3
      <4> HIDE DEF r
      <4>5. QED BY <4>4
    <3>3. CASE d = last BY <1>12, <1>15, <3>1, <3>3
    <3>4. CASE d = Filler BY <1>21, <3>1, <3>4
    <3>5. CASE d = a1
      <4>1. x = route(near1, N(5)) BY <1>16, <3>1, <3>5
      <4>2. x.from = near1 /\ x.to = N(5) BY <1>7, <1>13, <2>1, <4>1
      <4>3. y = ra1 BY <1>16, <3>1, <3>5, <4>2
      <4>4. QED BY <4>3
    <3>6. CASE d = b1
      <4>1. x = route(N(5), N(7)) BY <1>16, <3>1, <3>6
      <4>2. x.from = N(5) /\ x.to = N(7) BY <1>13, <2>1, <4>1
      <4>3. y = rb1 BY <1>16, <3>1, <3>6, <4>2
      <4>4. QED BY <4>3
    <3>7. CASE d = a2
      <4>1. x = route(near2, N(11)) BY <1>16, <3>1, <3>7
      <4>2. x.from = near2 /\ x.to = N(11) BY <1>7, <1>13, <2>1, <4>1
      <4>3. y = ra2 BY <1>16, <3>1, <3>7, <4>2
      <4>4. QED BY <4>3
    <3>8. CASE d = b2
      <4>1. x = route(N(11), N(15)) BY <1>16, <3>1, <3>8
      <4>2. x.from = N(11) /\ x.to = N(15) BY <1>13, <2>1, <4>1
      <4>3. y = rb2 BY <1>16, <3>1, <3>8, <4>2
      <4>4. QED BY <4>3
    <3>9. CASE d = c1 BY <1>12, <1>17, <3>1, <3>9
    <3>10. CASE d = c2 BY <1>12, <1>17, <3>1, <3>10
    <3>11. QED BY <1>20, <3>1, <3>2, <3>3, <3>4, <3>5, <3>6, <3>7, <3>8, <3>9, <3>10
  <2> HIDE DEF r, ra1, rb1, ra2, rb2
  <2>7. QED BY <2>3, <2>5, <2>6
<1> DEFINE F == [doc |-> D(n), fact |-> f0]
<1>23. About(s, node(n)) = {F}
  <2>1. F \in Facts(s)
    <3>1. last \in s.documents /\ f0 \in last.says /\ last.id = D(n) BY <1>15, <1>20
    <3>2. QED BY <1>12, <3>1, FactsIn
  <2>2. ASSUME NEW y \in Facts(s), y.fact.about = node(n) PROVE y = F
    <3>1. PICK d, x : d \in s.documents /\ x \in d.says /\ x.says = "fact" /\ y = [doc |-> d.id, fact |-> x]
      BY FactsIn
    <3>2. x.about = node(n) BY <2>2, <3>1
    <3>3. CASE \E i \in 0..(n - 1) : d = first(i)
      <4>1. PICK i \in 0..(n - 1) : d = first(i) BY <3>3
      <4>2. x = route(node(i), node(i + 1)) BY <1>14, <3>1, <4>1
      <4>3. i \in 0..n /\ i + 1 \in 0..n BY <1>3
      <4>4. x.says = "route" BY <1>9, <1>13, <4>2, <4>3
      <4>5. QED BY <3>1, <4>4
    <3>4. CASE d = last BY <1>15, <3>1, <3>4
    <3>5. CASE d = Filler BY <1>21, <3>1, <3>5
    <3>6. CASE d \in {a1, b1, a2, b2}
      <4>1. N(5) \in Id /\ N(7) \in Id /\ N(11) \in Id /\ N(15) \in Id BY <1>4
      <4>2. x \in {route(near1, N(5)), route(N(5), N(7)), route(near2, N(11)), route(N(11), N(15))}
        BY <1>16, <3>1, <3>6
      <4>3. x.says = "route" BY <1>7, <1>13, <4>1, <4>2
      <4>4. QED BY <3>1, <4>3
    <3>7. CASE d \in {c1, c2}
      <4>1. x = f1 \/ x = f2 BY <1>17, <3>1, <3>7
      <4>2. n \in 0..n BY <1>3
      <4>3. QED BY <1>9, <1>12, <3>2, <4>1, <4>2
    <3>8. QED BY <1>20, <3>1, <3>3, <3>4, <3>5, <3>6, <3>7
  <2>3. F.fact.about = node(n) BY <1>12
  <2> HIDE DEF F
  <2>4. QED BY <2>1, <2>2, <2>3 DEF About
<1>24. WellFormed(s)
  <2>1. Filler \in Document /\ IsFiniteSet(Filler.says) BY FillerIs
  <2>2. IsFiniteSet(s.documents)
    <3> DEFINE h == [i \in 0..(n - 1) |-> first(i)]
    <3>1. {first(i) : i \in 0..(n - 1)} = {h[i] : i \in 0..(n - 1)} OBVIOUS
    <3>2. n - 1 \in Int BY <1>3
    <3>3. IsFiniteSet(0..(n - 1)) BY <3>2, FS_Interval
    <3> HIDE DEF h
    <3>4. IsFiniteSet({first(i) : i \in 0..(n - 1)}) BY <3>1, <3>3, ImageFinite
    <3>5. IsFiniteSet({last, Filler}) /\ IsFiniteSet({a1, b1, c1}) /\ IsFiniteSet({a2, b2, c2}) BY FewFinite
    <3>6. IsFiniteSet({a1, b1, c1} \cup {a2, b2, c2}) BY <3>5, FS_Union
    <3>7. decoys = {a1, b1, c1} \cup {a2, b2, c2} OBVIOUS
    <3> HIDE DEF decoys
    <3>8. IsFiniteSet({first(i) : i \in 0..(n - 1)} \cup {last, Filler}) BY <3>4, <3>5, FS_Union
    <3>9. IsFiniteSet(({first(i) : i \in 0..(n - 1)} \cup {last, Filler}) \cup decoys)
      BY <3>6, <3>7, <3>8, FS_Union
    <3>10. QED BY <1>19, <3>9
  <2>3. \A d \in s.documents : IsFiniteSet(d.says) /\ d \in Document
    <3> TAKE d \in s.documents
    <3>1. \A x : IsFiniteSet({x}) BY FS_Singleton
    <3>2. CASE \E i \in 0..(n - 1) : d = first(i) BY <1>14, <3>1, <3>2
    <3>3. CASE d = last BY <1>15, <3>1, <3>3
    <3>4. CASE d = Filler BY <2>1, <3>4
    <3> HIDE DEF a1, b1, a2, b2, c1, c2
    <3>5. CASE d \in {a1, b1}
      <4>1. IsFiniteSet({route(near1, N(5))}) /\ IsFiniteSet({route(N(5), N(7))}) BY <3>1
      <4>2. QED BY <1>16, <3>5, <4>1
    <3>6. CASE d \in {a2, b2}
      <4>1. IsFiniteSet({route(near2, N(11))}) /\ IsFiniteSet({route(N(11), N(15))}) BY <3>1
      <4>2. QED BY <1>16, <3>6, <4>1
    <3>7. CASE d \in {c1, c2} BY <1>17, <3>1, <3>7
    <3>8. QED BY <1>20, <3>2, <3>3, <3>4, <3>5, <3>6, <3>7
  <2>4. IsFiniteSet(Facts(s)) /\ IsFiniteSet(Routes(s)) BY <2>2, <2>3, ReadingFinite
  <2>5. s.answer \in AnswerSet /\ s.distractors \subseteq AnswerSet
    <3>1. \A i \in 1..2 : wrong[i] \in Nat
      <4>1. \A i \in 1..2 : i = 1 \/ i = 2 OBVIOUS
      <4>2. QED BY <1>8, <4>1
    <3>2. QED BY <1>8, <1>19, <3>1 DEF AnswerSet
  <2>6. s.required \subseteq Id
    <3>1. \A i \in 0..n : i \in 0..26 BY <1>3
    <3>2. QED BY <1>4, <1>19, <3>1 DEF Q
  <2>7. 0 \in 0..n BY <1>3
  <2>8. QED BY <1>9, <1>19, <2>2, <2>3, <2>4, <2>5, <2>6, <2>7 DEF WellFormed
<1>25. /\ \A i \in 0..(n - 1) : Onward(s, node(i)) = {r(i)}
       /\ Onward(s, node(n)) = {} /\ Functional(s)
  <2>1. \A i \in 0..(n - 1) : r(i).from = node(i) OBVIOUS
  <2>2. ra1.from = near1 /\ rb1.from = N(5) /\ ra2.from = near2 /\ rb2.from = N(11) OBVIOUS
  <2>3. \A i \in 0..n : node(i) \in used BY DEF used
  <2>4. \A i \in 0..n : node(i) # near1 /\ node(i) # near2 /\ node(i) # N(5) /\ node(i) # N(11)
    BY <1>7, <1>9, <2>3
  <2>5. N(5) # N(11) BY <1>4
  <2>6. n \in 0..n /\ n \notin 0..(n - 1) /\ \A i \in 0..(n - 1) : i \in 0..n BY <1>3
  <2> HIDE DEF r, ra1, rb1, ra2, rb2
  <2>7. \A i \in 0..(n - 1) : Onward(s, node(i)) = {r(i)}
    <3> TAKE i \in 0..(n - 1)
    <3>1. r(i) \in Onward(s, node(i)) BY <1>22, <2>1 DEF Onward
    <3>2. ASSUME NEW x \in Onward(s, node(i)) PROVE x = r(i)
      <4>1. x.from = node(i) /\ x \in chain \cup {ra1, rb1, ra2, rb2} BY <1>22 DEF Onward
      <4>2. i \in 0..n BY <2>6
      <4>3. x \in chain BY <2>2, <2>4, <4>1, <4>2
      <4>4. PICK j \in 0..(n - 1) : x = r(j) BY <4>3
      <4>5. node(j) = node(i) /\ j \in 0..n BY <2>1, <2>6, <4>1, <4>4
      <4>6. QED BY <1>9, <4>2, <4>4, <4>5
    <3>3. QED BY <3>1, <3>2
  <2>8. Onward(s, node(n)) = {}
    <3> SUFFICES ASSUME NEW x \in Onward(s, node(n)) PROVE FALSE
      OBVIOUS
    <3>1. x.from = node(n) /\ x \in chain \cup {ra1, rb1, ra2, rb2} BY <1>22 DEF Onward
    <3>2. x \in chain BY <2>2, <2>4, <2>6, <3>1
    <3>3. PICK j \in 0..(n - 1) : x = r(j) BY <3>2
    <3>4. node(j) = node(n) /\ j \in 0..n BY <2>1, <2>6, <3>1, <3>3
    <3>5. QED BY <1>9, <2>6, <3>4
  <2>9. ASSUME NEW x \in Routes(s), NEW y \in Routes(s), x.from = y.from PROVE x = y
    <3>1. CASE x \in chain
      <4>1. PICK i \in 0..(n - 1) : x = r(i) BY <3>1
      <4>2. y \in Onward(s, node(i)) BY <2>1, <2>9, <4>1 DEF Onward
      <4>3. QED BY <2>7, <4>1, <4>2
    <3>2. CASE y \in chain
      <4>1. PICK i \in 0..(n - 1) : y = r(i) BY <3>2
      <4>2. x \in Onward(s, node(i)) BY <2>1, <2>9, <4>1 DEF Onward
      <4>3. QED BY <2>7, <4>1, <4>2
    <3>3. CASE x \in {ra1, rb1, ra2, rb2} /\ y \in {ra1, rb1, ra2, rb2}
      BY <1>7, <2>2, <2>5, <2>9, <3>3
    <3>4. QED BY <1>22, <3>1, <3>2, <3>3
  <2>10. QED BY <2>7, <2>8, <2>9 DEF Functional
<1>26. /\ \A i \in 0..(n - 1) : NextNode(s, node(i)) = node(i + 1)
       /\ NextNode(s, node(n)) = node(n)
  <2>1. ASSUME NEW i \in 0..(n - 1) PROVE NextNode(s, node(i)) = node(i + 1)
    <3>1. Onward(s, node(i)) = {r(i)} BY <1>25
    <3>2. (CHOOSE x \in {r(i)} : TRUE) = r(i) OBVIOUS
    <3>3. r(i).to = node(i + 1) OBVIOUS
    <3> HIDE DEF r
    <3>4. NextNode(s, node(i)) = (CHOOSE x \in {r(i)} : TRUE).to BY <3>1 DEF NextNode
    <3>5. QED BY <3>2, <3>3, <3>4
  <2>2. NextNode(s, node(n)) = node(n) BY <1>25 DEF NextNode
  <2>3. QED BY <2>1, <2>2
<1> DEFINE m == Cardinality(Routes(s))
           path == PathOf(s)
<1>27. /\ m \in Nat /\ path \in [0..m -> Id]
       /\ \A i \in 0..m : path[i] = IF i = 0 THEN node(0) ELSE NextNode(s, path[i - 1])
  BY <1>19, <1>24, PathExists, PathStep DEF WellFormed
<1>28. n <= m
  <2> DEFINE I == 0..(n - 1)
             h == [i \in I |-> r(i)]
  <2>1. IsFiniteSet(I) /\ Cardinality(I) = n
    <3>1. n - 1 \in Int /\ 0 \in Int /\ ~(0 > n - 1) /\ (n - 1) - 0 + 1 = n BY <1>3
    <3>2. QED BY <3>1, FS_Interval
  <2>2. \A i \in I : h[i] = r(i) /\ r(i).from = node(i) /\ i \in 0..n BY <1>3
  <2>3. {h[i] : i \in I} = chain OBVIOUS
  <2>4. chain \in SUBSET Routes(s) /\ IsFiniteSet(Routes(s)) BY <1>22, <1>24 DEF WellFormed
  <2> HIDE DEF I, h, r, chain
  <2>5. \A i, j \in I : h[i] = h[j] => i = j BY <1>9, <2>2
  <2>6. Cardinality({h[i] : i \in I}) = Cardinality(I) BY <2>1, <2>5, ImageCardinality
  <2>7. Cardinality(chain) = n BY <2>1, <2>3, <2>6
  <2>8. QED BY <2>4, <2>7, FS_Subset
<1> HIDE DEF m, path, r, ra1, rb1, ra2, rb2
<1>29. \A i \in 0..m : path[i] = node(IF i <= n THEN i ELSE n)
  <2> DEFINE T == {i \in 0..m : path[i] # node(IF i <= n THEN i ELSE n)}
  <2> SUFFICES ASSUME T # {} PROVE FALSE
    OBVIOUS
  <2>1. PICK i \in T : \A j \in T : i <= j
    <3>1. T \subseteq Nat OBVIOUS
    <3> HIDE DEF T
    <3>2. QED BY <3>1, LeastNat
  <2>2. i \in 0..m /\ path[i] # node(IF i <= n THEN i ELSE n) BY <2>1
  <2>3. i # 0
    <3>1. 0 \in 0..m /\ 0 <= n BY <1>3, <1>27
    <3>2. path[0] = node(0) BY <1>27, <3>1
    <3>3. QED BY <2>2, <3>1, <3>2
  <2>4. i - 1 \in 0..m /\ ~(i <= i - 1) BY <1>27, <2>2, <2>3
  <2>5. path[i - 1] = node(IF i - 1 <= n THEN i - 1 ELSE n) BY <2>1, <2>4
  <2>6. path[i] = NextNode(s, path[i - 1]) BY <1>27, <2>2, <2>3
  <2>7. CASE i <= n
    <3>1. i - 1 <= n /\ i - 1 \in 0..(n - 1) /\ (i - 1) + 1 = i BY <1>3, <1>27, <2>2, <2>3, <2>7
    <3>2. NextNode(s, node(i - 1)) = node(i) BY <1>26, <3>1
    <3>3. QED BY <2>2, <2>5, <2>6, <2>7, <3>1, <3>2
  <2>8. CASE ~(i <= n)
    <3>1. (IF i - 1 <= n THEN i - 1 ELSE n) = n BY <1>3, <1>27, <2>2, <2>8
    <3>2. QED BY <1>26, <2>2, <2>5, <2>6, <2>8, <3>1
  <2>9. QED BY <2>7, <2>8
<1>30. EndOf(s) = node(n)
  <2>1. m \in 0..m /\ (IF m <= n THEN m ELSE n) = n BY <1>3, <1>27, <1>28
  <2>2. path[m] = node(n) BY <1>29, <2>1
  <2>3. QED BY <2>2 DEF EndOf, path, m
<1>31. Range(path) = used
  <2>1. \A i \in 0..n : i \in 0..m /\ i <= n BY <1>3, <1>27, <1>28
  <2>2. \A i \in 0..m : (IF i <= n THEN i ELSE n) \in 0..n BY <1>3, <1>27
  <2>3. DOMAIN path = 0..m BY <1>27
  <2>4. \A i \in 0..n : path[i] = node(i) BY <1>29, <2>1
  <2>5. Range(path) \subseteq used BY <1>29, <2>2, <2>3 DEF Range, used
  <2>6. used \subseteq Range(path) BY <2>1, <2>3, <2>4 DEF Range, used
  <2>7. QED BY <2>5, <2>6
<1>32. Trail(s, F) = Q
  <2>1. F.doc = D(n) OBVIOUS
  <2>2. \A i \in 0..(n - 1) : r(i).from = node(i) /\ r(i).doc = D(i) BY DEF r
  <2>3. ra1.from = near1 /\ rb1.from = N(5) /\ ra2.from = near2 /\ rb2.from = N(11)
    BY DEF ra1, rb1, ra2, rb2
  <2>4. near1 \notin used /\ near2 \notin used /\ N(5) \notin used /\ N(11) \notin used
    BY <1>7, <1>9 DEF used
  <2>5. \A i \in 0..(n - 1) : node(i) \in used
    <3>1. \A i \in 0..(n - 1) : i \in 0..n BY <1>3
    <3>2. QED BY <3>1 DEF used
  <2>6. {x \in Routes(s) : x.from \in used} = chain BY <1>22, <2>2, <2>3, <2>4, <2>5
  <2>7. {x.doc : x \in chain} = {D(i) : i \in 0..(n - 1)} BY <2>2
  <2>8. \A i \in 0..n : i \in 0..(n - 1) \/ i = n BY <1>3
  <2>9. n \in 0..n /\ \A i \in 0..(n - 1) : i \in 0..n BY <1>3
  <2>10. {D(n)} \cup {D(i) : i \in 0..(n - 1)} = Q BY <2>8, <2>9 DEF Q
  <2> HIDE DEF chain, F
  <2>11. Trail(s, F) = {F.doc} \cup {x.doc : x \in {y \in Routes(s) : y.from \in Range(path)}}
    BY DEF Trail, path
  <2>12. QED BY <1>31, <2>1, <2>6, <2>7, <2>10, <2>11
<1>33. SolvedMultiHop(s) = {Solution(Number(value), Q)}
  <2>1. F.fact.value = value BY <1>12
  <2> HIDE DEF F
  <2>2. Cardinality({F}) = 1 BY FS_Singleton
  <2>3. SolvedMultiHop(s) = {Solution(Number(f.fact.value), Trail(s, f)) : f \in {F}}
    BY <1>23, <1>25, <1>30, <2>2, SolvedMultiHopIs
  <2>4. QED BY <1>32, <2>1, <2>3
<1>34. ASSUME similarity >= 2 PROVE Verified(s)
  <2>1. Rederived(s) = SolvedMultiHop(s) BY <1>19 DEF Rederived
  <2>2. s.answer \notin s.distractors
    <3>1. \A i, j : Number(i) = Number(j) => i = j BY DEF Number
    <3>2. \A i \in 1..2 : wrong[i] # value
      <4>1. \A i \in 1..2 : i = 1 \/ i = 2 OBVIOUS
      <4>2. QED BY <1>8, <1>34, <4>1
    <3>3. QED BY <1>19, <3>1, <3>2
  <2>3. s.required \subseteq {d.id : d \in s.documents}
    <3>1. \A i \in 0..n : i \in 0..(n - 1) \/ i = n BY <1>3
    <3>2. QED BY <1>14, <1>15, <1>19, <1>20, <3>1 DEF Q
  <2>4. QED BY <1>19, <1>33, <2>1, <2>2, <2>3 DEF Verified
<1>35. Drawn(s) BY <1>19, <1>24, <1>34 DEF Drawn, Families, ArgmaxTrap
<1>36. QED BY <1>2, <1>35

\* What a solver reads of an aggregate's cohort is what its members state, the
\* decoy cohorts and the filler adding nothing to it.
CohortOf(s, c, near, value, I, m, f) ==
    /\ s.subject = c
    /\ s.documents = ({Member(m[i], c, {f[i]}) : i \in I} \cup DecoyCohorts(c, near, value)) \cup {Filler}
    /\ IsFiniteSet(I) /\ \A i \in I : m[i] \in 0..23 /\ f[i] \in FactSet

LEMMA CohortReads ==
    ASSUME similarity \in 0..4, NEW c \in Id, c # Make("CHT", 26), NEW near \in Id, near # c,
           NEW value \in Nat, NEW I, NEW m, NEW f, NEW s, CohortOf(s, c, near, value, I, m, f)
    PROVE  /\ s.documents \subseteq Document /\ IsFiniteSet(s.documents)
           /\ IsFiniteSet(Facts(s)) /\ IsFiniteSet(Routes(s))
           /\ CohortDocs(s) = {Make("DOC", m[i]) : i \in I}
           /\ CohortFacts(s) = {[doc |-> Make("DOC", m[i]), fact |-> f[i]] : i \in I}
           /\ CohortDocs(s) \subseteq {d.id : d \in s.documents}
<1>0. IsFiniteSet(I) /\ \A i \in I : m[i] \in 0..23 /\ f[i] \in FactSet BY DEF CohortOf
<1> DEFINE D(i) == Make("DOC", i)
           M(i) == Member(m[i], c, {f[i]})
           f24 == Fact(Make("REC", 24), Make("SUBJ", 24), value)
           f25 == Fact(Make("REC", 25), Make("SUBJ", 25), value)
           d24 == Member(24, near, {f24})
           d25 == Member(25, Make("CHT", 26), {f25})
<1>1. /\ \A i \in 0..26 : D(i) \in Id
      /\ \A i, j \in 0..26 : D(i) = D(j) => i = j
      /\ Make("REC", 24) \in Id /\ Make("REC", 25) \in Id /\ Make("SUBJ", 24) \in Id
      /\ Make("SUBJ", 25) \in Id /\ Make("CHT", 26) \in Id
  BY Makes
<1>2. DecoyCohorts(c, near, value) = {d24, d25} BY DEF DecoyCohorts
<1>3. /\ f24 \in FactSet /\ f24.says = "fact" /\ f25 \in FactSet /\ f25.says = "fact"
  <2>1. f24 \in FactSet /\ f24.says = "fact" BY SMTT(30), <1>1, FactIs
  <2>2. f25 \in FactSet /\ f25.says = "fact" BY SMTT(30), <1>1, FactIs
  <2>3. QED BY <2>1, <2>2
<1> HIDE DEF f24, f25
<1>4. /\ d24.id = D(24) /\ d24.says = {f24} /\ d24.cohort = near /\ d24 \in Document
      /\ d25.id = D(25) /\ d25.says = {f25} /\ d25.cohort = Make("CHT", 26) /\ d25 \in Document
  <2>1. {f24} \in SUBSET Statement /\ {f25} \in SUBSET Statement BY <1>3 DEF Statement
  <2>2. d24.id = D(24) /\ d24.says = {f24} /\ d24.cohort = near /\ d24 \in Document BY <2>1, MemberIs
  <2>3. d25.id = D(25) /\ d25.says = {f25} /\ d25.cohort = Make("CHT", 26) /\ d25 \in Document
    BY <1>1, <2>1, MemberIs
  <2>4. QED BY <2>2, <2>3
<1>5. \A i \in I : M(i).id = D(m[i]) /\ M(i).says = {f[i]} /\ M(i).cohort = c /\ M(i) \in Document
  <2> TAKE i \in I
  <2>1. m[i] \in 0..26 /\ {f[i]} \in SUBSET Statement BY <1>0 DEF Statement
  <2>2. QED BY <2>1, MemberIs
<1>6. /\ Filler \in Document /\ IsFiniteSet(Filler.says) /\ Filler.cohort = NoCohort
      /\ Filler.id = D(26) /\ \A x \in Filler.says : x.says = "paraphrase"
  BY FillerIs
<1>7. NoCohort # c BY DEF NoCohort, Id
<1> DEFINE Ms == {M(i) : i \in I}
<1>8. s.documents = (Ms \cup {d24, d25}) \cup {Filler} BY <1>2 DEF CohortOf
<1> HIDE DEF d24, d25, M
<1>9. IsFiniteSet(s.documents)
  <2> DEFINE h == [i \in I |-> M(i)]
  <2>1. Ms = {h[i] : i \in I} OBVIOUS
  <2> HIDE DEF h, Ms
  <2>2. IsFiniteSet(Ms) BY <1>0, <2>1, ImageFinite
  <2>3. IsFiniteSet({d24, d25}) /\ IsFiniteSet({Filler}) BY FewFinite
  <2>4. IsFiniteSet(Ms \cup {d24, d25}) BY <2>2, <2>3, FS_Union
  <2>5. IsFiniteSet((Ms \cup {d24, d25}) \cup {Filler}) BY <2>3, <2>4, FS_Union
  <2>6. QED BY <1>8, <2>5
<1>10. \A d \in s.documents : (\E i \in I : d = M(i)) \/ d = d24 \/ d = d25 \/ d = Filler BY <1>8
<1>11. s.documents \subseteq Document BY <1>4, <1>5, <1>6, <1>10
<1>12. \A d \in s.documents : IsFiniteSet(d.says)
  <2> TAKE d \in s.documents
  <2>1. \A x : IsFiniteSet({x}) BY FS_Singleton
  <2>2. CASE \E i \in I : d = M(i)
    <3>1. PICK i \in I : d = M(i) BY <2>2
    <3>2. d.says = {f[i]} BY <1>5, <3>1
    <3>3. QED BY <2>1, <3>2
  <2>3. CASE d = d24 BY <1>4, <2>1, <2>3
  <2>4. CASE d = d25 BY <1>4, <2>1, <2>4
  <2>5. CASE d = Filler BY <1>6, <2>5
  <2>6. QED BY <1>10, <2>2, <2>3, <2>4, <2>5
<1>13. IsFiniteSet(Facts(s)) /\ IsFiniteSet(Routes(s)) BY <1>9, <1>12, ReadingFinite
<1>14. \A d \in s.documents : d.cohort = c <=> \E i \in I : d = M(i)
  BY <1>4, <1>5, <1>6, <1>7, <1>10
<1>15. CohortDocs(s) = {D(m[i]) : i \in I}
  <2> HIDE DEF D
  <2>1. CohortDocs(s) = {d.id : d \in {x \in s.documents : x.cohort = c}} BY DEF CohortDocs, CohortOf
  <2>2. {x \in s.documents : x.cohort = c} = Ms BY <1>8, <1>14
  <2>3. {d.id : d \in Ms} = {D(m[i]) : i \in I} BY <1>5
  <2>4. QED BY <2>1, <2>2, <2>3
<1> DEFINE F(i) == [doc |-> D(m[i]), fact |-> f[i]]
<1>16. \A i \in I : F(i) \in CohortFacts(s)
  <2> TAKE i \in I
  <2>1. M(i) \in s.documents /\ f[i] \in M(i).says /\ M(i).id = D(m[i]) BY <1>5, <1>8
  <2>2. f[i].says = "fact" BY <1>0 DEF FactSet
  <2>3. F(i) \in Facts(s) BY <2>1, <2>2, FactsIn
  <2>4. F(i).doc \in CohortDocs(s) BY <1>15
  <2>5. QED BY <2>3, <2>4 DEF CohortFacts
<1>17. ASSUME NEW x \in CohortFacts(s) PROVE \E i \in I : x = F(i)
  <2>1. x \in Facts(s) /\ x.doc \in CohortDocs(s) BY DEF CohortFacts
  <2>2. PICK d, g : d \in s.documents /\ g \in d.says /\ g.says = "fact" /\ x = [doc |-> d.id, fact |-> g]
    BY <2>1, FactsIn
  <2>3. PICK i \in I : d.id = D(m[i]) BY <1>15, <2>1, <2>2
  <2>4. m[i] \in 0..23 /\ m[i] \in 0..26 /\ m[i] # 24 /\ m[i] # 25 /\ m[i] # 26 BY <1>0
  <2>5. D(m[i]) # D(24) /\ D(m[i]) # D(25) /\ D(m[i]) # D(26)
    <3> HIDE DEF D
    <3>1. QED BY <1>1, <2>4
  <2>6. PICK j \in I : d = M(j)
    <3> HIDE DEF D
    <3>1. d # d24 /\ d # d25 /\ d # Filler BY <1>4, <1>6, <2>3, <2>5
    <3>2. QED BY <1>10, <2>2, <3>1
  <2>7. g = f[j] /\ d.id = D(m[j]) BY <1>5, <2>2, <2>6
  <2>8. QED BY <2>2, <2>7
<1>18. CohortFacts(s) = {F(i) : i \in I}
  <2> HIDE DEF F
  <2>1. QED BY <1>16, <1>17
<1>19. CohortDocs(s) \subseteq {d.id : d \in s.documents} BY DEF CohortDocs
<1>20. QED BY <1>9, <1>11, <1>13, <1>15, <1>18, <1>19

LEMMA AggregateCountDraws ==
    ASSUME DrawsInRange, similarity \in 0..4, AggregateCount
    PROVE  \E s : Drawn(s) /\ Generate(s)
<1> DEFINE cohort == Make("CHT", 0)
           half == CohortSize \div 2
           threshold(values) == CHOOSE v \in values : Cardinality({w \in values : w < v}) = half
           above(values) == Cardinality({v \in values : v > threshold(values)})
           members(values) == {Member(Cardinality({w \in values : w < v}), cohort,
                          {Fact(Make("REC", 0), Make("SUBJ", Cardinality({w \in values : w < v})), v)}) : v \in values}
           Whole(values, value, near) ==
                [Sample("aggregate_count", cohort, members(values) \cup DecoyCohorts(cohort, near, value),
                        Number(above(values)), members(values),
                        {Number(above(values) + 1), Number(CohortSize), Number(0)})
                 EXCEPT !.threshold = threshold(values)]
<1>0. \E values \in kSubset(CohortSize, CohortValues), value \in CohortValues, near \in NearMiss(cohort, {}) :
        Generate(Whole(values, value, near))
  BY DEF AggregateCount
<1>1. PICK values, value, near :
        /\ values \in kSubset(CohortSize, CohortValues) /\ value \in CohortValues
        /\ near \in NearMiss(cohort, {}) /\ Generate(Whole(values, value, near))
  <2> HIDE DEF Whole, cohort
  <2>1. QED BY <1>0
<1> DEFINE s == Whole(values, value, near)
           t == threshold(values)
           a == above(values)
           n == CohortSize
           rank(v) == Cardinality({w \in values : w < v})
<1>2. Generate(s) BY <1>1
<1>3. /\ values \subseteq Nat /\ IsFiniteSet(values) /\ Cardinality(values) = n
      /\ n \in 6..24 /\ value \in Nat
  <2>1. values \in SUBSET CohortValues /\ Cardinality(values) = n BY <1>1 DEF kSubset
  <2>2. CohortValues \subseteq Nat /\ IsFiniteSet(CohortValues) /\ n \in 6..24 BY DEF DrawsInRange
  <2>3. IsFiniteSet(values) BY <2>1, <2>2, FS_Subset
  <2>4. QED BY <1>1, <2>1, <2>2, <2>3
<1>4. /\ \A v \in values : rank(v) \in 0..(n - 1) /\ Cardinality({w \in values : w > v}) = n - 1 - rank(v)
      /\ \A u, v \in values : rank(u) = rank(v) => u = v
      /\ \A k \in 0..(n - 1) : \E v \in values : rank(v) = k
  <2>1. \A v : rank(v) = Rank(v, values) BY DEF Rank
  <2> HIDE DEF rank
  <2>2. QED BY <1>3, <2>1, RankIs
<1>5. t \in values /\ rank(t) = half /\ half \in 3..12 /\ a = n - 1 - half
  <2>1. half \in 3..12 /\ half \in 0..(n - 1) BY <1>3
  <2>2. \E v \in values : rank(v) = half BY <1>4, <2>1
  <2>3. t = CHOOSE v \in values : rank(v) = half OBVIOUS
  <2>4. a = Cardinality({w \in values : w > t}) OBVIOUS
  <2> HIDE DEF rank, t, half, a
  <2>5. t \in values /\ rank(t) = half BY <2>2, <2>3
  <2>6. QED BY <1>4, <2>1, <2>4, <2>5
<1>6. a \in Nat /\ a # 0 /\ a # a + 1 /\ a # n
  <2> HIDE DEF a
  <2>1. n = 2 * half \/ n = 2 * half + 1 BY <1>3
  <2> HIDE DEF half
  <2>2. QED BY <1>3, <1>5, <2>1
<1>7. near \in Id /\ near # cohort /\ cohort \in Id /\ cohort # Make("CHT", 26)
  <2>1. cohort = <<"CHT", 0, 0, 0>> BY DEF Make
  <2>2. "CHT" \in Prefixes /\ 0 \in Letter BY DEF Prefixes, Letter
  <2>3. cohort \in Id /\ cohort # Make("CHT", 26) BY Makes
  <2> HIDE DEF cohort
  <2>4. QED BY <1>1, <2>1, <2>2, <2>3, NearMissIs
<1> DEFINE m == [v \in values |-> rank(v)]
           f == [v \in values |-> Fact(Make("REC", 0), Make("SUBJ", rank(v)), v)]
           D(i) == Make("DOC", i)
<1>8. \A v \in values : /\ m[v] \in 0..23 /\ m[v] = rank(v)
                        /\ f[v] \in FactSet /\ f[v].value = v
  <2> TAKE v \in values
  <2>1. rank(v) \in 0..23 /\ rank(v) \in 0..26
    <3>1. rank(v) \in 0..(n - 1) BY <1>4
    <3> HIDE DEF rank
    <3>2. QED BY <1>3, <3>1
  <2>2. v \in Nat BY <1>3
  <2>3. Make("REC", 0) \in Id /\ Make("SUBJ", rank(v)) \in Id
    <3> HIDE DEF rank
    <3>1. QED BY <2>1, Makes
  <2>4. m[v] = rank(v) /\ f[v] = Fact(Make("REC", 0), Make("SUBJ", rank(v)), v) OBVIOUS
  <2> HIDE DEF m, f, rank
  <2>5. QED BY <2>1, <2>2, <2>3, <2>4, FactIs
<1>9. members(values) = {Member(m[v], cohort, {f[v]}) : v \in values} OBVIOUS
<1>10. /\ s.family = "aggregate_count" /\ s.subject = cohort /\ s.threshold = t
       /\ s.documents = (members(values) \cup DecoyCohorts(cohort, near, value)) \cup {Filler}
       /\ s.answer = Number(a) /\ s.required = {d.id : d \in members(values)}
       /\ s.distractors = {Number(a + 1), Number(n), Number(0)}
  <2> HIDE DEF members, a, t, cohort
  <2>1. s = [Sample("aggregate_count", cohort, members(values) \cup DecoyCohorts(cohort, near, value),
                    Number(a), members(values), {Number(a + 1), Number(n), Number(0)})
             EXCEPT !.threshold = t]
    BY DEF a, t
  <2> HIDE DEF s
  <2>2. QED BY <2>1 DEF Sample
<1>11. s.required = {D(m[v]) : v \in values}
  <2> DEFINE M(v) == Member(m[v], cohort, {f[v]})
  <2>1. \A v \in values : M(v).id = D(m[v])
    <3> TAKE v \in values
    <3>1. m[v] \in 0..26 /\ {f[v]} \in SUBSET Statement BY <1>8 DEF Statement
    <3> HIDE DEF m, f, cohort
    <3>2. QED BY <1>7, <3>1, MemberIs
  <2>2. members(values) = {M(v) : v \in values} BY <1>9
  <2> HIDE DEF members, M, m, f, D, s
  <2>3. QED BY <1>10, <2>1, <2>2
<1>12. CohortOf(s, cohort, near, value, values, m, f)
  <2> HIDE DEF s, members, m, f, cohort
  <2>1. QED BY <1>3, <1>8, <1>9, <1>10 DEF CohortOf
<1> HIDE DEF s, Whole, members, m, f, cohort, threshold, above, t, a, half
<1>13. /\ s.documents \subseteq Document /\ IsFiniteSet(s.documents)
       /\ IsFiniteSet(Facts(s)) /\ IsFiniteSet(Routes(s))
       /\ CohortDocs(s) = {D(m[v]) : v \in values}
       /\ CohortFacts(s) = {[doc |-> D(m[v]), fact |-> f[v]] : v \in values}
       /\ CohortDocs(s) \subseteq {d.id : d \in s.documents}
  BY <1>3, <1>7, <1>12, CohortReads
<1>14. WellFormed(s)
  <2>1. s.answer \in AnswerSet /\ s.distractors \subseteq AnswerSet
    <3>1. a + 1 \in Nat /\ n \in Nat /\ 0 \in Nat BY <1>3, <1>6
    <3>2. QED BY <1>6, <1>10, <3>1 DEF AnswerSet
  <2>2. s.required \subseteq Id
    <3>0. \A i \in 0..23 : i \in 0..26 OBVIOUS
    <3>1. \A v \in values : m[v] \in 0..26
      <4> HIDE DEF rank
      <4>1. QED BY <1>8, <3>0
    <3>2. \A v \in values : D(m[v]) \in Id BY <3>1, Makes
    <3>3. QED BY <1>11, <3>2
  <2>3. t \in Nat BY <1>3, <1>5
  <2>4. QED BY <1>7, <1>10, <1>13, <2>1, <2>2, <2>3 DEF WellFormed
<1>15. Verified(s)
  <2> DEFINE F == [v \in values |-> [doc |-> D(m[v]), fact |-> f[v]]]
             up == {v \in values : v > t}
             high == {x \in CohortFacts(s) : x.fact.value > s.threshold}
  <2>1. \A v \in values : F[v].fact.value = v BY <1>8
  <2>2. CohortFacts(s) = {F[v] : v \in values} BY <1>13
  <2>3. high = {F[v] : v \in up}
    <3> HIDE DEF F
    <3>1. QED BY <1>10, <2>1, <2>2
  <2>4. IsFiniteSet(up) /\ Cardinality(up) = a
    <3>1. up \in SUBSET values OBVIOUS
    <3>2. Cardinality(up) = n - 1 - rank(t) BY <1>4, <1>5
    <3> HIDE DEF up, rank
    <3>3. QED BY <1>3, <1>5, <3>1, <3>2, FS_Subset
  <2>5. \A u, v \in up : F[u] = F[v] => u = v
    <3> TAKE u, v \in up
    <3>1. F[u].fact.value = u /\ F[v].fact.value = v BY <2>1
    <3> HIDE DEF F
    <3>2. QED BY <3>1
  <2>6. Cardinality(high) = a
    <3> HIDE DEF F, up, high
    <3>1. Cardinality({F[v] : v \in up}) = Cardinality(up) BY <2>4, <2>5, ImageCardinality
    <3>2. QED BY <2>3, <2>4, <3>1
  <2>7. SolvedCount(s) = {Solution(Number(Cardinality(high)), CohortDocs(s))} BY DEF SolvedCount
  <2> HIDE DEF F, up, high
  <2>8. SolvedCount(s) = {Solution(s.answer, s.required)} BY <1>10, <1>11, <1>13, <2>6, <2>7
  <2>9. Rederived(s) = SolvedCount(s) BY <1>10 DEF Rederived
  <2>10. s.answer \notin s.distractors
    <3>1. \A k, l : Number(k) = Number(l) => k = l BY DEF Number
    <3>2. QED BY <1>6, <1>10, <3>1
  <2>11. s.required \subseteq {d.id : d \in s.documents} BY <1>11, <1>13
  <2>12. QED BY <2>8, <2>9, <2>10, <2>11 DEF Verified
<1>16. Drawn(s) BY <1>10, <1>14, <1>15 DEF Drawn, Families, ArgmaxTrap
<1>17. QED BY <1>2, <1>16

\* What a subject of a cohort holds is the sum over the members that name it.
LEMMA TotalOfCohort ==
    ASSUME NEW s, NEW x, NEW J, IsFiniteSet(J), NEW F, NEW w,
           {y \in CohortFacts(s) : y.fact.about = x} = {F[j] : j \in J},
           \A i, j \in J : F[i] = F[j] => i = j,
           \A j \in J : w[j] \in Nat /\ F[j].fact.value = w[j]
    PROVE  TotalOf(s, x) = Total(w, J)
<1> DEFINE A == {F[j] : j \in J}
<1>1. IsFiniteSet(A) BY ImageFinite
<1>2. TotalOf(s, x) = MapThenSumSet(LAMBDA f : f.fact.value, A) BY DEF TotalOf
<1>3. \A j \in J : w[j] \in Nat /\ Holdings(A)[F[j]] = w[j] * 1
  <2> TAKE j \in J
  <2>1. F[j] \in A /\ w[j] \in Nat /\ F[j].fact.value = w[j] OBVIOUS
  <2>2. Holdings(A)[F[j]] = F[j].fact.value BY <2>1 DEF Holdings
  <2> HIDE DEF A
  <2>3. w[j] * 1 = w[j] BY <2>1
  <2>4. QED BY <2>1, <2>2, <2>3
<1> HIDE DEF A
<1>4. TotalOf(s, x) = Total(Holdings(A), A) BY <1>1, <1>2, TotalOfIs
<1>5. Total(Holdings(A), {F[j] : j \in J}) = Total(w, J) * 1 BY <1>3, TotalImage
<1>6. Total(w, J) \in Nat BY TotalType
<1>7. QED BY <1>4, <1>5, <1>6 DEF A

\* What a draw of an argmax is made of.
Ranged(share, gap, rest, other) ==
    /\ share[1] \in 2000..2399 /\ share[2] \in 2000..2399 /\ share[3] \in 2000..2399
    /\ share[4] \in 2000..2399 /\ gap \in 200..399 /\ rest \in 0..199
    /\ other[1] \in 0..899 /\ other[2] \in 0..899 /\ other[3] \in 0..899

LEMMA HoldingsInRange ==
    ASSUME DrawsInRange, NEW share \in [1..4 -> WinnerShares], NEW gap \in SpikeGaps,
           NEW rest \in SpikeRests, NEW other \in [1..3 -> OtherShares]
    PROVE  Ranged(share, gap, rest, other)
<1>1. ASSUME NEW i \in 1..4 PROVE share[i] \in 2000..2399
  <2> DEFINE S == 2000..2399
  <2>1. WinnerShares \subseteq S BY DEF DrawsInRange
  <2> HIDE DEF S
  <2>2. share[i] \in S BY <2>1
  <2>3. QED BY <2>2 DEF S
<1>2. ASSUME NEW i \in 1..3 PROVE other[i] \in 0..899
  <2>1. other[i] \in OtherShares /\ OtherShares \subseteq 0..899 BY DEF DrawsInRange
  <2>2. QED BY ZenonT(40), <2>1
<1>3. gap \in 200..399
  <2>1. SpikeGaps \subseteq 200..399 BY DEF DrawsInRange
  <2>2. QED BY <2>1
<1>4. rest \in 0..199
  <2>1. SpikeRests \subseteq 0..199 BY DEF DrawsInRange
  <2>2. QED BY <2>1
<1>5. 1 \in 1..4 /\ 2 \in 1..4 /\ 3 \in 1..4 /\ 4 \in 1..4 /\ 1 \in 1..3 /\ 2 \in 1..3 /\ 3 \in 1..3
  OBVIOUS
<1> DEFINE a(i) == share[i]
           b(i) == other[i]
<1>6. (\A i \in 1..4 : a(i) \in 2000..2399) /\ (\A i \in 1..3 : b(i) \in 0..899) BY <1>1, <1>2
<1> HIDE DEF a, b
<1>7. /\ a(1) \in 2000..2399 /\ a(2) \in 2000..2399 /\ a(3) \in 2000..2399 /\ a(4) \in 2000..2399
  BY <1>5, <1>6
<1>8. b(1) \in 0..899 /\ b(2) \in 0..899 /\ b(3) \in 0..899 BY <1>5, <1>6
<1>9. QED BY <1>3, <1>4, <1>7, <1>8 DEF a, b, Ranged

LEMMA AggregateArgmaxDraws ==
    ASSUME DrawsInRange, similarity \in 0..4, AggregateArgmax
    PROVE  \E s : Drawn(s) /\ Generate(s)
<1> DEFINE cohort == Make("CHT", 0)
           holdings(share, gap, rest, other) ==
                <<Adjusted(share, Spike(SumOf4(share), gap, rest), other),
                  Spike(SumOf4(share), gap, rest), other>>
           membersOf(hold) ==
                UNION {{Member(5 * i + j, cohort, {Fact(Make("REC", 5 * i + j), Make("SUBJ", i), hold[i][j])})
                         : j \in DOMAIN hold[i]} : i \in 1..3}
           Whole(share, gap, rest, other, value) ==
                Sample("aggregate_argmax", cohort,
                       membersOf(holdings(share, gap, rest, other)) \cup DecoyCohorts(cohort, Make("CHT", 1), value),
                       Entity(Make("SUBJ", 1)), membersOf(holdings(share, gap, rest, other)),
                       {Entity(Make("SUBJ", 2)), Entity(Make("SUBJ", 3))})
<1>0. \E share \in [1..4 -> WinnerShares], gap \in SpikeGaps, rest \in SpikeRests,
         other \in [1..3 -> OtherShares], value \in Values : Generate(Whole(share, gap, rest, other, value))
  BY DEF AggregateArgmax
<1>1. PICK share, gap, rest, other, value :
        /\ share \in [1..4 -> WinnerShares] /\ gap \in SpikeGaps /\ rest \in SpikeRests
        /\ other \in [1..3 -> OtherShares] /\ value \in Values
        /\ Generate(Whole(share, gap, rest, other, value))
  <2> HIDE DEF Whole
  <2>1. QED BY <1>0
<1> HIDE DEF Whole, holdings, membersOf
<1> DEFINE s == Whole(share, gap, rest, other, value)
           hold == holdings(share, gap, rest, other)
           members == membersOf(hold)
           sum == share[1] + share[2] + share[3] + share[4]
           large == sum - gap
<1>2. Generate(s) BY <1>1
<1> HIDE DEF s
<1>3. /\ share[1] \in 2000..2399 /\ share[2] \in 2000..2399 /\ share[3] \in 2000..2399
      /\ share[4] \in 2000..2399 /\ gap \in 200..399 /\ rest \in 0..199
      /\ other[1] \in 0..899 /\ other[2] \in 0..899 /\ other[3] \in 0..899
  <2>1. /\ share \in [1..4 -> WinnerShares] /\ gap \in SpikeGaps /\ rest \in SpikeRests
        /\ other \in [1..3 -> OtherShares]
    BY <1>1
  <2>2. Ranged(share, gap, rest, other) BY <2>1, HoldingsInRange
  <2>3. QED BY <2>2 DEF Ranged
<1>4. sum \in 8000..9596 /\ large \in 7601..9396 /\ large + rest < sum /\ value \in Nat
  <2>1. value \in Nat BY <1>1 DEF DrawsInRange
  <2> DEFINE a == share[1]
             b == share[2]
             c == share[3]
             d == share[4]
  <2>2. a \in 2000..2399 /\ b \in 2000..2399 /\ c \in 2000..2399 /\ d \in 2000..2399 BY <1>3
  <2>3. sum = a + b + c + d OBVIOUS
  <2> HIDE DEF a, b, c, d, sum
  <2>4. gap \in 200..399 /\ rest \in 0..199 BY <1>3
  <2>5. sum \in 8000..9596 BY <2>2, <2>3
  <2>6. sum - gap \in 7601..9396 /\ (sum - gap) + rest < sum BY <2>4, <2>5
  <2>7. QED BY <2>1, <2>5, <2>6
<1> DEFINE w == [k \in {6, 7, 8, 9, 11, 12, 16, 17, 18} |->
                   IF k <= 9 THEN share[k - 5] ELSE IF k = 11 THEN large ELSE IF k = 12 THEN rest ELSE other[k - 15]]
           who(k) == IF k <= 9 THEN 1 ELSE IF k <= 12 THEN 2 ELSE 3
           I == {6, 7, 8, 9, 11, 12, 16, 17, 18}
           f == [k \in I |-> Fact(Make("REC", k), Make("SUBJ", who(k)), w[k])]
           m == [k \in I |-> k]
           D(i) == Make("DOC", i)
           S(i) == Make("SUBJ", i)
<1>5. /\ w[6] = share[1] /\ w[7] = share[2] /\ w[8] = share[3] /\ w[9] = share[4]
      /\ w[11] = large /\ w[12] = rest /\ w[16] = other[1] /\ w[17] = other[2] /\ w[18] = other[3]
      /\ \A k \in I : w[k] \in Nat
  <2>1. /\ w[6] = share[1] /\ w[7] = share[2] /\ w[8] = share[3] /\ w[9] = share[4]
        /\ w[11] = large /\ w[12] = rest /\ w[16] = other[1] /\ w[17] = other[2] /\ w[18] = other[3]
    <3> HIDE DEF large
    <3>1. QED OBVIOUS
  <2> HIDE DEF w, large
  <2>2. large \in Nat BY SMTT(30), <1>4
  <2>3. \A k \in I : k = 6 \/ k = 7 \/ k = 8 \/ k = 9 \/ k = 11 \/ k = 12 \/ k = 16 \/ k = 17 \/ k = 18
    OBVIOUS
  <2>4. /\ share[1] \in Nat /\ share[2] \in Nat /\ share[3] \in Nat /\ share[4] \in Nat /\ rest \in Nat
        /\ other[1] \in Nat /\ other[2] \in Nat /\ other[3] \in Nat
    <3>1. 2000..2399 \subseteq Nat /\ 0..199 \subseteq Nat /\ 0..899 \subseteq Nat OBVIOUS
    <3> DEFINE A == 2000..2399
               B == 0..899
               C == 0..199
    <3>2. A \subseteq Nat /\ C \subseteq Nat /\ B \subseteq Nat BY <3>1
    <3>3. share[1] \in A /\ share[2] \in A /\ share[3] \in A /\ share[4] \in A /\ rest \in C
          /\ other[1] \in B /\ other[2] \in B /\ other[3] \in B
      BY SMTT(30), <1>3
    <3> HIDE DEF A, B, C
    <3>4. QED BY <3>2, <3>3
  <2>5. \A k \in I : w[k] \in Nat BY <2>1, <2>2, <2>3, <2>4
  <2>6. QED BY <2>1, <2>5
<1>6a. Adjusted(share, <<large, rest>>, other) = share
  <2> DEFINE a == other[1]
             b == other[2]
             c == other[3]
  <2>1. a \in 0..899 /\ b \in 0..899 /\ c \in 0..899 BY SMTT(30), <1>3
  <2>2. SumOf4(share) = sum BY DEF SumOf4
  <2> DEFINE rivals == {<<large, rest>>[1] + <<large, rest>>[2], a + b + c}
  <2>3. rivals = {large + rest, a + b + c}
    <3> HIDE DEF large, a, b, c
    <3>1. QED OBVIOUS
  <2>4. Adjusted(share, <<large, rest>>, other)
          = IF \A total \in rivals : total < sum THEN share
            ELSE Append(share, Max(rivals) - sum + 1)
    BY <2>2 DEF Adjusted
  <2> HIDE DEF a, b, c, rivals, large, sum
  <2>5. a + b + c < sum BY <1>4, <2>1
  <2>6. \A total \in rivals : total < sum BY <1>4, <2>3, <2>5
  <2>7. QED BY <2>4, <2>6
<1>6. /\ hold[1] = share /\ hold[2] = <<large, rest>> /\ hold[3] = other
      /\ DOMAIN hold[1] = 1..4 /\ DOMAIN hold[2] = 1..2 /\ DOMAIN hold[3] = 1..3
  <2>1. Spike(SumOf4(share), gap, rest) = <<large, rest>> BY DEF Spike, SumOf4
  <2>2. hold = <<share, <<large, rest>>, other>> BY <1>6a, <2>1 DEF holdings
  <2> HIDE DEF hold, large, sum
  <2>3. QED BY <1>1, <2>2
<1> DEFINE M(k) == Member(k, cohort, {f[k]})
           Held(i) == {Member(5 * i + j, cohort, {Fact(Make("REC", 5 * i + j), Make("SUBJ", i), hold[i][j])})
                         : j \in DOMAIN hold[i]}
<1>7. Held(1) = {M(6), M(7), M(8), M(9)}
  <2> HIDE DEF hold, w, cohort, sum
  <2>1. Held(1) = {Member(5 + j, cohort, {Fact(Make("REC", 5 + j), Make("SUBJ", 1), share[j])}) : j \in 1..4}
    BY <1>6
  <2>2. \A j \in 1..4 : j = 1 \/ j = 2 \/ j = 3 \/ j = 4 OBVIOUS
  <2>3. /\ f[6] = Fact(Make("REC", 5 + 1), Make("SUBJ", 1), share[1])
        /\ f[7] = Fact(Make("REC", 5 + 2), Make("SUBJ", 1), share[2])
        /\ f[8] = Fact(Make("REC", 5 + 3), Make("SUBJ", 1), share[3])
        /\ f[9] = Fact(Make("REC", 5 + 4), Make("SUBJ", 1), share[4])
    BY <1>5
  <2>4. 1 \in 1..4 /\ 2 \in 1..4 /\ 3 \in 1..4 /\ 4 \in 1..4 OBVIOUS
  <2>5. 5 + 1 = 6 /\ 5 + 2 = 7 /\ 5 + 3 = 8 /\ 5 + 4 = 9 OBVIOUS
  <2> DEFINE g(j) == Member(5 + j, cohort, {Fact(Make("REC", 5 + j), Make("SUBJ", 1), share[j])})
  <2>6. g(1) = M(6) /\ g(2) = M(7) /\ g(3) = M(8) /\ g(4) = M(9)
    <3> HIDE DEF f
    <3>1. QED BY <2>3, <2>5
  <2>7. Held(1) = {g(j) : j \in 1..4} BY <2>1
  <2> HIDE DEF f, g, M, Held
  <2>8. QED BY <2>2, <2>4, <2>6, <2>7
<1>8. Held(2) = {M(11), M(12)}
  <2> HIDE DEF hold, w, cohort, sum
  <2>1. Held(2) = {Member(10 + j, cohort, {Fact(Make("REC", 10 + j), Make("SUBJ", 2), hold[2][j])}) : j \in 1..2}
    BY <1>6
  <2>2. \A j \in 1..2 : j = 1 \/ j = 2 OBVIOUS
  <2>3. hold[2][1] = large /\ hold[2][2] = rest BY <1>6
  <2>4. /\ f[11] = Fact(Make("REC", 10 + 1), Make("SUBJ", 2), large)
        /\ f[12] = Fact(Make("REC", 10 + 2), Make("SUBJ", 2), rest)
    BY <1>5
  <2>5. 1 \in 1..2 /\ 2 \in 1..2 /\ 10 + 1 = 11 /\ 10 + 2 = 12 OBVIOUS
  <2> DEFINE g(j) == Member(10 + j, cohort, {Fact(Make("REC", 10 + j), Make("SUBJ", 2), hold[2][j])})
  <2>6. g(1) = M(11) /\ g(2) = M(12)
    <3> HIDE DEF f, large
    <3>1. QED BY <2>3, <2>4, <2>5
  <2>7. Held(2) = {g(j) : j \in 1..2} BY <2>1
  <2> HIDE DEF f, g, M, Held
  <2>8. QED BY <2>2, <2>5, <2>6, <2>7
<1>9. Held(3) = {M(16), M(17), M(18)}
  <2> HIDE DEF hold, w, cohort, sum
  <2>1. Held(3) = {Member(15 + j, cohort, {Fact(Make("REC", 15 + j), Make("SUBJ", 3), other[j])}) : j \in 1..3}
    BY <1>6
  <2>2. \A j \in 1..3 : j = 1 \/ j = 2 \/ j = 3 OBVIOUS
  <2>3. /\ f[16] = Fact(Make("REC", 15 + 1), Make("SUBJ", 3), other[1])
        /\ f[17] = Fact(Make("REC", 15 + 2), Make("SUBJ", 3), other[2])
        /\ f[18] = Fact(Make("REC", 15 + 3), Make("SUBJ", 3), other[3])
    BY <1>5
  <2>4. 1 \in 1..3 /\ 2 \in 1..3 /\ 3 \in 1..3 OBVIOUS
  <2>5. 15 + 1 = 16 /\ 15 + 2 = 17 /\ 15 + 3 = 18 OBVIOUS
  <2> DEFINE g(j) == Member(15 + j, cohort, {Fact(Make("REC", 15 + j), Make("SUBJ", 3), other[j])})
  <2>6. g(1) = M(16) /\ g(2) = M(17) /\ g(3) = M(18)
    <3> HIDE DEF f
    <3>1. QED BY <2>3, <2>5
  <2>7. Held(3) = {g(j) : j \in 1..3} BY <2>1
  <2> HIDE DEF f, g, M, Held
  <2>8. QED BY <2>2, <2>4, <2>6, <2>7
<1>10. members = {M(k) : k \in I}
  <2>1. members = UNION {Held(i) : i \in 1..3} BY DEF membersOf
  <2>2. \A i \in 1..3 : i = 1 \/ i = 2 \/ i = 3 OBVIOUS
  <2> HIDE DEF members, Held, M
  <2>3. members = (Held(1) \cup Held(2)) \cup Held(3)
    <3>1. 1 \in 1..3 /\ 2 \in 1..3 /\ 3 \in 1..3 OBVIOUS
    <3>2. QED BY <2>1, <2>2, <3>1
  <2>4. QED BY <1>7, <1>8, <1>9, <2>3
<1>11. /\ cohort \in Id /\ cohort # Make("CHT", 26) /\ Make("CHT", 1) \in Id /\ Make("CHT", 1) # cohort
       /\ \A k \in 0..26 : D(k) \in Id /\ S(k) \in Id /\ Make("REC", k) \in Id
       /\ \A k, l \in 0..26 : D(k) = D(l) => k = l
       /\ \A k, l \in 0..26 : S(k) = S(l) => k = l
  BY SMTT(30), Makes
<1> DEFINE own == S(1)
           spiked == S(2)
           small == S(3)
<1>12. own \in Id /\ spiked \in Id /\ small \in Id /\ own # spiked /\ own # small /\ spiked # small
  <2> HIDE DEF S
  <2>1. QED BY <1>11
<1>13. /\ s.family = "aggregate_argmax" /\ s.subject = cohort /\ s.threshold = 0
       /\ s.documents = (members \cup DecoyCohorts(cohort, Make("CHT", 1), value)) \cup {Filler}
       /\ s.answer = Entity(own) /\ s.required = {d.id : d \in members}
       /\ s.distractors = {Entity(spiked), Entity(small)}
  BY DEF s, Whole, Sample
<1> HIDE DEF hold, members, cohort, Held, sum, large, w, S
<1>14. \A k \in I : /\ m[k] = k /\ k \in 0..23 /\ k \in 0..26 /\ f[k] \in FactSet /\ f[k].value = w[k]
                    /\ f[k].about = IF k <= 9 THEN own ELSE IF k <= 12 THEN spiked ELSE small
  <2> TAKE k \in I
  <2>1. who(k) \in 0..26 /\ k \in 0..23 /\ k \in 0..26 OBVIOUS
  <2>2. Make("SUBJ", who(k)) = S(who(k)) BY DEF S
  <2>3. m[k] = k /\ f[k] = Fact(Make("REC", k), S(who(k)), w[k]) BY <2>2
  <2>4. S(who(k)) = IF k <= 9 THEN own ELSE IF k <= 12 THEN spiked ELSE small OBVIOUS
  <2>5. S(who(k)) \in Id /\ Make("REC", k) \in Id /\ w[k] \in Nat
    <3> HIDE DEF who, f, m, D
    <3>1. QED BY <1>5, <1>11, <2>1
  <2> HIDE DEF who, f, m, own, spiked, small
  <2>6. QED BY <2>1, <2>3, <2>4, <2>5, FactIs
<1> HIDE DEF f, m, own, spiked, small
<1>15. IsFiniteSet(I)
  <2>1. IsFiniteSet({6, 7, 8, 9}) /\ IsFiniteSet({11, 12}) /\ IsFiniteSet({16, 17, 18}) BY FewFinite
  <2>2. IsFiniteSet({6, 7, 8, 9} \cup {11, 12}) BY <2>1, FS_Union
  <2>3. IsFiniteSet(({6, 7, 8, 9} \cup {11, 12}) \cup {16, 17, 18}) BY <2>1, <2>2, FS_Union
  <2>4. ({6, 7, 8, 9} \cup {11, 12}) \cup {16, 17, 18} = I OBVIOUS
  <2> HIDE DEF I
  <2>5. QED BY <2>3, <2>4
<1>16. members = {Member(m[k], cohort, {f[k]}) : k \in I}
  <2>1. \A k \in I : m[k] = k BY <1>14
  <2> HIDE DEF I
  <2>2. QED BY <1>10, <2>1
<1> HIDE DEF M
<1>17. CohortOf(s, cohort, Make("CHT", 1), value, I, m, f)
  <2>1. \A k \in I : m[k] \in 0..23 /\ f[k] \in FactSet BY <1>14
  <2> HIDE DEF I
  <2>2. QED BY <1>13, <1>15, <1>16, <2>1 DEF CohortOf
<1> DEFINE F == [k \in I |-> [doc |-> D(m[k]), fact |-> f[k]]]
<1> HIDE DEF D
<1>18. /\ s.documents \subseteq Document /\ IsFiniteSet(s.documents)
       /\ IsFiniteSet(Facts(s)) /\ IsFiniteSet(Routes(s))
       /\ CohortDocs(s) = {D(m[k]) : k \in I}
       /\ CohortFacts(s) = {F[k] : k \in I}
       /\ CohortDocs(s) \subseteq {d.id : d \in s.documents}
  <2>1. value \in Nat BY <1>4
  <2> HIDE DEF I
  <2>2. /\ s.documents \subseteq Document /\ IsFiniteSet(s.documents)
        /\ IsFiniteSet(Facts(s)) /\ IsFiniteSet(Routes(s))
        /\ CohortDocs(s) = {D(m[k]) : k \in I}
        /\ CohortFacts(s) = {[doc |-> D(m[k]), fact |-> f[k]] : k \in I}
        /\ CohortDocs(s) \subseteq {d.id : d \in s.documents}
    BY <1>11, <1>17, <2>1, CohortReads DEF D
  <2>3. {F[k] : k \in I} = {[doc |-> D(m[k]), fact |-> f[k]] : k \in I} OBVIOUS
  <2>4. QED BY <2>2, <2>3
<1>19. s.required = CohortDocs(s)
  <2> DEFINE G(k) == Member(m[k], cohort, {f[k]})
  <2>1. \A k \in I : G(k).id = D(m[k])
    <3> TAKE k \in I
    <3>1. m[k] \in 0..26 /\ {f[k]} \in SUBSET Statement BY <1>14 DEF Statement
    <3>2. QED BY <1>11, <3>1, MemberIs DEF D
  <2>2. members = {G(k) : k \in I} BY <1>16
  <2> HIDE DEF I, G
  <2>3. {d.id : d \in members} = {D(m[k]) : k \in I} BY <2>1, <2>2
  <2>4. QED BY <1>13, <1>18, <2>3
<1>20. \A k \in I : /\ F[k].doc = D(m[k]) /\ F[k].fact.value = w[k]
                    /\ F[k].fact.about = IF k <= 9 THEN own ELSE IF k <= 12 THEN spiked ELSE small
  BY <1>14
<1>21. \A k, l \in I : F[k] = F[l] => k = l
  <2> TAKE k, l \in I
  <2>1. F[k].doc = D(k) /\ F[l].doc = D(l) /\ k \in 0..26 /\ l \in 0..26 BY <1>14, <1>20
  <2> HIDE DEF I, F
  <2>2. QED BY <1>11, <2>1
<1> HIDE DEF F
<1> DEFINE subjects == {x.fact.about : x \in CohortFacts(s)}
           Of(i) == {x \in CohortFacts(s) : x.fact.about = i}
<1>22. subjects = {own, spiked, small}
  <2>1. 6 \in I /\ 11 \in I /\ 16 \in I OBVIOUS
  <2>2. F[6].fact.about = own /\ F[11].fact.about = spiked /\ F[16].fact.about = small BY <1>20
  <2>3. \A k \in I : F[k].fact.about \in {own, spiked, small} BY <1>20
  <2> HIDE DEF I
  <2>4. QED BY <1>18, <2>1, <2>2, <2>3
<1>23. /\ Of(own) = {F[k] : k \in {6, 7, 8, 9}} /\ Of(spiked) = {F[k] : k \in {11, 12}}
       /\ Of(small) = {F[k] : k \in {16, 17, 18}}
  <2>1. \A k \in I : /\ F[k].fact.about = own <=> k \in {6, 7, 8, 9}
                     /\ F[k].fact.about = spiked <=> k \in {11, 12}
                     /\ F[k].fact.about = small <=> k \in {16, 17, 18}
    BY <1>12, <1>20
  <2>2. {6, 7, 8, 9} \subseteq I /\ {11, 12} \subseteq I /\ {16, 17, 18} \subseteq I OBVIOUS
  <2> DEFINE I1 == {6, 7, 8, 9}
             I2 == {11, 12}
             I3 == {16, 17, 18}
  <2> HIDE DEF I, I1, I2, I3
  <2>3. /\ Of(own) = {F[k] : k \in I1} /\ Of(spiked) = {F[k] : k \in I2} /\ Of(small) = {F[k] : k \in I3}
    BY <1>18, <2>1, <2>2 DEF I1, I2, I3
  <2>4. QED BY <2>3 DEF I1, I2, I3
<1>24. \A J \in SUBSET I : /\ \A k, l \in J : F[k] = F[l] => k = l
                           /\ \A k \in J : w[k] \in Nat /\ F[k].fact.value = w[k]
  BY <1>5, <1>20, <1>21
<1>25. IsFiniteSet({6, 7, 8, 9}) /\ IsFiniteSet({11, 12}) /\ IsFiniteSet({16, 17, 18}) BY FewFinite
<1>26. /\ TotalOf(s, own) = Total(w, {6, 7, 8, 9}) /\ TotalOf(s, spiked) = Total(w, {11, 12})
       /\ TotalOf(s, small) = Total(w, {16, 17, 18})
  <2> DEFINE I1 == {6, 7, 8, 9}
             I2 == {11, 12}
             I3 == {16, 17, 18}
  <2>1. I1 \in SUBSET I /\ I2 \in SUBSET I /\ I3 \in SUBSET I OBVIOUS
  <2>2. IsFiniteSet(I1) /\ IsFiniteSet(I2) /\ IsFiniteSet(I3) BY <1>25
  <2>3. Of(own) = {F[k] : k \in I1} /\ Of(spiked) = {F[k] : k \in I2} /\ Of(small) = {F[k] : k \in I3}
    BY <1>23
  <2> HIDE DEF I, I1, I2, I3
  <2>4. TotalOf(s, own) = Total(w, I1)
    <3>1. /\ \A k, l \in I1 : F[k] = F[l] => k = l
          /\ \A k \in I1 : w[k] \in Nat /\ F[k].fact.value = w[k]
      BY <1>24, <2>1
    <3>2. QED BY SMTT(30), <2>2, <2>3, <3>1, TotalOfCohort
  <2>5. TotalOf(s, spiked) = Total(w, I2)
    <3>1. /\ \A k, l \in I2 : F[k] = F[l] => k = l
          /\ \A k \in I2 : w[k] \in Nat /\ F[k].fact.value = w[k]
      BY <1>24, <2>1
    <3>2. QED BY <2>2, <2>3, <3>1, TotalOfCohort
  <2>6. TotalOf(s, small) = Total(w, I3)
    <3>1. /\ \A k, l \in I3 : F[k] = F[l] => k = l
          /\ \A k \in I3 : w[k] \in Nat /\ F[k].fact.value = w[k]
      BY <1>24, <2>1
    <3>2. QED BY <2>2, <2>3, <3>1, TotalOfCohort
  <2>7. QED BY <2>4, <2>5, <2>6 DEF I1, I2, I3
<1>27. /\ TotalOf(s, own) = sum /\ TotalOf(s, spiked) = large + rest
       /\ TotalOf(s, small) = other[1] + other[2] + other[3]
  <2>1. /\ w[6] \in Nat /\ w[7] \in Nat /\ w[8] \in Nat /\ w[9] \in Nat /\ w[11] \in Nat /\ w[12] \in Nat
        /\ w[16] \in Nat /\ w[17] \in Nat /\ w[18] \in Nat
    BY <1>5
  <2>2. Total(w, {6, 7, 8, 9}) = w[6] + w[7] + w[8] + w[9]
    <3>1. 7 # 6 /\ 8 # 6 /\ 8 # 7 /\ 9 # 6 /\ 9 # 7 /\ 9 # 8 OBVIOUS
    <3>2. QED BY <2>1, <3>1, TotalFour
  <2>3. Total(w, {11, 12}) = w[11] + w[12]
    <3>1. 12 # 11 OBVIOUS
    <3>2. QED BY <2>1, <3>1, TotalTwo
  <2>4. Total(w, {16, 17, 18}) = w[16] + w[17] + w[18]
    <3>1. 17 # 16 /\ 18 # 16 /\ 18 # 17 OBVIOUS
    <3>2. QED BY <2>1, <3>1, TotalThree
  <2>5. QED BY <1>5, <1>26, <2>2, <2>3, <2>4 DEF sum
<1>28. TotalOf(s, spiked) < TotalOf(s, own) /\ TotalOf(s, small) < TotalOf(s, own) /\ TotalOf(s, own) \in Nat
  <2> DEFINE a == other[1]
             b == other[2]
             c == other[3]
  <2>1. a \in 0..899 /\ b \in 0..899 /\ c \in 0..899 BY SMTT(30), <1>3
  <2>2. TotalOf(s, small) = a + b + c BY <1>27
  <2> HIDE DEF a, b, c
  <2>3. a + b + c < sum BY <1>4, <2>1
  <2>4. QED BY <1>4, <1>27, <2>2, <2>3
<1>29. SolvedArgmax(s) = {Solution(Entity(own), CohortDocs(s))}
  <2> DEFINE best == {x \in subjects : \A y \in subjects : TotalOf(s, x) >= TotalOf(s, y)}
  <2>1. TotalOf(s, spiked) \in Int /\ TotalOf(s, small) \in Int
    <3>1. large + rest \in Int BY <1>3, <1>4
    <3>2. other[1] + other[2] + other[3] \in Int
      <4> DEFINE a == other[1]
                 b == other[2]
                 c == other[3]
      <4>1. a \in 0..899 /\ b \in 0..899 /\ c \in 0..899 BY SMTT(30), <1>3
      <4> HIDE DEF a, b, c
      <4>2. a + b + c \in Int BY <4>1
      <4>3. QED BY <4>2 DEF a, b, c
    <3>3. QED BY <1>27, <3>1, <3>2
  <2>2. best = {own}
    <3>1. /\ TotalOf(s, own) >= TotalOf(s, own) /\ TotalOf(s, own) >= TotalOf(s, spiked)
          /\ TotalOf(s, own) >= TotalOf(s, small) /\ ~(TotalOf(s, spiked) >= TotalOf(s, own))
          /\ ~(TotalOf(s, small) >= TotalOf(s, own))
      BY <1>28, <2>1
    <3> HIDE DEF subjects
    <3>2. QED BY <1>22, <3>1
  <2>3. Cardinality(best) = 1 BY <2>2, FS_Singleton
  <2>4. SolvedArgmax(s) = {Solution(Entity(x), CohortDocs(s)) : x \in {y \in best : Cardinality(best) = 1}}
    BY DEF SolvedArgmax
  <2> HIDE DEF best
  <2>5. QED BY <2>2, <2>3, <2>4
<1>30. LargestHolders(s) = {spiked}
  <2> DEFINE top == {x \in CohortFacts(s) : \A y \in CohortFacts(s) : y.fact.value <= x.fact.value}
  <2>1. \A k \in I : F[k].fact.value = w[k] /\ w[k] \in Nat BY <1>5, <1>20
  <2>2. \A k \in I : k # 11 => w[k] < large
    <3> DEFINE A == 2000..2399
               B == 0..899
    <3>1. /\ share[1] \in A /\ share[2] \in A /\ share[3] \in A /\ share[4] \in A
          /\ other[1] \in B /\ other[2] \in B /\ other[3] \in B
      BY SMTT(30), <1>3
    <3>2. rest < large BY <1>3, <1>4
    <3>3. \A v \in A : v < large BY <1>4
    <3>4. \A v \in B : v < large BY <1>4
    <3> HIDE DEF A, B
    <3>5. /\ share[1] < large /\ share[2] < large /\ share[3] < large /\ share[4] < large
          /\ other[1] < large /\ other[2] < large /\ other[3] < large
      BY <3>1, <3>3, <3>4
    <3>6. \A k \in I : k = 6 \/ k = 7 \/ k = 8 \/ k = 9 \/ k = 11 \/ k = 12 \/ k = 16 \/ k = 17 \/ k = 18
      OBVIOUS
    <3>7. QED BY <1>5, <3>2, <3>5, <3>6
  <2>3. 11 \in I /\ F[11].fact.about = spiked /\ w[11] = large /\ large \in Int BY <1>4, <1>5, <1>20
  <2>4. \A k \in I : w[k] <= w[11] BY <1>5, <2>2, <2>3
  <2>5. \A k \in I : k # 11 => ~(w[11] <= w[k]) BY <1>5, <2>2, <2>3
  <2> HIDE DEF I
  <2>6. top = {F[11]} BY <1>18, <2>1, <2>3, <2>4, <2>5
  <2>7. LargestHolders(s) = {x.fact.about : x \in top} BY DEF LargestHolders
  <2> HIDE DEF top
  <2>8. QED BY <2>3, <2>6, <2>7
<1>31. WellFormed(s)
  <2>1. s.answer \in AnswerSet /\ s.distractors \subseteq AnswerSet BY <1>12, <1>13 DEF AnswerSet
  <2>2. s.required \subseteq Id
    <3>1. \A k \in I : m[k] \in 0..26 BY <1>14
    <3>2. \A k \in I : D(m[k]) \in Id BY <1>11, <3>1
    <3> HIDE DEF I
    <3>3. QED BY <1>18, <1>19, <3>2
  <2>3. 0 \in Nat OBVIOUS
  <2> HIDE DEF I
  <2>4. QED BY <1>11, <1>13, <1>18, <2>1, <2>2, <2>3 DEF WellFormed
<1>32. Verified(s)
  <2>1. Rederived(s) = SolvedArgmax(s) BY <1>13 DEF Rederived
  <2>2. s.answer \notin s.distractors
    <3>1. \A k, l : Entity(k) = Entity(l) => k = l BY DEF Entity
    <3>2. QED BY <1>12, <1>13, <3>1
  <2>3. s.required \subseteq {d.id : d \in s.documents} BY <1>18, <1>19
  <2>4. QED BY <1>13, <1>19, <1>29, <2>1, <2>2, <2>3 DEF Verified
<1>33. ArgmaxTrap(s) BY <1>13, <1>30 DEF ArgmaxTrap
<1>34. Drawn(s) BY <1>13, <1>31, <1>32, <1>33 DEF Drawn, Families
<1>35. QED BY <1>2, <1>34

-----------------------------------------------------------------------------
(* The inductive invariant: the sample is in shape and misleads as an argmax *)
(* should, what was verified stays verified, and the twin is a renaming of   *)
(* the sample.  Verification alone would not do: that the twin's check       *)
(* passes needs the shape, and the traps need the renaming.                  *)

Inductive ==
    /\ similarity \in Similarities
    /\ stage \in {"spec", "verified", "refused", "paired", "twin refused"}
    /\ IF stage = "spec" THEN sample = Nothing
       ELSE WellFormed(sample) /\ sample.family \in Families /\ ArgmaxTrap(sample)
    /\ stage = "verified" => Verified(sample)
    /\ stage = "refused" => similarity < 2
    /\ IF stage = "paired" THEN \E p, k : Renaming(p, k) /\ twin = Rewritten(sample, p, k)
       ELSE twin = Nothing
    /\ stage # "twin refused"

LEMMA InductiveInit == ASSUME Init PROVE Inductive
  BY DEF Init, Inductive

\* Each builder generates some sample that is in shape.
LEMMA BuilderDraws ==
    ASSUME DrawsInRange, similarity \in 0..4,
           Needle \/ Supersession \/ MultiHop \/ AggregateCount \/ AggregateArgmax
    PROVE  \E s : Drawn(s) /\ Generate(s)
<1>1. CASE Needle BY <1>1, NeedleDraws
<1>2. CASE Supersession BY <1>2, SupersessionDraws
<1>3. CASE MultiHop BY <1>3, MultiHopDraws
<1>4. CASE AggregateCount BY <1>4, AggregateCountDraws
<1>5. CASE AggregateArgmax BY <1>5, AggregateArgmaxDraws
<1>6. QED BY <1>1, <1>2, <1>3, <1>4, <1>5

LEMMA InductiveStep ==
    ASSUME DrawsInRange, Inductive, [Next]_vars
    PROVE  Inductive'
<1>1. similarity \in 0..4
  <2>1. Similarities \subseteq 0..4 BY DEF DrawsInRange
  <2>2. similarity \in Similarities BY DEF Inductive
  <2>3. QED BY <2>1, <2>2
<1>2. CASE Needle \/ Supersession \/ MultiHop \/ AggregateCount \/ AggregateArgmax
  <2>1. PICK s : Drawn(s) /\ Generate(s) BY <1>1, <1>2, BuilderDraws
  <2>2. /\ stage = "spec" /\ sample' = s /\ similarity' = similarity /\ twin' = twin
        /\ stage' = IF Verified(s) THEN "verified" ELSE "refused"
    BY <2>1 DEF Generate
  <2>3. /\ WellFormed(s) /\ s.family \in Families /\ ArgmaxTrap(s)
        /\ similarity >= 2 => Verified(s)
    BY <2>1 DEF Drawn
  <2>4. twin = Nothing BY <2>2 DEF Inductive
  <2>5. CASE Verified(s)
    <3>1. stage' = "verified" BY <2>2, <2>5
    <3>2. Verified(sample)' BY <2>2, <2>5
    <3>3. QED BY <2>2, <2>3, <2>4, <3>1, <3>2 DEF Inductive
  <2>6. CASE ~Verified(s)
    <3>1. stage' = "refused" BY <2>2, <2>6
    <3>2. similarity' < 2 BY <1>1, <2>2, <2>3, <2>6
    <3>3. QED BY <2>2, <2>3, <2>4, <3>1, <3>2 DEF Inductive
  <2>7. QED BY <2>5, <2>6
<1>3. CASE Perturb
  <2>1. PICK p, k : /\ p \in Derangements /\ k \in Factors /\ twin' = Rewritten(sample, p, k)
                    /\ stage' = IF Verified(twin') THEN "paired" ELSE "twin refused"
    BY <1>3 DEF Perturb
  <2>2. stage = "verified" /\ similarity' = similarity /\ sample' = sample BY <1>3 DEF Perturb
  <2>3. Renaming(p, k)
    <3>1. Factors \subseteq Nat \ {0} BY DEF DrawsInRange
    <3>2. QED BY <2>1, <3>1 DEF Renaming
  <2>4. WellFormed(sample) /\ sample.family \in Families /\ ArgmaxTrap(sample) /\ Verified(sample)
    BY <2>2 DEF Inductive
  <2>5. Verified(Rewritten(sample, p, k)) BY <2>3, <2>4, VerifiedTwin
  <2>6. stage' = "paired" BY <2>1, <2>5
  <2>7. similarity' \in Similarities BY <2>2 DEF Inductive
  <2>8. QED BY <2>1, <2>2, <2>3, <2>4, <2>6, <2>7 DEF Inductive
<1>4. CASE UNCHANGED vars
  <2>1. similarity' = similarity /\ sample' = sample /\ twin' = twin /\ stage' = stage BY <1>4 DEF vars
  <2>2. QED BY <2>1 DEF Inductive
<1>5. QED BY <1>2, <1>3, <1>4 DEF Next

LEMMA InductiveIsTyped ==
    ASSUME DrawsInRange, Inductive
    PROVE  TypeOK
<1>1. "none" \notin Families /\ Nothing.family = "none" BY DEF Families, Nothing
<1>2. CASE stage = "paired"
  <2>1. PICK p, k : Renaming(p, k) /\ twin = Rewritten(sample, p, k) BY <1>2 DEF Inductive
  <2>2. WellFormed(sample) /\ sample.family \in Families BY <1>2 DEF Inductive
  <2>3. Cardinality(twin.documents) = Cardinality(sample.documents) BY <2>1, <2>2, DocumentsTwin
  <2>4. twin.family = sample.family BY <2>1 DEF Rewritten
  <2>5. similarity \in Similarities BY DEF Inductive
  <2>6. QED BY <1>2, <2>2, <2>3, <2>4, <2>5 DEF TypeOK
<1>3. CASE stage # "paired"
  <2>1. stage # "twin refused" /\ twin = Nothing BY <1>3 DEF Inductive
  <2>2. (stage # "spec") <=> (sample.family \in Families) BY <1>1 DEF Inductive
  <2>3. /\ similarity \in Similarities
        /\ stage \in {"spec", "verified", "refused", "paired", "twin refused"}
    BY DEF Inductive
  <2>4. QED BY <1>1, <1>3, <2>1, <2>2, <2>3 DEF TypeOK
<1>4. QED BY <1>2, <1>3

\* A renaming keeps the traps.
LEMMA TrapsTwin ==
    ASSUME NEW p, NEW k, Renaming(p, k), NEW s, WellFormed(s), ArgmaxTrap(s)
    PROVE  LET T == Rewritten(s, p, k)
           IN  /\ Cardinality(NearPairs(T)) = Cardinality(NearPairs(s))
               /\ T.family = "aggregate_argmax" => \A x \in LargestHolders(T) : Entity(x) \in T.distractors
               /\ \A i \in 2..4 : T.subject[i] # s.subject[i]
<1> DEFINE T == Rewritten(s, p, k)
<1>1. /\ T.family = s.family /\ T.subject = Rename(s.subject, p)
      /\ T.distractors = {RewrittenAnswer(a, s.family, p, k) : a \in s.distractors}
  BY DEF Rewritten
<1>2. LargestHolders(T) = {Rename(i, p) : i \in LargestHolders(s)} BY LargestTwin
<1>3. Cardinality(NearPairs(T)) = Cardinality(NearPairs(s)) BY NearPairsTwin
<1> HIDE DEF T
<1>4. ASSUME T.family = "aggregate_argmax", NEW x \in LargestHolders(T) PROVE Entity(x) \in T.distractors
  <2>1. PICK i \in LargestHolders(s) : x = Rename(i, p) BY <1>2, <1>4
  <2>2. Entity(i) \in s.distractors BY <1>1, <1>4 DEF ArgmaxTrap
  <2>3. RewrittenAnswer(Entity(i), s.family, p, k) = Entity(x) BY <2>1 DEF RewrittenAnswer, Entity
  <2>4. QED BY <1>1, <2>2, <2>3
<1>5. \A i \in 2..4 : T.subject[i] # s.subject[i]
  <2>1. s.subject \in Id BY DEF WellFormed
  <2>2. PICK q \in Prefixes, a \in Letter, b \in Letter, c \in Letter : s.subject = <<q, a, b, c>>
    BY <2>1 DEF Id
  <2>3. Rename(<<q, a, b, c>>, p) = <<q, p[a], p[b], p[c]>> BY RenameId DEF Renaming
  <2>4. p[a] # a /\ p[b] # b /\ p[c] # c BY DEF Renaming, Derangements
  <2>5. \A i \in 2..4 : i = 2 \/ i = 3 \/ i = 4 OBVIOUS
  <2>6. QED BY <1>1, <2>2, <2>3, <2>4, <2>5
<1>6. QED BY <1>3, <1>4, <1>5 DEF T

LEMMA InductiveIsSolvable ==
    ASSUME DrawsInRange, Inductive
    PROVE  CorpusIsSolvable
<1>1. DrawsVerify
  <2>1. similarity \in 0..4
    <3>1. Similarities \subseteq 0..4 BY DEF DrawsInRange
    <3>2. similarity \in Similarities BY DEF Inductive
    <3>3. QED BY <3>1, <3>2
  <2>2. stage = "refused" => similarity < 2 BY DEF Inductive
  <2>3. QED BY <2>1, <2>2 DEF DrawsVerify
<1>2. TwinsVerify BY DEF Inductive, TwinsVerify
<1>3. TwinKeepsTheTraps
  <2> SUFFICES ASSUME stage = "paired"
               PROVE  /\ Cardinality(NearPairs(twin)) = Cardinality(NearPairs(sample))
                      /\ twin.family = "aggregate_argmax" =>
                            \A x \in LargestHolders(twin) : Entity(x) \in twin.distractors
                      /\ \A i \in 2..4 : twin.subject[i] # sample.subject[i]
    BY DEF TwinKeepsTheTraps
  <2>1. PICK p, k : Renaming(p, k) /\ twin = Rewritten(sample, p, k) BY DEF Inductive
  <2>2. WellFormed(sample) /\ ArgmaxTrap(sample) BY DEF Inductive
  <2>3. QED BY <2>1, <2>2, TrapsTwin
<1>4. QED BY <1>1, <1>2, <1>3 DEF CorpusIsSolvable

\* The generator's state has its shape: a sample of one of the five families once one
\* was drawn, and a twin, of as many documents, once it was perturbed.
THEOREM CorpusTypeCorrect ==
    ASSUME DrawsInRange
    PROVE  Spec => []TypeOK
<1>1. Init => Inductive BY InductiveInit
<1>2. Inductive /\ [Next]_vars => Inductive' BY InductiveStep
<1>3. Inductive => TypeOK BY InductiveIsTyped
<1>4. QED BY <1>1, <1>2, <1>3, PTL DEF Spec

\* generate_corpus, verify_sample and perturb_sample: with distractors close to the
\* answer no draw of any family is refused, no rewriting moves an answer, and the twin
\* keeps the traps of its original and none of the letters it asks for.
THEOREM CorpusSolvable ==
    ASSUME DrawsInRange
    PROVE  Spec => []CorpusIsSolvable
<1>1. Init => Inductive BY InductiveInit
<1>2. Inductive /\ [Next]_vars => Inductive' BY InductiveStep
<1>3. Inductive => CorpusIsSolvable BY InductiveIsSolvable
<1>4. QED BY <1>1, <1>2, <1>3, PTL DEF Spec
=============================================================================
