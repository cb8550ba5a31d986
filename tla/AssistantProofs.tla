-------------------------- MODULE AssistantProofs ---------------------------
(***************************************************************************)
(* Proofs about what the assistant's answers stand on: the cache of        *)
(* embeddings (EmbeddingCache), where every text keeps its own vector; the *)
(* rate limits (RateLimits), where nobody is refused who asked less than   *)
(* the limit; and the agent loop (AgentLoop), where every call is answered *)
(* and nothing that cannot be undone runs unasked.  They share no          *)
(* variable.  All three are about data of any length, lists of texts,      *)
(* counts over time, a history of calls: what a definition says of all of  *)
(* it is shown by a least counterexample (SmallestExists).                 *)
(***************************************************************************)
EXTENDS EmbeddingCache, RateLimits, AgentLoop, FiniteSetTheorems, SequenceTheorems, WellFoundedInduction, TLAPS

-----------------------------------------------------------------------------
(* Numbers and their orders. *)

\* A set of natural numbers that is not empty has a smallest: what stands in
\* for induction over data in this module.
LEMMA SmallestExists ==
    ASSUME NEW S \in SUBSET Nat, S # {}
    PROVE  \E n \in S : \A m \in S : n <= m
<1>1. IsWellFoundedOn(OpToRel(<, Nat), Nat)
  BY NatLessThanWellFounded
<1>2. PICK n \in S : \A m \in S : ~(<<m, n>> \in OpToRel(<, Nat))
  BY <1>1, WFMin
<1>3. \A m \in S : ~(m < n)
  <2>1. \A m \in S : m \in Nat /\ n \in Nat
    OBVIOUS
  <2> QED BY <1>2, <2>1 DEF OpToRel
<1> QED BY <1>3

\* The numbers up to n, some of them left out, can be put in ascending order.
Ordered(T) == \E s \in [1..Cardinality(T) -> T] : Ascends(s, T)

LEMMA OneMore ==
    ASSUME NEW n \in Nat, NEW T \in SUBSET (1..(n + 1)), n + 1 \in T, Ordered(T \ {n + 1})
    PROVE  Ordered(T)
<1> DEFINE U == T \ {n + 1}
           c == Cardinality(U)
<1>1. IsFiniteSet(U) /\ c \in Nat /\ Cardinality(T) = c + 1
  <2>1. IsFiniteSet(T)
    <3>1. IsFiniteSet(1..(n + 1))
      BY FS_Interval
    <3> QED BY <3>1, FS_Subset
  <2>2. IsFiniteSet(U)
    BY <2>1, FS_Subset
  <2>3. Cardinality(U) = Cardinality(T) - 1 /\ Cardinality(T) \in Nat /\ Cardinality(U) \in Nat
    BY <2>1, <2>2, FS_RemoveElement, FS_CardinalityType
  <2> QED BY <2>2, <2>3
<1>2. PICK s \in [1..c -> U] : Ascends(s, U)
  BY DEF Ordered
<1> DEFINE t == [i \in 1..(c + 1) |-> IF i = c + 1 THEN n + 1 ELSE s[i]]
<1> HIDE DEF c
<1>3. t \in [1..(c + 1) -> T]
  <2>1. \A i \in 1..c : s[i] \in T
    BY <1>2
  <2> QED BY <1>1, <2>1
<1>4. \A x \in T : \E i \in DOMAIN t : t[i] = x
  <2>1. TAKE x \in T
  <2>2. CASE x = n + 1
    BY <1>1, <2>2
  <2>3. CASE x # n + 1
    <3>1. PICK i \in DOMAIN s : s[i] = x
      BY <1>2, <2>3 DEF Ascends
    <3>2. i \in 1..(c + 1) /\ i # c + 1
      BY <1>1, <1>2, <3>1
    <3> QED BY <3>1, <3>2
  <2> QED BY <2>2, <2>3
<1>5. \A i, j \in DOMAIN t : i < j => t[i] < t[j]
  <2>1. SUFFICES ASSUME NEW i \in 1..(c + 1), NEW j \in 1..(c + 1), i < j PROVE t[i] < t[j]
    OBVIOUS
  <2>2. i \in 1..c /\ i \in DOMAIN s /\ t[i] = s[i] /\ s[i] \in U
    BY <1>1, <1>2, <2>1
  <2>3. CASE j = c + 1
    <3>1. s[i] \in 1..(n + 1) /\ s[i] # n + 1
      BY <2>2
    <3> QED BY <2>2, <2>3, <3>1
  <2>4. CASE j # c + 1
    <3>1. j \in DOMAIN s /\ t[j] = s[j]
      BY <1>1, <1>2, <2>1, <2>4
    <3> QED BY <1>2, <2>1, <2>2, <3>1 DEF Ascends
  <2> QED BY <2>3, <2>4
<1>6. Ascends(t, T)
  BY <1>4, <1>5 DEF Ascends
<1> QED BY <1>1, <1>3, <1>6 DEF Ordered

LEMMA OrderExists ==
    ASSUME NEW n \in Nat, NEW T \in SUBSET (1..n)
    PROVE  Ordered(T)
<1> DEFINE Bad == {k \in Nat : \E U \in SUBSET (1..k) : ~Ordered(U)}
<1>1. Bad = {}
  <2>1. SUFFICES ASSUME Bad # {} PROVE FALSE
    OBVIOUS
  <2>2. PICK k \in Bad : \A m \in Bad : k <= m
    BY <2>1, SmallestExists
  <2>3. PICK U \in SUBSET (1..k) : ~Ordered(U)
    BY <2>2
  <2>4. CASE k = 0
    <3>1. U = {} /\ Cardinality(U) = 0
      <4>1. \A x \in U : FALSE
        BY <2>3, <2>4
      <4> QED BY <4>1, FS_EmptySet
    <3> DEFINE s == [i \in 1..0 |-> n]
    <3>2. s \in [1..0 -> U]
      OBVIOUS
    <3>3. Ascends(s, U)
      BY <3>1 DEF Ascends
    <3>4. s \in [1..Cardinality(U) -> U]
      BY <3>1, <3>2
    <3> QED BY <2>3, <3>3, <3>4 DEF Ordered
  <2>5. CASE k # 0
    <3>1. k - 1 \in Nat /\ k = (k - 1) + 1
      BY <2>2, <2>5
    <3>2. \A V \in SUBSET (1..(k - 1)) : Ordered(V)
      <4>1. k - 1 \notin Bad
        BY <2>2, <3>1
      <4> QED BY <3>1, <4>1
    <3>3. CASE k \in U
      <4>1. U \ {k} \in SUBSET (1..(k - 1))
        BY <2>2, <2>3, <3>1
      <4>2. Ordered(U \ {(k - 1) + 1})
        BY <3>1, <3>2, <4>1
      <4> QED BY <2>3, <3>1, <3>3, <4>2, OneMore
    <3>4. CASE k \notin U
      <4>1. U \in SUBSET (1..(k - 1))
        BY <2>2, <2>3, <3>1, <3>4
      <4> QED BY <2>3, <3>2, <4>1
    <3> QED BY <3>3, <3>4
  <2> QED BY <2>4, <2>5
<1> QED BY <1>1
\* A set of numbers up to n that is not empty has a largest.
LEMMA LargestExists ==
    ASSUME NEW n \in Nat, NEW S \in SUBSET (1..n), S # {}
    PROVE  \E i \in S : \A j \in S : j <= i
<1>1. PICK T : T = {n - i : i \in S}
  OBVIOUS
<1>2. T \in SUBSET Nat /\ T # {}
  <2>1. \A i \in S : i \in 1..n /\ n - i \in Nat
    OBVIOUS
  <2> QED BY <1>1, <2>1
<1>3. IsWellFoundedOn(OpToRel(<, Nat), Nat)
  BY NatLessThanWellFounded
<1>4. PICK d \in T : \A e \in T : ~(<<e, d>> \in OpToRel(<, Nat))
  BY <1>2, <1>3, WFMin
<1>5. \A e \in T : ~(e < d)
  <2>1. \A e \in T : e \in Nat /\ d \in Nat
    BY <1>2
  <2> QED BY <1>4, <2>1 DEF OpToRel
<1>6. PICK i \in S : d = n - i
  BY <1>1
<1>7. \A j \in S : n - j \in T
  BY <1>1
<1> QED BY <1>5, <1>6, <1>7

-----------------------------------------------------------------------------
(* The embedding cache. *)

Vectors == [model : Models, text : Snippets] \cup {NoVector, Garbage}
CallSteps == {"idle", "read", "embed", "write", "answered", "failed"}
CallRecords == [step : CallSteps, texts : Seq(Snippets), got : Seq(Vectors),
                new : Seq(Snippets), fresh : Seq(Vectors), served : BOOLEAN]

\* A place holds the vector of its own text or nothing that can be used.
SoundSoFar(e, call) ==
    /\ Len(call.got) = Len(call.texts)
    /\ \A i \in 1..Len(call.texts) :
          Usable(call.got[i]) => call.got[i] = Vector(ModelOf[e], call.texts[i])
Aligned(e, call) ==
    /\ Len(call.got) = Len(call.texts)
    /\ \A i \in 1..Len(call.texts) : call.got[i] = Vector(ModelOf[e], call.texts[i])

\* What a call may rely on at its step.
CallHolds(e, call) ==
    /\ call \in CallRecords
    /\ call.step = "embed" => SoundSoFar(e, call)
    /\ call.step \in {"write", "answered"} => Aligned(e, call)
    /\ call.step = "write" =>
          /\ Len(call.fresh) = Len(call.new)
          /\ \A j \in 1..Len(call.new) : call.fresh[j] = Vector(ModelOf[e], call.new[j])
    /\ call.step = "failed" => ~call.served

StoreHolds ==
    /\ vectors \in [Keys -> Vectors]
    /\ \A k \in Keys : Usable(vectors[k]) => vectors[k] = Vector(k.model, k.text)
CallsHold ==
    /\ embedding \in [Embedders -> CallRecords]
    /\ \A e \in Embedders : CallHolds(e, embedding[e])
EmbeddingInv ==
    /\ calls \in 0..MaxCalls /\ clearing \in [Embedders -> SUBSET Keys]
    /\ StoreHolds /\ CallsHold

\* The missing places are listed once each, in their order.
LEMMA MissingIsOrdered ==
    ASSUME NEW call, Len(call.texts) \in Nat
    PROVE  /\ Missing(call) \in [1..Cardinality(Gaps(call)) -> Gaps(call)]
           /\ Cardinality(Gaps(call)) \in Nat
           /\ Ascends(Missing(call), Gaps(call))
<1>1. Gaps(call) \in SUBSET (1..Len(call.texts))
  BY DEF Gaps
<1>2. Ordered(Gaps(call))
  BY <1>1, OrderExists
<1>3. IsFiniteSet(Gaps(call))
  <2>1. IsFiniteSet(1..Len(call.texts))
    BY FS_Interval
  <2> QED BY <1>1, <2>1, FS_Subset
<1>4. Cardinality(Gaps(call)) \in Nat
  BY <1>3, FS_CardinalityType
<1> QED BY <1>2, <1>4 DEF Ordered, Missing

\* Every missing place is found in the list at the number its vector has.
LEMMA MissingIsFound ==
    ASSUME NEW call, Len(call.texts) \in Nat, NEW i \in Gaps(call)
    PROVE  LET n == SelectInSeq(Missing(call), LAMBDA j : j = i)
           IN  n \in 1..Len(Missing(call)) /\ Missing(call)[n] = i /\ Contains(Missing(call), i)
<1> DEFINE s == Missing(call)
           c == Cardinality(Gaps(call))
           I == {k \in 1..Len(s) : s[k] = i}
<1>1. s \in [1..c -> Gaps(call)] /\ c \in Nat /\ Ascends(s, Gaps(call))
  BY MissingIsOrdered
<1> HIDE DEF s, c
<1>2. Len(s) = c /\ DOMAIN s = 1..c
  BY <1>1, LenProperties
<1>3. PICK k \in 1..c : s[k] = i
  BY <1>1, <1>2 DEF Ascends
<1>4. I # {} /\ I \in SUBSET Nat
  BY <1>1, <1>2, <1>3
<1>5. Min(I) \in I
  <2>1. \E n \in I : \A m \in I : n <= m
    BY <1>4, SmallestExists
  <2> QED BY <2>1 DEF Min
<1>6. SelectInSeq(s, LAMBDA j : j = i) = Min(I)
  BY <1>4 DEF SelectInSeq
<1> QED BY <1>1, <1>2, <1>3, <1>5, <1>6 DEF s, Contains
\* Vectors of the texts at the places, in the order of the places, and what
\* was found before make an answer in which every text has its own.
LEMMA FilledIsAligned ==
    ASSUME NEW e \in Embedders, NEW call \in CallRecords, SoundSoFar(e, call), NEW fresh,
           fresh = [j \in 1..Len(Missing(call)) |-> Vector(ModelOf[e], call.texts[Missing(call)[j]])]
    PROVE  /\ Filled(call, fresh) \in [1..Len(call.texts) -> Vectors]
           /\ \A i \in 1..Len(call.texts) : Filled(call, fresh)[i] = Vector(ModelOf[e], call.texts[i])
<1>1. Len(call.texts) \in Nat /\ \A i \in 1..Len(call.texts) : call.texts[i] \in Snippets
  BY ElementOfSeq, LenProperties DEF CallRecords
<1>2. ASSUME NEW i \in 1..Len(call.texts)
      PROVE  Filled(call, fresh)[i] = Vector(ModelOf[e], call.texts[i])
  <2>1. CASE i \in Gaps(call)
    <3> DEFINE n == SelectInSeq(Missing(call), LAMBDA j : j = i)
    <3>1. n \in 1..Len(Missing(call)) /\ Missing(call)[n] = i /\ Contains(Missing(call), i)
      BY <1>1, <2>1, MissingIsFound
    <3>2. Filled(call, fresh)[i] = fresh[n]
      BY <3>1 DEF Filled
    <3> HIDE DEF n
    <3> QED BY <3>1, <3>2
  <2>2. CASE i \notin Gaps(call)
    <3>1. ~Contains(Missing(call), i)
      <4>1. Missing(call) \in [1..Cardinality(Gaps(call)) -> Gaps(call)] /\ Cardinality(Gaps(call)) \in Nat
        BY <1>1, MissingIsOrdered
      <4>2. Missing(call) \in Seq(Gaps(call))
        BY <4>1
      <4>3. \A k \in 1..Len(Missing(call)) : Missing(call)[k] \in Gaps(call)
        BY <4>2, ElementOfSeq
      <4> QED BY <2>2, <4>3 DEF Contains
    <3>2. Filled(call, fresh)[i] = call.got[i]
      BY <3>1 DEF Filled
    <3>3. Usable(call.got[i])
      BY <2>2 DEF Gaps
    <3> QED BY <3>2, <3>3 DEF SoundSoFar
  <2> QED BY <2>1, <2>2
<1>3. \A i \in 1..Len(call.texts) : Vector(ModelOf[e], call.texts[i]) \in Vectors
  BY <1>1 DEF Vectors, Vector, Models
<1> DEFINE at(i) == IF Contains(Missing(call), i)
                    THEN fresh[SelectInSeq(Missing(call), LAMBDA j : j = i)] ELSE call.got[i]
<1>4. Filled(call, fresh) = [i \in 1..Len(call.texts) |-> at(i)]
  BY DEF Filled
<1> HIDE DEF at
<1> QED BY <1>2, <1>3, <1>4

-----------------------------------------------------------------------------
LEMMA ListIsSequence ==
    ASSUME NEW S, NEW n \in Nat, NEW f \in [1..n -> S]
    PROVE  f \in Seq(S) /\ Len(f) = n
OBVIOUS

LEMMA WithStep ==
    ASSUME NEW call \in CallRecords, NEW step \in CallSteps
    PROVE  LET next == [call EXCEPT !.step = step]
           IN  /\ next \in CallRecords /\ next.step = step /\ next.texts = call.texts
               /\ next.got = call.got /\ next.new = call.new /\ next.fresh = call.fresh
               /\ next.served = call.served
BY DEF CallRecords

LEMMA WithGot ==
    ASSUME NEW call \in CallRecords, NEW got \in Seq(Vectors)
    PROVE  LET next == [call EXCEPT !.got = got]
           IN  next \in CallRecords /\ next.got = got /\ next.texts = call.texts
BY DEF CallRecords

LEMMA NoCallIsACall == NoCall \in CallRecords
BY DEF NoCall, CallRecords, CallSteps

LEMMA EmbeddingBegins == EmbeddingInit => EmbeddingInv
<1> SUFFICES ASSUME EmbeddingInit PROVE EmbeddingInv
  OBVIOUS
<1>1. NoCall \in CallRecords
  BY NoCallIsACall
<1>2. calls \in 0..MaxCalls
  BY EmbeddingAssumption DEF EmbeddingInit
<1>3. StoreHolds
  BY DEF EmbeddingInit, StoreHolds, Vectors, Usable
<1>4. CallsHold
  BY <1>1 DEF EmbeddingInit, CallsHold, CallHolds, NoCall
<1>5. clearing \in [Embedders -> SUBSET Keys]
  BY DEF EmbeddingInit
<1> QED BY <1>2, <1>3, <1>4, <1>5 DEF EmbeddingInv

\* A step of one call leaves the calls of the other embedders alone.
LEMMA OneCallMoves ==
    ASSUME CallsHold, NEW e \in Embedders, NEW call, Update(e, call), CallHolds(e, call)
    PROVE  CallsHold'
<1>1. call \in CallRecords
  BY DEF CallHolds
<1>2. embedding' \in [Embedders -> CallRecords]
  BY <1>1 DEF Update, CallsHold
<1>3. \A f \in Embedders : embedding'[f] = IF f = e THEN call ELSE embedding[f]
  BY DEF Update, CallsHold
<1>4. \A f \in Embedders : CallHolds(f, embedding'[f])
  BY <1>3 DEF CallsHold
<1> QED BY <1>2, <1>4 DEF CallsHold

LEMMA AskVectorsKeeps ==
    ASSUME EmbeddingInv, NEW e \in Embedders, NEW texts \in Seq(Snippets), AskVectors(e, texts)
    PROVE  EmbeddingInv'
<1> DEFINE fresh == [NoCall EXCEPT !.texts = texts]
           step == IF texts = <<>> THEN "answered" ELSE "read"
           call == [fresh EXCEPT !.step = step]
<1>1. fresh \in CallRecords /\ fresh.texts = texts /\ fresh.got = <<>>
  BY NoCallIsACall DEF CallRecords, NoCall
<1>2. step \in {"answered", "read"} /\ step \in CallSteps
  BY DEF CallSteps
<1>3. Update(e, call)
  BY DEF AskVectors, Update
<1> HIDE DEF fresh, step
<1>4. call \in CallRecords /\ call.step = step /\ call.texts = texts /\ call.got = <<>>
  BY <1>1, <1>2, WithStep
<1> HIDE DEF call
<1>5. step = "answered" => Aligned(e, call)
  BY <1>4 DEF Aligned, step
<1>6. CallHolds(e, call)
  BY <1>2, <1>4, <1>5 DEF CallHolds
<1>7. CallsHold'
  BY <1>3, <1>6, OneCallMoves DEF EmbeddingInv
<1>8. calls' \in 0..MaxCalls
  BY EmbeddingAssumption DEF EmbeddingInv, AskVectors
<1>9. vectors' = vectors /\ clearing' = clearing
  BY DEF AskVectors
<1> QED BY <1>7, <1>8, <1>9 DEF EmbeddingInv, StoreHolds

LEMMA ConsultKeeps ==
    ASSUME EmbeddingInv, NEW e \in Embedders, NEW up \in BOOLEAN, Consult(e, up)
    PROVE  EmbeddingInv'
<1> DEFINE old == embedding[e]
           n == Len(old.texts)
           found == [i \in 1..n |-> vectors[EntryOf(ModelOf[e], old.texts[i])]]
           read == [old EXCEPT !.got = found]
           next == [read EXCEPT !.step = IF Missing(read) = <<>> THEN "answered" ELSE "embed"]
<1>1. old \in CallRecords /\ n \in Nat /\ \A i \in 1..n : old.texts[i] \in Snippets
  <2>1. old \in CallRecords
    BY DEF EmbeddingInv, CallsHold
  <2> QED BY <2>1, ElementOfSeq, LenProperties DEF CallRecords
<1>2. old.step = "read"
  BY DEF Consult
<1>5. vectors' = vectors /\ clearing' = clearing /\ calls' = calls
  BY DEF Consult
<1>3. CASE up
  <2> DEFINE key(i) == EntryOf(ModelOf[e], old.texts[i])
  <2>11. \A i \in 1..n : key(i) \in Keys /\ key(i).model = ModelOf[e] /\ key(i).text = old.texts[i]
    BY <1>1 DEF EntryOf, Keys, Models
  <2>12. found = [i \in 1..n |-> vectors[key(i)]]
    OBVIOUS
  <2> HIDE DEF key, found
  <2>1. \A i \in 1..n : /\ found[i] \in Vectors
                        /\ Usable(found[i]) => found[i] = Vector(ModelOf[e], old.texts[i])
    <3>1. TAKE i \in 1..n
    <3>2. found[i] = vectors[key(i)]
      BY <2>12
    <3>3. vectors[key(i)] \in Vectors
      BY <2>11 DEF EmbeddingInv, StoreHolds
    <3>4. Usable(vectors[key(i)]) => vectors[key(i)] = Vector(key(i).model, key(i).text)
      BY <2>11 DEF EmbeddingInv, StoreHolds
    <3> QED BY <2>11, <3>2, <3>3, <3>4
  <2>2. found \in Seq(Vectors) /\ Len(found) = n
    <3>1. found \in [1..n -> Vectors]
      BY <2>1, <2>12
    <3> QED BY <1>1, <3>1
  <2> DEFINE step == IF Missing(read) = <<>> THEN "answered" ELSE "embed"
  <2>9. Update(e, next)
    BY <1>3 DEF Consult, found
  <2>3. read \in CallRecords /\ read.texts = old.texts /\ read.got = found
    BY <1>1, <2>2, WithGot
  <2>10. step \in CallSteps
    BY DEF CallSteps
  <2> HIDE DEF read
  <2>4. /\ next \in CallRecords /\ next.texts = old.texts /\ next.got = found
        /\ next.step = IF Missing(read) = <<>> THEN "answered" ELSE "embed"
    BY <2>3, <2>10, WithStep
  <2> HIDE DEF next
  <2>5. SoundSoFar(e, next)
    BY <2>1, <2>2, <2>4 DEF SoundSoFar
  <2>6. Missing(read) = <<>> => Aligned(e, next)
    <3>1. SUFFICES ASSUME Missing(read) = <<>>, NEW i \in 1..n PROVE Usable(found[i])
      BY <2>1, <2>2, <2>4 DEF Aligned
    <3>2. SUFFICES ASSUME i \in Gaps(read) PROVE FALSE
      BY <2>3 DEF Gaps
    <3>3. Contains(Missing(read), i)
      BY <1>1, <2>3, <3>2, MissingIsFound
    <3> QED BY <3>1, <3>3 DEF Contains
  <2>8. CallHolds(e, next)
    BY <2>4, <2>5, <2>6 DEF CallHolds
  <2>7. CallsHold'
    BY <2>8, <2>9, OneCallMoves DEF EmbeddingInv
  <2> QED BY <1>5, <2>7 DEF EmbeddingInv, StoreHolds
<1>4. CASE ~up
  <2> DEFINE nothing == [i \in 1..n |-> NoVector]
             none == [[old EXCEPT !.step = "embed"] EXCEPT !.got = nothing]
  <2>1. Update(e, none)
    BY <1>4 DEF Consult, NothingFound
  <2>2. nothing \in Seq(Vectors) /\ Len(nothing) = n /\ \A i \in 1..n : nothing[i] = NoVector
    BY <1>1 DEF Vectors
  <2> HIDE DEF nothing
  <2>3. [old EXCEPT !.step = "embed"] \in CallRecords
    BY <1>1, WithStep DEF CallSteps
  <2>4. none \in CallRecords /\ none.step = "embed" /\ none.texts = old.texts /\ none.got = nothing
    BY <1>1, <2>2 DEF CallRecords, CallSteps
  <2> HIDE DEF none
  <2>5. SoundSoFar(e, none)
    BY <2>2, <2>4 DEF SoundSoFar, Usable
  <2>6. CallHolds(e, none)
    BY <2>4, <2>5 DEF CallHolds
  <2>7. CallsHold'
    BY <2>1, <2>6, OneCallMoves DEF EmbeddingInv
  <2> QED BY <1>5, <2>7 DEF EmbeddingInv, StoreHolds
<1> QED BY <1>3, <1>4
LEMMA EmbedMissingKeeps ==
    ASSUME EmbeddingInv, NEW e \in Embedders, NEW up \in BOOLEAN, EmbedMissing(e, up)
    PROVE  EmbeddingInv'
<1> DEFINE old == embedding[e]
           n == Len(old.texts)
           s == Missing(old)
           fresh == [j \in 1..Len(s) |-> Vector(ModelOf[e], old.texts[s[j]])]
           new == [j \in 1..Len(s) |-> old.texts[s[j]]]
           got == Filled(old, fresh)
<1>1. vectors' = vectors /\ clearing' = clearing /\ calls' = calls /\ old.step = "embed"
  BY DEF EmbedMissing
<1>2. old \in CallRecords /\ CallHolds(e, old)
  BY DEF EmbeddingInv, CallsHold
<1>3. n \in Nat /\ \A i \in 1..n : old.texts[i] \in Snippets
  BY <1>2, ElementOfSeq, LenProperties DEF CallRecords
<1>4. CASE ~up
  <2> DEFINE next == [[old EXCEPT !.step = "failed"] EXCEPT !.served = FALSE]
  <2>1. Update(e, next)
    BY <1>4 DEF EmbedMissing
  <2>2. next \in CallRecords /\ next.step = "failed" /\ next.served = FALSE
    BY <1>2 DEF CallRecords, CallSteps
  <2> HIDE DEF next
  <2>3. CallHolds(e, next)
    BY <2>2 DEF CallHolds
  <2>4. CallsHold'
    BY <2>1, <2>3, OneCallMoves DEF EmbeddingInv
  <2> QED BY <1>1, <2>4 DEF EmbeddingInv, StoreHolds
<1>5. CASE up
  <2> DEFINE next == [old EXCEPT !.step = "write", !.got = got, !.fresh = fresh, !.new = new]
  <2>1. Update(e, next)
    BY <1>5 DEF EmbedMissing
  <2>2. s \in [1..Cardinality(Gaps(old)) -> Gaps(old)] /\ Cardinality(Gaps(old)) \in Nat
    BY <1>3, MissingIsOrdered
  <2>3. s \in Seq(Gaps(old))
    BY <2>2
  <2>4. Len(s) \in Nat /\ \A j \in 1..Len(s) : s[j] \in 1..n
    <3>1. \A j \in 1..Len(s) : s[j] \in Gaps(old)
      BY <2>3, ElementOfSeq
    <3> QED BY <2>3, <3>1, LenProperties DEF Gaps
  <2>5. SoundSoFar(e, old)
    BY <1>1, <1>2 DEF CallHolds
  <2>6. got \in [1..n -> Vectors] /\ \A i \in 1..n : got[i] = Vector(ModelOf[e], old.texts[i])
    BY <1>2, <2>5, FilledIsAligned
  <2> HIDE DEF s
  <2>7. \A j \in 1..Len(s) : new[j] \in Snippets /\ fresh[j] = Vector(ModelOf[e], new[j])
    BY <1>3, <2>4
  <2>8. \A j \in 1..Len(s) : fresh[j] \in Vectors
    BY <2>7 DEF Vectors, Vector, Models
  <2>9. new \in [1..Len(s) -> Snippets] /\ fresh \in [1..Len(s) -> Vectors]
    BY <2>7, <2>8
  <2> HIDE DEF new, fresh, got, n
  <2>10. /\ new \in Seq(Snippets) /\ fresh \in Seq(Vectors) /\ got \in Seq(Vectors)
         /\ Len(new) = Len(s) /\ Len(fresh) = Len(s) /\ Len(got) = n
    BY <1>3, <2>4, <2>6, <2>9, ListIsSequence
  <2>11. /\ next \in CallRecords /\ next.step = "write" /\ next.texts = old.texts
         /\ next.got = got /\ next.new = new /\ next.fresh = fresh
    BY <1>2, <2>10 DEF CallRecords, CallSteps
  <2> HIDE DEF next
  <2>12. CallHolds(e, next)
    BY <2>6, <2>7, <2>10, <2>11 DEF CallHolds, Aligned, n
  <2>13. CallsHold'
    BY <2>1, <2>12, OneCallMoves DEF EmbeddingInv
  <2> QED BY <1>1, <2>13 DEF EmbeddingInv, StoreHolds
<1> QED BY <1>4, <1>5

\* The vector kept under a key is the one at the last place of its text.
LEMMA LastPlace ==
    ASSUME NEW texts \in Seq(Snippets), NEW x, Contains(texts, x)
    PROVE  LET n == SelectLastInSeq(texts, LAMBDA t : t = x)
           IN  n \in 1..Len(texts) /\ texts[n] = x
<1> DEFINE I == {i \in 1..Len(texts) : texts[i] = x}
<1>1. I # {} /\ I \in SUBSET (1..Len(texts)) /\ Len(texts) \in Nat
  BY LenProperties DEF Contains
<1>2. \E i \in I : \A j \in I : j <= i
  BY <1>1, LargestExists
<1>3. Max(I) \in I
  <2>1. \E i \in I : \A j \in I : i >= j
    BY <1>1, <1>2
  <2> QED BY <2>1 DEF Max
<1>4. SelectLastInSeq(texts, LAMBDA t : t = x) = Max(I)
  BY <1>1 DEF SelectLastInSeq
<1> QED BY <1>3, <1>4

LEMMA StoreKeeps ==
    ASSUME EmbeddingInv, NEW e \in Embedders, NEW written \in BOOLEAN, Store(e, written)
    PROVE  EmbeddingInv'
<1> DEFINE old == embedding[e]
           next == [old EXCEPT !.step = "answered"]
<1>1. old \in CallRecords /\ CallHolds(e, old) /\ old.step = "write" /\ Update(e, next)
  BY DEF EmbeddingInv, CallsHold, Store
<1>2. /\ next \in CallRecords /\ next.step = "answered" /\ next.texts = old.texts
      /\ next.got = old.got
  BY <1>1, WithStep DEF CallSteps
<1> HIDE DEF next
<1>3. CallHolds(e, next)
  BY <1>1, <1>2 DEF CallHolds, Aligned
<1>4. CallsHold'
  BY <1>1, <1>3, OneCallMoves DEF EmbeddingInv
<1>5. CASE written
  <2> DEFINE kept(k) == StoredAt(ModelOf[e], old.new, old.fresh, k)
  <2>1. ASSUME NEW k \in Keys
        PROVE  kept(k) \in Vectors /\ (Usable(kept(k)) => kept(k) = Vector(k.model, k.text))
    <3>1. CASE k.model = ModelOf[e] /\ Contains(old.new, k.text)
      <4> DEFINE i == SelectLastInSeq(old.new, LAMBDA t : t = k.text)
      <4>1. old.new \in Seq(Snippets) /\ old.fresh \in Seq(Vectors)
        BY <1>1 DEF CallRecords
      <4>2. i \in 1..Len(old.new) /\ old.new[i] = k.text
        BY <3>1, <4>1, LastPlace
      <4>3. kept(k) = old.fresh[i]
        BY <3>1 DEF StoredAt
      <4> HIDE DEF i
      <4>4. old.fresh[i] = Vector(ModelOf[e], old.new[i]) /\ old.fresh[i] \in Vectors
        BY <1>1, <4>1, <4>2, ElementOfSeq DEF CallHolds
      <4> QED BY <3>1, <4>2, <4>3, <4>4
    <3>2. CASE ~(k.model = ModelOf[e] /\ Contains(old.new, k.text))
      <4>1. kept(k) = vectors[k]
        BY <3>2 DEF StoredAt
      <4> QED BY <4>1 DEF EmbeddingInv, StoreHolds
    <3> QED BY <3>1, <3>2
  <2>2. vectors' = [k \in Keys |-> kept(k)]
    BY <1>5 DEF Store, KeptVectors
  <2> HIDE DEF kept
  <2>3. vectors' \in [Keys -> Vectors] /\ \A k \in Keys : vectors'[k] = kept(k)
    BY <2>1, <2>2
  <2>4. StoreHolds'
    BY <2>1, <2>3 DEF StoreHolds
  <2> QED BY <1>4, <2>4 DEF EmbeddingInv, Store
<1>6. CASE ~written
  BY <1>4, <1>6 DEF EmbeddingInv, Store, StoreHolds
<1> QED BY <1>5, <1>6

LEMMA ReturnVectorsKeeps ==
    ASSUME EmbeddingInv, NEW e \in Embedders, ReturnVectors(e)
    PROVE  EmbeddingInv'
<1>1. NoCall.step = "idle"
  BY DEF NoCall
<1>2. CallHolds(e, NoCall)
  BY <1>1, NoCallIsACall DEF CallHolds
<1>3. CallsHold'
  BY <1>2, OneCallMoves DEF ReturnVectors, EmbeddingInv
<1> QED BY <1>3 DEF ReturnVectors, EmbeddingInv, StoreHolds

LEMMA ScanKeysKeeps ==
    ASSUME EmbeddingInv, NEW e \in Embedders, ScanKeys(e)
    PROVE  EmbeddingInv'
<1>1. clearing' \in [Embedders -> SUBSET Keys]
  BY DEF ScanKeys, EmbeddingInv
<1> QED BY <1>1 DEF ScanKeys, EmbeddingInv, StoreHolds, CallsHold

LEMMA DeleteKeysKeeps ==
    ASSUME EmbeddingInv, NEW e \in Embedders, DeleteKeys(e)
    PROVE  EmbeddingInv'
<1>1. clearing' \in [Embedders -> SUBSET Keys]
  BY DEF DeleteKeys, EmbeddingInv
<1>2. NoVector \in Vectors /\ ~Usable(NoVector)
  BY DEF Vectors, Usable
<1>3. vectors' \in [Keys -> Vectors]
  BY <1>2 DEF DeleteKeys, EmbeddingInv, StoreHolds
<1>4. \A k \in Keys : vectors'[k] = vectors[k] \/ vectors'[k] = NoVector
  BY DEF DeleteKeys
<1>5. StoreHolds'
  BY <1>2, <1>3, <1>4 DEF EmbeddingInv, StoreHolds
<1> QED BY <1>1, <1>5 DEF DeleteKeys, EmbeddingInv, CallsHold

LEMMA DecayKeeps ==
    ASSUME EmbeddingInv, NEW k \in Keys, NEW left \in {NoVector, Garbage}, Decay(k, left)
    PROVE  EmbeddingInv'
<1>1. left \in Vectors /\ ~Usable(left)
  BY DEF Vectors, Usable
<1>2. StoreHolds'
  BY <1>1 DEF Decay, EmbeddingInv, StoreHolds
<1> QED BY <1>2 DEF Decay, EmbeddingInv, CallsHold

LEMMA EmbeddingStep == EmbeddingInv /\ [EmbeddingNext]_embeddingVars => EmbeddingInv'
<1> SUFFICES ASSUME EmbeddingInv, [EmbeddingNext]_embeddingVars PROVE EmbeddingInv'
  OBVIOUS
<1>1. ASSUME NEW e \in Embedders, NEW texts \in SeqOf(Snippets, MaxTexts), AskVectors(e, texts)
      PROVE  EmbeddingInv'
  <2>1. texts \in Seq(Snippets)
    BY EmbeddingAssumption DEF SeqOf
  <2> QED BY <1>1, <2>1, AskVectorsKeeps
<1>2. ASSUME NEW e \in Embedders, NEW up \in BOOLEAN,
             Consult(e, up) \/ EmbedMissing(e, up) \/ Store(e, up)
      PROVE  EmbeddingInv'
  BY <1>2, ConsultKeeps, EmbedMissingKeeps, StoreKeeps
<1>3. ASSUME NEW e \in Embedders, ReturnVectors(e) \/ ScanKeys(e) \/ DeleteKeys(e)
      PROVE  EmbeddingInv'
  BY <1>3, ReturnVectorsKeeps, ScanKeysKeeps, DeleteKeysKeeps
<1>4. ASSUME NEW k \in Keys, NEW left \in {NoVector, Garbage}, Decay(k, left)
      PROVE  EmbeddingInv'
  BY <1>4, DecayKeeps
<1>5. CASE UNCHANGED embeddingVars
  BY <1>5 DEF embeddingVars, EmbeddingInv, StoreHolds, CallsHold
<1> QED BY <1>1, <1>2, <1>3, <1>4, <1>5 DEF EmbeddingNext

LEMMA EmbeddingIsAligned == EmbeddingInv => VectorsStayAligned
<1> SUFFICES ASSUME EmbeddingInv PROVE VectorsStayAligned
  OBVIOUS
<1>1. ASSUME NEW e \in Embedders
      PROVE  /\ embedding[e].step = "answered" =>
                    \A i \in 1..Len(embedding[e].texts) :
                        embedding[e].got[i] = Vector(ModelOf[e], embedding[e].texts[i])
             /\ embedding[e].step = "failed" => ~embedding[e].served
  BY DEF EmbeddingInv, CallsHold, CallHolds, Aligned
<1> QED BY <1>1 DEF EmbeddingInv, StoreHolds, VectorsStayAligned

\* The invariant of the cache of embeddings, whatever number of texts a call
\* has and however many embedders share Redis (cached_embeddings.py).
THEOREM EmbeddingInvariant == EmbeddingSpec => []EmbeddingInv
BY EmbeddingBegins, EmbeddingStep, PTL DEF EmbeddingSpec

\* Every text of an answered call has its own vector, in its own place, under
\* the caller's model (CachedEmbeddingService.embed).
THEOREM EmbeddingsAlign == EmbeddingSpec => []VectorsStayAligned
BY EmbeddingInvariant, EmbeddingIsAligned, PTL

-----------------------------------------------------------------------------
(* Running totals. *)

Ticks == 0..(MaxTime + 1)
Counts == [Times -> Nat]

\* What holds at a tick and goes on from tick to tick holds from there on.
LEMMA TickInduction ==
    ASSUME NEW Good, NEW f \in Ticks, f \in Good,
           \A t \in Times : t >= f /\ t \in Good => t + 1 \in Good
    PROVE  \A n \in Ticks : n >= f => n \in Good
<1> DEFINE Bad == {n \in Ticks : n >= f /\ n \notin Good}
<1>1. SUFFICES ASSUME Bad # {} PROVE FALSE
  OBVIOUS
<1>2. Bad \in SUBSET Nat
  BY DEF Ticks
<1>3. PICK n \in Bad : \A k \in Bad : n <= k
  BY <1>1, <1>2, SmallestExists
<1>4. n \in Nat /\ f \in Nat /\ n # f /\ n > f /\ n <= MaxTime + 1 /\ MaxTime \in Nat
  BY <1>3, LimiterAssumption DEF Ticks
<1>5. n - 1 \in Times /\ n - 1 \in Ticks /\ n - 1 >= f /\ (n - 1) + 1 = n
  BY <1>4 DEF Ticks, Times
<1>6. n - 1 \notin Bad
  BY <1>3, <1>4, <1>5
<1>7. n - 1 \in Good
  BY <1>5, <1>6
<1> QED BY <1>3, <1>5, <1>7

\* What Sums is, up to a tick.
SumUpTo(counts, m, s) ==
    s = [n \in 0..m |-> IF n = 0 THEN 0 ELSE s[n - 1] + counts[n - 1]]

LEMMA SumGoesOn ==
    ASSUME NEW m \in Nat, m + 1 \in Ticks, NEW counts \in Counts, NEW s, s \in [0..m -> Nat],
           SumUpTo(counts, m, s)
    PROVE  \E r \in [0..(m + 1) -> Nat] : SumUpTo(counts, m + 1, r)
<1> DEFINE r == [n \in 0..(m + 1) |-> IF n = m + 1 THEN s[m] + counts[m] ELSE s[n]]
<1>1. m \in Times /\ counts[m] \in Nat /\ s[m] \in Nat
  BY LimiterAssumption DEF Ticks, Times, Counts
<1>2. r \in [0..(m + 1) -> Nat]
  BY <1>1
<1>3. ASSUME NEW n \in 0..(m + 1)
      PROVE  r[n] = IF n = 0 THEN 0 ELSE r[n - 1] + counts[n - 1]
  <2>1. CASE n = m + 1
    <3>1. n - 1 = m /\ n # 0 /\ m \in 0..(m + 1) /\ m # m + 1
      BY <2>1
    <3>2. r[n] = s[m] + counts[m] /\ r[m] = s[m]
      BY <2>1, <3>1
    <3> QED BY <3>1, <3>2
  <2>2. CASE n # m + 1
    <3>1. n \in 0..m /\ r[n] = s[n]
      BY <2>2
    <3>2. s[n] = IF n = 0 THEN 0 ELSE s[n - 1] + counts[n - 1]
      BY <3>1 DEF SumUpTo
    <3>3. n # 0 => n - 1 \in 0..m /\ r[n - 1] = s[n - 1]
      BY <3>1
    <3> QED BY <3>1, <3>2, <3>3
  <2> QED BY <2>1, <2>2
<1>4. r = [n \in 0..(m + 1) |-> IF n = 0 THEN 0 ELSE r[n - 1] + counts[n - 1]]
  <2>1. r = [n \in 0..(m + 1) |-> r[n]]
    OBVIOUS
  <2> HIDE DEF r
  <2> QED BY <1>3, <2>1
<1>5. SumUpTo(counts, m + 1, r)
  BY <1>4 DEF SumUpTo
<1> QED BY <1>2, <1>5

LEMMA SumExists ==
    ASSUME NEW counts \in Counts
    PROVE  \E s \in [Ticks -> Nat] : SumUpTo(counts, MaxTime + 1, s)
<1> DEFINE Good == {m \in Ticks : \E s \in [0..m -> Nat] : SumUpTo(counts, m, s)}
<1>1. 0 \in Ticks /\ MaxTime + 1 \in Ticks
  BY LimiterAssumption DEF Ticks
<1>2. 0 \in Good
  <2> DEFINE s == [n \in 0..0 |-> 0]
  <2>1. s \in [0..0 -> Nat]
    OBVIOUS
  <2>2. SumUpTo(counts, 0, s)
    BY DEF SumUpTo
  <2> QED BY <1>1, <2>1, <2>2
<1>3. \A m \in Times : m \in Good => m + 1 \in Good
  <2>1. SUFFICES ASSUME NEW m \in Times, m \in Good PROVE m + 1 \in Good
    OBVIOUS
  <2>2. m \in Nat /\ m + 1 \in Ticks
    BY LimiterAssumption DEF Times, Ticks
  <2> QED BY <2>1, <2>2, SumGoesOn
<1>4. \A n \in Ticks : n >= 0 => n \in Good
  BY <1>1, <1>2, <1>3, TickInduction
<1>5. MaxTime + 1 \in Good
  BY <1>1, <1>4, LimiterAssumption
<1> QED BY <1>5 DEF Ticks

\* A recursive function of the running totals has the values it is defined by.
LEMMA SumsAre ==
    ASSUME NEW counts \in Counts
    PROVE  /\ Sums(counts) \in [Ticks -> Int]
           /\ Sums(counts)[0] = 0
           /\ \A t \in Times : Sums(counts)[t + 1] = Sums(counts)[t] + counts[t]
<1>1. PICK s \in [Ticks -> Nat] : SumUpTo(counts, MaxTime + 1, s)
  BY SumExists
<1>2. s = [n \in 0..(MaxTime + 1) |-> IF n = 0 THEN 0 ELSE s[n - 1] + counts[n - 1]]
  BY <1>1 DEF SumUpTo
<1> DEFINE sum == Sums(counts)
<1>3. sum = [n \in 0..(MaxTime + 1) |-> IF n = 0 THEN 0 ELSE sum[n - 1] + counts[n - 1]]
  BY <1>2 DEF Sums
<1> HIDE DEF sum
<1>4. sum[0] = 0
  BY <1>3, LimiterAssumption
<1>5. \A t \in Times : sum[t + 1] = sum[t] + counts[t]
  <2>1. TAKE t \in Times
  <2>2. t + 1 \in 0..(MaxTime + 1) /\ t + 1 # 0 /\ (t + 1) - 1 = t
    BY LimiterAssumption DEF Times
  <2> QED BY <1>3, <2>2
<1>6. \A n \in Ticks : sum[n] \in Int
  <2> DEFINE Good == {n \in Ticks : sum[n] \in Int}
  <2>1. 0 \in Ticks /\ 0 \in Good
    BY <1>4, LimiterAssumption DEF Ticks
  <2>2. \A t \in Times : t \in Good => t + 1 \in Good
    <3>1. \A t \in Times : t + 1 \in Ticks /\ counts[t] \in Int
      BY LimiterAssumption DEF Times, Ticks, Counts
    <3> QED BY <1>5, <3>1
  <2>3. \A n \in Ticks : n >= 0 => n \in Good
    BY <2>1, <2>2, TickInduction
  <2> QED BY <2>3, LimiterAssumption DEF Ticks
<1>7. sum = [n \in Ticks |-> sum[n]]
  BY <1>3 DEF Ticks
<1>8. sum \in [Ticks -> Int]
  BY <1>6, <1>7
<1> QED BY <1>4, <1>5, <1>8 DEF sum

LEMMA SumsIncrease ==
    ASSUME NEW counts \in Counts, NEW m \in Ticks, NEW n \in Ticks, m <= n
    PROVE  Sums(counts)[m] <= Sums(counts)[n]
<1> DEFINE s == Sums(counts)
           Good == {k \in Ticks : s[m] <= s[k]}
<1>1. s \in [Ticks -> Int] /\ \A t \in Times : s[t + 1] = s[t] + counts[t]
  BY SumsAre
<1> HIDE DEF s
<1>2. m \in Good
  BY <1>1
<1>3. \A t \in Times : t \in Good => t + 1 \in Good
  <2>1. \A t \in Times : t \in Ticks /\ t + 1 \in Ticks /\ counts[t] \in Nat
    BY LimiterAssumption DEF Times, Ticks, Counts
  <2> QED BY <1>1, <2>1
<1>4. \A k \in Ticks : k >= m => k \in Good
  BY <1>2, <1>3, TickInduction
<1>5. n >= m
  BY DEF Ticks
<1> QED BY <1>4, <1>5 DEF s

One(b) == IF b THEN 1 ELSE 0

LEMMA SumsBump ==
    ASSUME NEW counts \in Counts, NEW c \in Times
    PROVE  LET more == [counts EXCEPT ![c] = @ + 1]
           IN  /\ more \in Counts
               /\ \A n \in Ticks : Sums(more)[n] = Sums(counts)[n] + One(n > c)
<1> DEFINE more == [counts EXCEPT ![c] = @ + 1]
           s == Sums(counts)
           r == Sums(more)
           Good == {n \in Ticks : r[n] = s[n] + One(n > c)}
<1>1. more \in Counts /\ \A t \in Times : more[t] = counts[t] + One(t = c) /\ counts[t] \in Nat
  BY DEF Counts, One
<1> HIDE DEF more
<1>2. /\ s \in [Ticks -> Int] /\ s[0] = 0 /\ \A t \in Times : s[t + 1] = s[t] + counts[t]
      /\ r \in [Ticks -> Int] /\ r[0] = 0 /\ \A t \in Times : r[t + 1] = r[t] + more[t]
  BY <1>1, SumsAre
<1> HIDE DEF s, r
<1>3. 0 \in Ticks /\ 0 \in Good
  BY <1>2, LimiterAssumption DEF Ticks, Times, One
<1>4. ASSUME NEW t \in Times, t \in Good PROVE t + 1 \in Good
  <2>1. t \in Ticks /\ t + 1 \in Ticks /\ t \in Nat /\ c \in Nat
    BY LimiterAssumption DEF Times, Ticks
  <2>2. One(t > c) + One(t = c) = One(t + 1 > c)
    BY <2>1 DEF One
  <2>3. One(t > c) \in Int /\ One(t = c) \in Int
    BY DEF One
  <2>4. r[t] = s[t] + One(t > c)
    BY <1>4
  <2>5. r[t + 1] = (s[t] + One(t > c)) + (counts[t] + One(t = c)) /\ s[t + 1] = s[t] + counts[t]
    BY <1>1, <1>2, <2>4
  <2>6. s[t] \in Int /\ counts[t] \in Int
    BY <1>1, <1>2, <2>1
  <2>7. r[t + 1] = s[t + 1] + One(t + 1 > c)
    BY <2>2, <2>3, <2>5, <2>6
  <2> QED BY <2>1, <2>7
<1>5. \A n \in Ticks : n >= 0 => n \in Good
  BY <1>3, <1>4, TickInduction
<1>6. \A n \in Ticks : n \in Good
  BY <1>5, LimiterAssumption DEF Ticks
<1> QED BY <1>1, <1>6 DEF more, s, r

\* What is never more at any tick is not more in total.
LEMMA SumsDominate ==
    ASSUME NEW a \in Counts, NEW b \in Counts, NEW f \in Ticks,
           \A t \in Times : t >= f => a[t] <= b[t]
    PROVE  \A n \in Ticks : n >= f => Sums(a)[n] - Sums(a)[f] <= Sums(b)[n] - Sums(b)[f]
<1> DEFINE s == Sums(a)
           r == Sums(b)
           Good == {n \in Ticks : s[n] - s[f] <= r[n] - r[f]}
<1>1. /\ s \in [Ticks -> Int] /\ \A t \in Times : s[t + 1] = s[t] + a[t]
      /\ r \in [Ticks -> Int] /\ \A t \in Times : r[t + 1] = r[t] + b[t]
  BY SumsAre
<1> HIDE DEF s, r
<1>2. f \in Good
  BY <1>1
<1>3. ASSUME NEW t \in Times, t >= f, t \in Good PROVE t + 1 \in Good
  <2>1. t \in Ticks /\ t + 1 \in Ticks /\ a[t] \in Int /\ b[t] \in Int /\ a[t] <= b[t]
    BY <1>3, LimiterAssumption DEF Times, Ticks, Counts
  <2>2. s[t] \in Int /\ r[t] \in Int /\ s[f] \in Int /\ r[f] \in Int /\ s[t] - s[f] <= r[t] - r[f]
    BY <1>1, <1>3, <2>1
  <2>3. s[t + 1] = s[t] + a[t] /\ r[t + 1] = r[t] + b[t]
    BY <1>1
  <2>4. s[t + 1] - s[f] <= r[t + 1] - r[f]
    BY <2>1, <2>2, <2>3
  <2> QED BY <2>1, <2>4
<1>4. \A n \in Ticks : n >= f => n \in Good
  BY <1>2, <1>3, TickInduction
<1> QED BY <1>4 DEF s, r

\* Nothing before a tick is nothing in total.
LEMMA SumsOfNothing ==
    ASSUME NEW counts \in Counts, NEW f \in Ticks, \A t \in Times : t < f => counts[t] = 0
    PROVE  Sums(counts)[f] = 0
<1> DEFINE s == Sums(counts)
           Good == {n \in Ticks : n <= f => s[n] = 0}
<1>1. s \in [Ticks -> Int] /\ s[0] = 0 /\ \A t \in Times : s[t + 1] = s[t] + counts[t]
  BY SumsAre
<1> HIDE DEF s
<1>2. 0 \in Ticks /\ 0 \in Good
  BY <1>1, LimiterAssumption DEF Ticks
<1>3. ASSUME NEW t \in Times, t \in Good PROVE t + 1 \in Good
  <2>1. t \in Ticks /\ t + 1 \in Ticks /\ t \in Nat /\ f \in Nat
    BY LimiterAssumption DEF Times, Ticks
  <2>2. t + 1 <= f => s[t] = 0 /\ counts[t] = 0
    BY <1>3, <2>1
  <2> QED BY <1>1, <2>1, <2>2
<1>4. \A n \in Ticks : n >= 0 => n \in Good
  BY <1>2, <1>3, TickInduction
<1>5. f >= 0 /\ f <= f
  BY DEF Ticks
<1> QED BY <1>4, <1>5 DEF s

-----------------------------------------------------------------------------
(* The rate limits. *)

LimiterTypes ==
    /\ clock \in Times /\ unearned = {}
    /\ slots \in Counts /\ asked \in Counts /\ admitted \in [Processes -> Counts]
    /\ buckets \in [Processes -> [level : Int, filled : Times]]
    /\ asking \in [Processes -> [step : {"idle", "sent"}, stamp : Times]]

\* A call has the stamp of this tick or of the last, and buckets are bounded.
CallsAreRecent ==
    \A p \in Processes : asking[p].step = "sent" =>
        asking[p].stamp <= clock /\ clock <= asking[p].stamp + 1
LevelsHold ==
    \A p \in Processes :
        \/ buckets[p] = NoBucket
        \/ buckets[p].level \in 0..Full /\ buckets[p].filled <= clock

\* Whoever has a slot, or is about to ask for one, did ask.
WaitingAt(t) == {p \in Processes : asking[p].step = "sent" /\ asking[p].stamp = t}
SlotsWereAsked == \A t \in Times : slots[t] + Cardinality(WaitingAt(t)) <= asked[t]

\* What a bucket let through after a tick was asked at that tick or later, and
\* the request under way besides.
Froms == (0 - WindowTicks)..MaxTime
LetThrough(p, from) == Total(admitted[p], from, MaxTime)
WaitsSince(p, x) == One(asking[p].step = "sent" /\ asking[p].stamp >= x)
PassesWereAsked ==
    \A p \in Processes : \A x \in Froms :
        LetThrough(p, x + 1) + WaitsSince(p, x) <= Total(asked, x, MaxTime)

\* A bucket has at least what was refilled since a tick less what it let
\* through since, at most a full one more; and no window gets more than that.
Least(a, b) == IF a < b THEN a ELSE b
NothingYet(p) == LetThrough(p, clock + 1) = 0
HasAtLeast(p) ==
    \A x \in (0 - WindowTicks)..clock :
        Level(p) >= Least(Full, (clock - x) * RequestLimit) - WindowTicks * LetThrough(p, x + 1)
HasAtMost(p) ==
    \A x \in 0..clock :
        WindowTicks * LetThrough(p, x) + Level(p) <= Full + (clock - x) * RequestLimit
WindowsHold(p) ==
    \A x, y \in Times : x <= y =>
        WindowTicks * Total(admitted[p], x, y) <= Full + (y - x) * RequestLimit
BucketHolds(p) == NothingYet(p) /\ HasAtLeast(p) /\ HasAtMost(p) /\ WindowsHold(p)

LimiterInv ==
    /\ LimiterTypes /\ CallsAreRecent /\ LevelsHold /\ SlotsWereAsked /\ PassesWereAsked
    /\ \A p \in Processes : BucketHolds(p)

LEMMA FullIs == Full \in Nat \ {0} /\ Full >= WindowTicks
BY LimiterAssumption DEF Full

LEMMA LevelIs ==
    ASSUME LimiterTypes, LevelsHold, NEW p \in Processes
    PROVE  Level(p) \in 0..Full
<1>1. CASE buckets[p] = NoBucket
  BY <1>1, FullIs DEF Level
<1>2. CASE buckets[p] # NoBucket
  <2>1. buckets[p].level \in 0..Full /\ clock - buckets[p].filled \in Nat
    BY <1>2 DEF LevelsHold, LimiterTypes, Times
  <2>2. (clock - buckets[p].filled) * RequestLimit \in Nat
    BY <2>1, LimiterAssumption
  <2> QED BY <1>2, <2>1, <2>2, FullIs DEF Level, Refilled
<1> QED BY <1>1, <1>2

LEMMA TotalIsInt ==
    ASSUME NEW counts \in Counts, NEW x \in Int, x <= MaxTime + 1, NEW y \in Times
    PROVE  /\ Floor(x) \in Ticks /\ y + 1 \in Ticks
           /\ Total(counts, x, y) \in Int /\ (x <= y + 1 => Total(counts, x, y) >= 0)
<1>1. Floor(x) \in Ticks /\ y + 1 \in Ticks
  BY LimiterAssumption DEF Floor, Ticks, Times
<1>2. Sums(counts) \in [Ticks -> Int]
  BY SumsAre
<1>3. x <= y + 1 => Floor(x) <= y + 1
  BY DEF Floor, Times
<1>4. x <= y + 1 => Sums(counts)[Floor(x)] <= Sums(counts)[y + 1]
  BY <1>1, <1>3, SumsIncrease
<1> QED BY <1>1, <1>2, <1>4 DEF Total

\* One request more at a tick.
LEMMA TotalBump ==
    ASSUME NEW counts \in Counts, NEW c \in Times, NEW more, more = [counts EXCEPT ![c] = @ + 1],
           NEW x \in Int, x <= MaxTime + 1, NEW y \in Times, x <= y + 1
    PROVE  Total(more, x, y) = Total(counts, x, y) + One(x <= c /\ c <= y)
<1>1. Floor(x) \in Ticks /\ y + 1 \in Ticks
  BY TotalIsInt
<1>2. Sums(counts) \in [Ticks -> Int]
  BY SumsAre
<1>3. /\ Sums(more)[y + 1] = Sums(counts)[y + 1] + One(y + 1 > c)
      /\ Sums(more)[Floor(x)] = Sums(counts)[Floor(x)] + One(Floor(x) > c)
  BY <1>1, SumsBump
<1>4. One(y + 1 > c) - One(Floor(x) > c) = One(x <= c /\ c <= y)
  BY LimiterAssumption DEF One, Floor, Times
<1>5. One(y + 1 > c) \in Int /\ One(Floor(x) > c) \in Int
  BY DEF One
<1> QED BY <1>1, <1>2, <1>3, <1>4, <1>5 DEF Total

-----------------------------------------------------------------------------
\* Who waits, as a set.
LEMMA WaitersAre ==
    ASSUME LimiterTypes, NEW t \in Times
    PROVE  IsFiniteSet(WaitingAt(t)) /\ Cardinality(WaitingAt(t)) \in Nat
<1>1. WaitingAt(t) \in SUBSET Processes /\ IsFiniteSet(Processes)
  BY LimiterAssumption DEF WaitingAt
<1>2. IsFiniteSet(WaitingAt(t))
  BY <1>1, FS_Subset
<1> QED BY <1>2, FS_CardinalityType

\* What only depends on the clock, the buckets and what they let through.
LEMMA BucketStays ==
    ASSUME NEW p \in Processes, BucketHolds(p), clock' = clock,
           buckets'[p] = buckets[p], admitted'[p] = admitted[p]
    PROVE  BucketHolds(p)'
BY DEF BucketHolds, NothingYet, HasAtLeast, HasAtMost, WindowsHold, LetThrough, Level, Refilled, Total

LEMMA BucketsStay ==
    ASSUME LimiterInv, clock' = clock, buckets' = buckets, admitted' = admitted
    PROVE  LevelsHold' /\ \A p \in Processes : BucketHolds(p)'
<1>1. \A p \in Processes : BucketHolds(p)'
  BY BucketStays DEF LimiterInv
<1> QED BY <1>1 DEF LimiterInv, LevelsHold

\* An answered call leaves the others waiting.

LEMMA CallsStayRecent ==
    ASSUME LimiterInv, NEW p \in Processes, Answered(p), clock' = clock
    PROVE  /\ asking' \in [Processes -> [step : {"idle", "sent"}, stamp : Times]]
           /\ CallsAreRecent'
           /\ \A q \in Processes : asking'[q].step = "sent" => q # p /\ asking'[q] = asking[q]
<1>1. NotChecking \in [step : {"idle", "sent"}, stamp : Times] /\ NotChecking.step = "idle"
  BY LimiterAssumption DEF NotChecking, Times
<1>2. asking' \in [Processes -> [step : {"idle", "sent"}, stamp : Times]]
  BY <1>1 DEF Answered, LimiterInv, LimiterTypes
<1>3. \A q \in Processes : asking'[q] = IF q = p THEN NotChecking ELSE asking[q]
  BY DEF Answered, LimiterInv, LimiterTypes
<1>4. \A q \in Processes : asking'[q].step = "sent" => q # p /\ asking'[q] = asking[q]
  BY <1>1, <1>3
<1>5. CallsAreRecent'
  BY <1>4 DEF CallsAreRecent, LimiterInv
<1> QED BY <1>2, <1>4, <1>5

\* The script enters a request that had no slot yet, or none.
LEMMA SlotsKept ==
    ASSUME LimiterInv, NEW p \in Processes, Answered(p), clock' = clock, asked' = asked,
           asking[p].step = "sent", slots' \in Counts,
           \A t \in Times : slots'[t] <= slots[t] + One(t = asking[p].stamp)
    PROVE  SlotsWereAsked'
<1> SUFFICES ASSUME NEW t \in Times PROVE slots'[t] + Cardinality(WaitingAt(t))' <= asked[t]
  BY DEF SlotsWereAsked
<1> DEFINE W == WaitingAt(t)
<1>1. IsFiniteSet(W) /\ Cardinality(W) \in Nat /\ slots[t] + Cardinality(W) <= asked[t]
  BY WaitersAre DEF LimiterInv, SlotsWereAsked
<1>2. WaitingAt(t)' = W \ {p}
  <2>1. \A q \in Processes : asking'[q] = IF q = p THEN NotChecking ELSE asking[q]
    BY DEF Answered, LimiterInv, LimiterTypes
  <2> QED BY <2>1 DEF WaitingAt, NotChecking
<1>3. slots[t] \in Nat /\ slots'[t] \in Nat /\ asked[t] \in Nat
  BY DEF LimiterInv, LimiterTypes, Counts
<1>4. slots'[t] <= slots[t] + One(t = asking[p].stamp)
  OBVIOUS
<1>5. p \in W <=> t = asking[p].stamp
  BY DEF WaitingAt
<1> HIDE DEF W
<1>6. CASE t = asking[p].stamp
  <2>1. Cardinality(W \ {p}) = Cardinality(W) - 1
    BY <1>1, <1>5, <1>6, FS_RemoveElement
  <2>2. slots'[t] <= slots[t] + 1
    BY <1>4, <1>6 DEF One
  <2>3. Cardinality(WaitingAt(t))' = Cardinality(W) - 1
    BY <1>2, <2>1
  <2> QED BY <1>1, <1>3, <2>2, <2>3
<1>7. CASE t # asking[p].stamp
  <2>1. W \ {p} = W
    BY <1>5, <1>7
  <2>2. slots'[t] <= slots[t]
    BY <1>3, <1>4, <1>7 DEF One
  <2>3. Cardinality(WaitingAt(t))' = Cardinality(W)
    BY <1>2, <2>1
  <2> QED BY <1>1, <1>3, <2>2, <2>3
<1> QED BY <1>6, <1>7

\* The window of the script: what is left, and that it was all asked.
LEMMA WindowIs ==
    ASSUME LimiterInv, NEW p \in Processes, asking[p].step = "sent"
    PROVE  LET s == asking[p].stamp IN
           /\ s \in Times /\ Pruned(s) \in Counts
           /\ \A t \in Times : /\ Pruned(s)[t] + One(t = s) <= asked[t]
                               /\ Pruned(s)[t] <= slots[t]
                               /\ t < s - WindowTicks + 1 => Pruned(s)[t] = 0
<1> DEFINE s == asking[p].stamp
<1>1. s \in Times /\ slots \in Counts /\ asked \in Counts
  BY DEF LimiterInv, LimiterTypes
<1>2. Pruned(s) \in Counts
  BY <1>1 DEF Pruned, Counts
<1>3. ASSUME NEW t \in Times
      PROVE  /\ Pruned(s)[t] + One(t = s) <= asked[t]
             /\ Pruned(s)[t] <= slots[t]
             /\ t < s - WindowTicks + 1 => Pruned(s)[t] = 0
  <2>1. Pruned(s)[t] = IF t > s - WindowTicks THEN slots[t] ELSE 0
    BY <1>1 DEF Pruned
  <2>2. IsFiniteSet(WaitingAt(t)) /\ Cardinality(WaitingAt(t)) \in Nat /\ slots[t] + Cardinality(WaitingAt(t)) <= asked[t]
    BY WaitersAre DEF LimiterInv, SlotsWereAsked
  <2>3. t = s => Cardinality(WaitingAt(t)) # 0
    <3>1. t = s => p \in WaitingAt(t)
      BY DEF WaitingAt
    <3> QED BY <2>2, <3>1, FS_EmptySet
  <2>4. slots[t] \in Nat /\ asked[t] \in Nat
    BY <1>1 DEF Counts
  <2>5. slots[t] + One(t = s) <= asked[t]
    BY <2>2, <2>3, <2>4 DEF One
  <2> QED BY <1>1, <2>1, <2>4, <2>5, LimiterAssumption DEF One, Times
<1> QED BY <1>1, <1>2, <1>3

LEMMA SharedRefusalIsEarned ==
    ASSUME LimiterInv, NEW p \in Processes, asking[p].step = "sent",
           ~(Total(Pruned(asking[p].stamp), 0, MaxTime) < RequestLimit)
    PROVE  Earned(p)
<1> DEFINE s == asking[p].stamp
           x == s - WindowTicks
           left == Pruned(s)
           more == [left EXCEPT ![s] = @ + 1]
<1>1. /\ s \in Times /\ left \in Counts /\ asked \in Counts
      /\ \A t \in Times : left[t] + One(t = s) <= asked[t] /\ (t < x + 1 => left[t] = 0)
  BY WindowIs DEF LimiterInv, LimiterTypes
<1> HIDE DEF s, left
<1>2. /\ MaxTime \in Times /\ x \in Int /\ x <= MaxTime /\ x <= MaxTime + 1 /\ x <= s /\ s <= MaxTime
      /\ 0 \in Int /\ 0 <= MaxTime + 1
  BY <1>1, LimiterAssumption DEF Times
<1>a. more \in Counts
  BY <1>1 DEF Counts
<1> HIDE DEF x
<1>b. /\ Floor(x) \in Ticks /\ MaxTime + 1 \in Ticks
      /\ Total(left, x, MaxTime) \in Int /\ Total(left, 0, MaxTime) \in Int /\ Total(asked, x, MaxTime) \in Int
  BY <1>1, <1>2, TotalIsInt
<1>3. more \in Counts /\ Floor(x) \in Ticks /\ MaxTime + 1 \in Ticks
  BY <1>a, <1>b
<1>4. \A t \in Times : more[t] <= asked[t]
  <2>1. \A t \in Times : more[t] = left[t] + One(t = s)
    BY <1>1 DEF Counts, One
  <2> QED BY <1>1, <2>1
<1>5. Total(more, x, MaxTime) = Total(left, x, MaxTime) + 1
  <2>1. Total(more, x, MaxTime) = Total(left, x, MaxTime) + One(x <= s /\ s <= MaxTime)
    BY <1>1, <1>2, TotalBump DEF more
  <2> QED BY <1>2, <2>1 DEF One
<1> HIDE DEF more
<1>6. Total(more, x, MaxTime) <= Total(asked, x, MaxTime)
  <2>1. MaxTime + 1 >= Floor(x)
    BY <1>2 DEF Floor
  <2>2. Sums(more)[MaxTime + 1] - Sums(more)[Floor(x)] <= Sums(asked)[MaxTime + 1] - Sums(asked)[Floor(x)]
    BY <1>1, <1>3, <1>4, <2>1, SumsDominate
  <2> QED BY <2>2 DEF Total
<1>7. Total(left, x, MaxTime) = Total(left, 0, MaxTime)
  <2>1. \A t \in Times : t < Floor(x) => left[t] = 0
    BY <1>1, <1>2 DEF Floor, Times
  <2>2. Sums(left)[Floor(x)] = 0
    BY <1>1, <1>3, <2>1, SumsOfNothing
  <2>3. Floor(0) = 0 /\ Sums(left)[0] = 0
    BY <1>1, SumsAre DEF Floor
  <2> QED BY <2>2, <2>3 DEF Total
<1>8. Total(left, 0, MaxTime) >= RequestLimit
  <2>1. Total(left, 0, MaxTime) \in Int
    BY <1>b
  <2>2. ~(Total(left, 0, MaxTime) < RequestLimit)
    BY DEF left, s
  <2> QED BY <2>1, <2>2, LimiterAssumption
<1>9. Total(asked, x, MaxTime) \in Int /\ Total(left, 0, MaxTime) \in Int
  BY <1>b
<1>10. Total(asked, x, MaxTime) > RequestLimit
  BY <1>5, <1>6, <1>7, <1>8, <1>9, LimiterAssumption
<1> QED BY <1>10 DEF Earned, s, x

\* A bucket without a token let through as many as the limit in the window.
LEMMA BucketRefusalIsEarned ==
    ASSUME LimiterInv, NEW p \in Processes, asking[p].step = "sent", Level(p) < WindowTicks
    PROVE  Earned(p)
<1> DEFINE s == asking[p].stamp
           x == clock - WindowTicks
           a == LetThrough(p, x + 1)
<1>1. clock \in Times /\ s \in Times /\ s <= clock /\ asked \in Counts /\ admitted[p] \in Counts
  BY DEF LimiterInv, LimiterTypes, CallsAreRecent
<1>2. /\ x \in (0 - WindowTicks)..clock /\ x \in Froms /\ MaxTime \in Times /\ x <= MaxTime
      /\ x \in Int /\ x <= MaxTime + 1 /\ x + 1 \in Int /\ x + 1 <= MaxTime + 1
      /\ s - WindowTicks \in Int /\ s - WindowTicks <= MaxTime + 1
  BY <1>1, LimiterAssumption DEF Times, Froms
<1>3. Level(p) >= Least(Full, (clock - x) * RequestLimit) - WindowTicks * a /\ Level(p) \in Int
  BY <1>2, LevelIs, FullIs DEF LimiterInv, BucketHolds, HasAtLeast
<1>4. (clock - x) * RequestLimit = Full
  <2>1. clock - x = WindowTicks
    BY <1>1, LimiterAssumption DEF Times
  <2> QED BY <2>1, LimiterAssumption DEF Full
<1>5. Level(p) >= Full - WindowTicks * a
  BY <1>3, <1>4, FullIs DEF Least
<1>6. a \in Int
  BY <1>1, <1>2, TotalIsInt DEF LetThrough
<1>7. a >= RequestLimit
  <2>1. SUFFICES ASSUME a <= RequestLimit - 1 PROVE FALSE
    BY <1>6, LimiterAssumption
  <2>2. WindowTicks * a <= WindowTicks * (RequestLimit - 1)
    BY <1>6, <2>1, LimiterAssumption
  <2>3. WindowTicks * (RequestLimit - 1) = Full - WindowTicks
    BY LimiterAssumption DEF Full
  <2>4. WindowTicks * a \in Int
    BY <1>6, LimiterAssumption
  <2> QED BY <1>3, <1>5, <2>2, <2>3, <2>4, FullIs, LimiterAssumption
<1>8. a + 1 <= Total(asked, x, MaxTime)
  <2>1. WaitsSince(p, x) = 1
    <3>1. s >= x
      BY <1>1, LimiterAssumption, <1>2 DEF CallsAreRecent, LimiterInv, Times
    <3> QED BY <3>1 DEF WaitsSince, One
  <2>2. a + WaitsSince(p, x) <= Total(asked, x, MaxTime)
    BY <1>2 DEF LimiterInv, PassesWereAsked
  <2> QED BY <2>1, <2>2
<1>9. Total(asked, x, MaxTime) <= Total(asked, s - WindowTicks, MaxTime)
  <2>1. Floor(s - WindowTicks) <= Floor(x) /\ s - WindowTicks <= MaxTime /\ s - WindowTicks \in Int
    BY <1>1, <1>2, LimiterAssumption DEF Floor, Times
  <2>2. Floor(s - WindowTicks) \in Ticks /\ Floor(x) \in Ticks /\ MaxTime + 1 \in Ticks
    BY <1>1, <1>2, <2>1, TotalIsInt
  <2>3. Sums(asked)[Floor(s - WindowTicks)] <= Sums(asked)[Floor(x)]
    BY <1>1, <2>1, <2>2, SumsIncrease
  <2>4. Sums(asked) \in [Ticks -> Int]
    BY <1>1, SumsAre
  <2> QED BY <2>2, <2>3, <2>4 DEF Total
<1>10. Total(asked, x, MaxTime) \in Int /\ Total(asked, s - WindowTicks, MaxTime) \in Int
  BY <1>1, <1>2, TotalIsInt
<1>11. Total(asked, s - WindowTicks, MaxTime) > RequestLimit
  BY <1>6, <1>7, <1>8, <1>9, <1>10, LimiterAssumption
<1> QED BY <1>11 DEF Earned
-----------------------------------------------------------------------------
\* A bucket written at this tick has the level it was written with.
LEMMA LevelWritten ==
    ASSUME LimiterTypes, NEW p \in Processes, NEW n \in 0..Full, clock' = clock,
           buckets'[p] = [level |-> n, filled |-> clock]
    PROVE  Level(p)' = n
<1>1. n \in Int /\ n # 0 - 1 /\ n <= Full /\ clock \in Int
  BY FullIs DEF LimiterTypes, Times
<1>2. buckets'[p] # NoBucket /\ buckets'[p].level = n /\ buckets'[p].filled = clock
  BY <1>1 DEF NoBucket
<1>3. (clock - clock) * RequestLimit = 0
  BY <1>1, LimiterAssumption
<1>4. Level(p)' = IF n + (clock - clock) * RequestLimit > Full THEN Full ELSE n + (clock - clock) * RequestLimit
  BY <1>2 DEF Level, Refilled, Full
<1> QED BY <1>1, <1>3, <1>4, FullIs

LEMMA BucketWritten ==
    ASSUME LimiterInv, NEW p \in Processes, NEW n \in 0..Full, clock' = clock,
           buckets' = [buckets EXCEPT ![p] = [level |-> n, filled |-> clock]]
    PROVE  /\ buckets' \in [Processes -> [level : Int, filled : Times]]
           /\ LevelsHold' /\ Level(p)' = n
           /\ \A q \in Processes \ {p} : buckets'[q] = buckets[q]
<1> DEFINE b == [level |-> n, filled |-> clock]
<1>1. b \in [level : Int, filled : Times] /\ b.level = n /\ b.filled = clock
  BY FullIs DEF LimiterInv, LimiterTypes
<1> HIDE DEF b
<1>2. buckets' = [buckets EXCEPT ![p] = b]
  BY DEF b
<1>3. buckets' \in [Processes -> [level : Int, filled : Times]]
  BY <1>1, <1>2 DEF LimiterInv, LimiterTypes
<1>4. buckets'[p] = b /\ \A q \in Processes \ {p} : buckets'[q] = buckets[q]
  BY <1>2 DEF LimiterInv, LimiterTypes
<1>5. LevelsHold'
  <2>1. Full' = Full /\ NoBucket' = NoBucket
    BY DEF Full, NoBucket
  <2>2. ASSUME NEW q \in Processes
        PROVE  buckets'[q] = NoBucket \/ (buckets'[q].level \in 0..Full /\ buckets'[q].filled <= clock)
    <3>1. CASE q = p
      BY <1>1, <1>4, <3>1 DEF LimiterInv, LimiterTypes, Times
    <3>2. CASE q # p
      BY <1>4, <3>2 DEF LimiterInv, LevelsHold
    <3> QED BY <3>1, <3>2
  <2> QED BY <2>1, <2>2 DEF LevelsHold
<1>6. Level(p)' = n
  BY <1>4, LevelWritten DEF LimiterInv, b
<1> QED BY <1>3, <1>4, <1>5, <1>6

\* What more a bucket let through since a tick, and up to one.
LEMMA PassesMore ==
    ASSUME LimiterInv, NEW p \in Processes, admitted' = [admitted EXCEPT ![p][clock] = @ + 1]
    PROVE  /\ admitted' \in [Processes -> Counts]
           /\ \A q \in Processes \ {p} : admitted'[q] = admitted[q]
           /\ \A x \in (0 - WindowTicks)..(MaxTime + 1) :
                 LetThrough(p, x)' = LetThrough(p, x) + One(x <= clock)
           /\ \A x, y \in Times : x <= y =>
                 Total(admitted'[p], x, y) = Total(admitted[p], x, y) + One(x <= clock /\ clock <= y)
<1> DEFINE counts == admitted[p]
           more == [counts EXCEPT ![clock] = @ + 1]
<1>1. clock \in Times /\ counts \in Counts
  BY DEF LimiterInv, LimiterTypes
<1>2. more \in Counts
  BY <1>1 DEF Counts
<1>3. admitted' = [admitted EXCEPT ![p] = more]
  OBVIOUS
<1> HIDE DEF more
<1>4. admitted' \in [Processes -> Counts] /\ admitted'[p] = more /\ \A q \in Processes \ {p} : admitted'[q] = admitted[q]
  BY <1>2, <1>3 DEF LimiterInv, LimiterTypes
<1> HIDE DEF counts
<1>5. ASSUME NEW x \in Int, x <= MaxTime + 1, NEW y \in Times, x <= y + 1
      PROVE  Total(more, x, y) = Total(counts, x, y) + One(x <= clock /\ clock <= y)
  BY <1>1, <1>5, TotalBump DEF more
<1>6. ASSUME NEW x \in (0 - WindowTicks)..(MaxTime + 1)
      PROVE  LetThrough(p, x)' = LetThrough(p, x) + One(x <= clock)
  <2>1. MaxTime \in Times /\ x \in Int /\ x <= MaxTime + 1 /\ clock <= MaxTime
    BY <1>1, LimiterAssumption DEF Times
  <2>2. Total(more, x, MaxTime) = Total(counts, x, MaxTime) + One(x <= clock /\ clock <= MaxTime)
    BY <1>5, <2>1
  <2>3. LetThrough(p, x)' = Total(more, x, MaxTime)
    <3>1. LetThrough(p, x)' = Total(admitted'[p], x, MaxTime)
      BY DEF LetThrough, Total, Sums, Floor
    <3> QED BY <1>4, <3>1
  <2>4. (x <= clock /\ clock <= MaxTime) = (x <= clock)
    BY <2>1
  <2> QED BY <2>2, <2>3, <2>4 DEF LetThrough, counts
<1>7. ASSUME NEW x \in Times, NEW y \in Times, x <= y
      PROVE  Total(admitted'[p], x, y) = Total(admitted[p], x, y) + One(x <= clock /\ clock <= y)
  <2>1. x \in Int /\ x <= MaxTime + 1 /\ x <= y + 1
    BY <1>7, LimiterAssumption DEF Times
  <2> QED BY <1>4, <1>5, <2>1 DEF counts
<1> QED BY <1>4, <1>6, <1>7

LEMMA LetThroughIsInt ==
    ASSUME LimiterInv, NEW p \in Processes, NEW x \in (0 - WindowTicks)..(MaxTime + 1)
    PROVE  LetThrough(p, x) \in Int /\ LetThrough(p, x) >= 0
<1>1. MaxTime \in Times /\ x \in Int /\ x <= MaxTime + 1 /\ admitted[p] \in Counts
  BY LimiterAssumption DEF Times, LimiterInv, LimiterTypes
<1> QED BY <1>1, TotalIsInt DEF LetThrough

\* A bucket that pays a token for a request it lets through.
LEMMA BucketPays ==
    ASSUME LimiterInv, NEW p \in Processes, clock' = clock, Level(p) >= WindowTicks,
           buckets' = [buckets EXCEPT ![p] = [level |-> Level(p) - WindowTicks, filled |-> clock]],
           admitted' = [admitted EXCEPT ![p][clock] = @ + 1]
    PROVE  LevelsHold' /\ \A q \in Processes : BucketHolds(q)'
<1> DEFINE level == Level(p)
<1>1. level \in 0..Full /\ level \in Int /\ level - WindowTicks \in 0..Full
  BY LevelIs, FullIs, LimiterAssumption DEF LimiterInv
<1> HIDE DEF level
<1>2. LevelsHold' /\ Level(p)' = level - WindowTicks /\ \A q \in Processes \ {p} : buckets'[q] = buckets[q]
  BY <1>1, BucketWritten DEF level
<1>3. /\ admitted' \in [Processes -> Counts]
      /\ \A q \in Processes \ {p} : admitted'[q] = admitted[q]
      /\ \A x \in (0 - WindowTicks)..(MaxTime + 1) : LetThrough(p, x)' = LetThrough(p, x) + One(x <= clock)
      /\ \A x, y \in Times : x <= y =>
             Total(admitted'[p], x, y) = Total(admitted[p], x, y) + One(x <= clock /\ clock <= y)
  BY PassesMore
<1>4. ASSUME NEW q \in Processes \ {p} PROVE BucketHolds(q)'
  BY <1>2, <1>3, BucketStays DEF LimiterInv
<1>5. clock \in Nat /\ clock <= MaxTime /\ MaxTime \in Nat /\ WindowTicks \in Nat /\ WindowTicks > 0 /\ RequestLimit \in Nat
  BY LimiterAssumption DEF LimiterInv, LimiterTypes, Times
<1>6. /\ LetThrough(p, clock + 1) = 0
      /\ \A x \in (0 - WindowTicks)..clock :
            level >= Least(Full, (clock - x) * RequestLimit) - WindowTicks * LetThrough(p, x + 1)
      /\ \A x \in 0..clock : WindowTicks * LetThrough(p, x) + level <= Full + (clock - x) * RequestLimit
      /\ \A x, y \in Times : x <= y => WindowTicks * Total(admitted[p], x, y) <= Full + (y - x) * RequestLimit
  BY DEF LimiterInv, BucketHolds, NothingYet, HasAtLeast, HasAtMost, WindowsHold, level
<1>7. NothingYet(p)'
  <2>1. clock + 1 \in (0 - WindowTicks)..(MaxTime + 1) /\ ~(clock + 1 <= clock)
    BY <1>5
  <2>2. LetThrough(p, clock + 1)' = LetThrough(p, clock + 1) + 0
    <3>1. (LetThrough(p, clock + 1))' = Total(admitted'[p], clock + 1, MaxTime)
      BY DEF LetThrough, Total, Sums, Floor
    <3>2. \A x \in (0 - WindowTicks)..(MaxTime + 1) : Total(admitted'[p], x, MaxTime) = LetThrough(p, x) + One(x <= clock)
      BY <1>3 DEF LetThrough, Total, Sums, Floor
    <3> QED BY <2>1, <3>1, <3>2 DEF One
  <2> QED BY <1>6, <2>2 DEF NothingYet
<1>8. HasAtLeast(p)'
  <2>1. SUFFICES ASSUME NEW x \in (0 - WindowTicks)..clock
                 PROVE  level - WindowTicks >= Least(Full, (clock - x) * RequestLimit) - WindowTicks * LetThrough(p, x + 1)'
    BY <1>2 DEF HasAtLeast, Full, Least
  <2>2. x \in Int /\ x + 1 \in (0 - WindowTicks)..(MaxTime + 1) /\ (clock - x) * RequestLimit \in Int
    BY <1>5
  <2>3. LetThrough(p, x + 1) \in Int /\ LetThrough(p, x + 1)' = LetThrough(p, x + 1) + One(x + 1 <= clock)
    BY <1>3, <2>2, LetThroughIsInt
  <2>4. level >= Least(Full, (clock - x) * RequestLimit) - WindowTicks * LetThrough(p, x + 1)
    BY <1>6
  <2> DEFINE a == LetThrough(p, x + 1)
             top == Least(Full, (clock - x) * RequestLimit)
  <2>5. top \in Int /\ WindowTicks * a \in Int /\ WindowTicks * (a + 1) = WindowTicks * a + WindowTicks
    BY <1>5, <2>2, <2>3, FullIs DEF Least
  <2>6. CASE x < clock
    <3>1. LetThrough(p, x + 1)' = a + 1
      BY <1>5, <2>2, <2>3, <2>6 DEF One
    <3> HIDE DEF a, top
    <3>2. level - WindowTicks >= top - WindowTicks * (a + 1)
      BY <1>1, <1>5, <2>4, <2>5 DEF a, top
    <3> QED BY <3>1, <3>2 DEF top
  <2>7. CASE x = clock
    <3>1. LetThrough(p, x + 1)' = a /\ a = 0
      BY <1>5, <1>6, <2>3, <2>7 DEF One
    <3>2. top <= 0
      <4>1. (clock - x) * RequestLimit = 0
        BY <1>5, <2>7
      <4> QED BY <4>1, FullIs DEF Least
    <3>3. level - WindowTicks >= 0 /\ WindowTicks * 0 = 0
      BY <1>1, <1>5
    <3> HIDE DEF top
    <3>4. level - WindowTicks >= top - WindowTicks * a
      BY <2>5, <3>1, <3>2, <3>3, <1>1, <1>5
    <3> QED BY <3>1, <3>4 DEF top
  <2> QED BY <1>5, <2>2, <2>6, <2>7
<1>9. ASSUME NEW x \in 0..clock
      PROVE  WindowTicks * LetThrough(p, x)' + (level - WindowTicks) <= Full + (clock - x) * RequestLimit
  <2>1. x \in Int /\ x <= clock /\ x \in (0 - WindowTicks)..(MaxTime + 1) /\ (clock - x) * RequestLimit \in Int
    BY <1>5
  <2>2. LetThrough(p, x) \in Int /\ LetThrough(p, x)' = LetThrough(p, x) + 1
    BY <1>3, <2>1, LetThroughIsInt DEF One
  <2>3. WindowTicks * LetThrough(p, x) + level <= Full + (clock - x) * RequestLimit
    BY <1>6
  <2>4. WindowTicks * (LetThrough(p, x) + 1) = WindowTicks * LetThrough(p, x) + WindowTicks /\ WindowTicks * LetThrough(p, x) \in Int
    <3>1. \A n \in Int : WindowTicks * (n + 1) = WindowTicks * n + WindowTicks /\ WindowTicks * n \in Int
      BY <1>5
    <3> QED BY <2>2, <3>1
  <2> DEFINE a == WindowTicks * LetThrough(p, x)
             u == (clock - x) * RequestLimit
  <2>5. WindowTicks * LetThrough(p, x)' = a + WindowTicks
    BY <2>2, <2>4
  <2>6. a \in Int /\ u \in Int /\ a + level <= Full + u
    BY <2>1, <2>3, <2>4
  <2> HIDE DEF a, u
  <2>7. (a + WindowTicks) + (level - WindowTicks) <= Full + u
    BY <1>1, <1>5, <2>6, FullIs
  <2> QED BY <2>5, <2>7 DEF u
<1>10. HasAtMost(p)'
  BY <1>2, <1>9 DEF HasAtMost, Full
<1>11. WindowsHold(p)'
  <2>1. SUFFICES ASSUME NEW x \in Times, NEW y \in Times, x <= y
                 PROVE  WindowTicks * Total(admitted'[p], x, y) <= Full + (y - x) * RequestLimit
    BY DEF WindowsHold, Total, Sums, Floor, Full
  <2>2. Total(admitted'[p], x, y) = Total(admitted[p], x, y) + One(x <= clock /\ clock <= y)
    BY <1>3, <2>1
  <2>3. WindowTicks * Total(admitted[p], x, y) <= Full + (y - x) * RequestLimit
    BY <1>6, <2>1
  <2>4. /\ x \in Nat /\ y \in Nat /\ x <= MaxTime + 1 /\ MaxTime \in Times /\ x <= y + 1
        /\ admitted[p] \in Counts /\ admitted'[p] \in Counts
    BY <1>3, <1>5, <2>1 DEF Times, LimiterInv, LimiterTypes
  <2>5. Total(admitted[p], x, y) \in Int /\ Total(admitted'[p], x, y) \in Int
    BY <2>4, TotalIsInt
  <2>6. CASE ~(x <= clock /\ clock <= y)
    BY <2>2, <2>3, <2>5, <2>6 DEF One
  <2>7. CASE x <= clock /\ clock <= y
    <3>1. x \in 0..clock
      BY <1>5, <2>4, <2>7
    <3>2. LetThrough(p, x)' = Total(admitted'[p], x, MaxTime)
      BY DEF LetThrough, Total, Sums, Floor
    <3>3. Total(admitted'[p], x, y) <= Total(admitted'[p], x, MaxTime)
      <4> DEFINE s == Sums(admitted'[p])
      <4>1. y + 1 \in Ticks /\ MaxTime + 1 \in Ticks /\ Floor(x) \in Ticks /\ y + 1 <= MaxTime + 1
        BY <1>5, <2>4 DEF Ticks, Times, Floor
      <4>2. s[y + 1] <= s[MaxTime + 1]
        BY <2>4, <4>1, SumsIncrease
      <4>3. s \in [Ticks -> Int]
        BY <2>4, SumsAre
      <4> HIDE DEF s
      <4>4. s[y + 1] - s[Floor(x)] <= s[MaxTime + 1] - s[Floor(x)]
        BY <4>1, <4>2, <4>3
      <4> QED BY <4>4 DEF Total, s
    <3>4. Total(admitted'[p], x, MaxTime) \in Int
      BY <2>4, TotalIsInt
    <3> DEFINE a == Total(admitted'[p], x, y)
               b == Total(admitted'[p], x, MaxTime)
               u == (clock - x) * RequestLimit
               v == (y - x) * RequestLimit
    <3>5. WindowTicks * b + (level - WindowTicks) <= Full + u
      BY <1>9, <3>1, <3>2
    <3>6. u <= v /\ u \in Int /\ v \in Int
      <4>1. clock - x \in Nat /\ y - x \in Nat /\ clock - x <= y - x
        BY <1>5, <2>4, <2>7
      <4> QED BY <1>5, <4>1
    <3>7. WindowTicks * a <= WindowTicks * b /\ WindowTicks * a \in Int /\ WindowTicks * b \in Int
      BY <1>5, <2>5, <3>3, <3>4
    <3>8. level - WindowTicks >= 0 /\ level - WindowTicks \in Int
      BY <1>1
    <3> HIDE DEF a, b, u, v
    <3>9. WindowTicks * a <= Full + v
      BY <3>5, <3>6, <3>7, <3>8, FullIs
    <3> QED BY <3>9 DEF a, v
  <2> QED BY <2>6, <2>7
<1>12. BucketHolds(p)'
  BY <1>7, <1>8, <1>10, <1>11 DEF BucketHolds
<1> QED BY <1>2, <1>4, <1>12
\* What every bucket let through was asked: a call that is answered, and let
\* through or not.
LEMMA PassesKept ==
    ASSUME LimiterInv, NEW p \in Processes, asking[p].step = "sent", Answered(p),
           clock' = clock, asked' = asked, admitted' \in [Processes -> Counts],
           \A q \in Processes \ {p} : admitted'[q] = admitted[q],
           \A x \in (0 - WindowTicks)..(MaxTime + 1) :
               LetThrough(p, x)' <= LetThrough(p, x) + One(x <= clock)
    PROVE  PassesWereAsked'
<1> SUFFICES ASSUME NEW q \in Processes, NEW x \in Froms
             PROVE  LetThrough(q, x + 1)' + WaitsSince(q, x)' <= Total(asked, x, MaxTime)
  BY DEF PassesWereAsked, Froms, Total, Sums, Floor
<1>1. LetThrough(q, x + 1) + WaitsSince(q, x) <= Total(asked, x, MaxTime)
  BY DEF LimiterInv, PassesWereAsked
<1>2. \A r \in Processes : asking'[r] = IF r = p THEN NotChecking ELSE asking[r]
  BY DEF Answered, LimiterInv, LimiterTypes
<1>3. CASE q # p
  <2>1. LetThrough(q, x + 1)' = LetThrough(q, x + 1)
    BY <1>3 DEF LetThrough, Total, Sums, Floor
  <2>2. WaitsSince(q, x)' = WaitsSince(q, x)
    BY <1>2, <1>3 DEF WaitsSince, One
  <2> QED BY <1>1, <2>1, <2>2
<1>4. CASE q = p
  <2>1. x \in Int /\ x + 1 \in (0 - WindowTicks)..(MaxTime + 1)
    BY LimiterAssumption DEF Froms
  <2>2. WaitsSince(p, x)' = 0
    BY <1>2 DEF WaitsSince, One, NotChecking
  <2>3. LetThrough(p, x + 1)' <= LetThrough(p, x + 1) + One(x + 1 <= clock)
    BY <2>1
  <2>4. One(x + 1 <= clock) <= WaitsSince(p, x)
    <3>1. asking[p].stamp \in Int /\ clock <= asking[p].stamp + 1 /\ clock \in Int
      BY DEF LimiterInv, CallsAreRecent, LimiterTypes, Times
    <3> QED BY <2>1, <3>1 DEF One, WaitsSince
  <2>5. /\ WaitsSince(p, x) \in Int /\ One(x + 1 <= clock) \in Int /\ LetThrough(p, x + 1) \in Int
    BY <2>1, LetThroughIsInt DEF WaitsSince, One
  <2>6. LetThrough(p, x + 1)' \in Int /\ Total(asked, x, MaxTime) \in Int
    <3>1. /\ x + 1 \in Int /\ x + 1 <= MaxTime + 1 /\ x \in Int /\ x <= MaxTime + 1 /\ MaxTime \in Times
          /\ asked \in Counts /\ admitted'[p] \in Counts
      BY <2>1, LimiterAssumption DEF Froms, Times, LimiterInv, LimiterTypes
    <3>2. LetThrough(p, x + 1)' = Total(admitted'[p], x + 1, MaxTime)
      BY DEF LetThrough, Total, Sums, Floor
    <3>3. Total(admitted'[p], x + 1, MaxTime) \in Int /\ Total(asked, x, MaxTime) \in Int
      BY <3>1, TotalIsInt
    <3> QED BY <3>2, <3>3
  <2>7. LetThrough(p, x + 1)' <= Total(asked, x, MaxTime)
    BY <1>1, <1>4, <2>3, <2>4, <2>5, <2>6
  <2> QED BY <1>4, <2>2, <2>6, <2>7
<1> QED BY <1>3, <1>4

\* The fallback, whichever way it decides.
LEMMA FallBackKeeps ==
    ASSUME LimiterInv, NEW p \in Processes, asking[p].step = "sent", Answered(p), FallBack(p),
           clock' = clock, asked' = asked
    PROVE  /\ unearned' = {} /\ admitted' \in [Processes -> Counts]
           /\ buckets' \in [Processes -> [level : Int, filled : Times]]
           /\ LevelsHold' /\ PassesWereAsked' /\ \A q \in Processes : BucketHolds(q)'
<1> DEFINE level == Level(p)
<1>1. level \in 0..Full /\ level \in Int /\ WindowTicks \in Int /\ WindowTicks > 0
  BY LevelIs, FullIs, LimiterAssumption DEF LimiterInv
<1>2. unearned = {} /\ admitted \in [Processes -> Counts]
  BY DEF LimiterInv, LimiterTypes
<1>3. CASE /\ level >= WindowTicks
           /\ buckets' = [buckets EXCEPT ![p] = [level |-> level - WindowTicks, filled |-> clock]]
           /\ admitted' = [admitted EXCEPT ![p][clock] = @ + 1]
           /\ UNCHANGED unearned
  <2>1. LevelsHold' /\ \A q \in Processes : BucketHolds(q)'
    BY <1>3, BucketPays
  <2>2. level - WindowTicks \in 0..Full
    BY <1>1, <1>3, FullIs
  <2>3. buckets' \in [Processes -> [level : Int, filled : Times]]
    BY <1>3, <2>2, BucketWritten
  <2>4. /\ admitted' \in [Processes -> Counts]
        /\ \A q \in Processes \ {p} : admitted'[q] = admitted[q]
        /\ \A x \in (0 - WindowTicks)..(MaxTime + 1) : LetThrough(p, x)' = LetThrough(p, x) + One(x <= clock)
    BY <1>3, PassesMore
  <2>5. \A x \in (0 - WindowTicks)..(MaxTime + 1) : LetThrough(p, x)' <= LetThrough(p, x) + One(x <= clock)
    <3>1. \A x \in (0 - WindowTicks)..(MaxTime + 1) : LetThrough(p, x) + One(x <= clock) \in Int
      BY LetThroughIsInt DEF One
    <3> QED BY <2>4, <3>1
  <2>6. PassesWereAsked'
    BY <2>4, <2>5, PassesKept
  <2> QED BY <1>2, <1>3, <2>1, <2>3, <2>4, <2>6
<1>4. CASE /\ level < WindowTicks
           /\ buckets' = [buckets EXCEPT ![p] = [level |-> level, filled |-> clock]]
           /\ unearned' = unearned \cup (IF Earned(p) THEN {} ELSE {"fallback"})
           /\ UNCHANGED admitted
  <2>1. Earned(p)
    BY <1>4, BucketRefusalIsEarned
  <2>2. /\ buckets' \in [Processes -> [level : Int, filled : Times]] /\ LevelsHold' /\ Level(p)' = level
        /\ \A q \in Processes \ {p} : buckets'[q] = buckets[q]
    BY <1>1, <1>4, BucketWritten
  <2>3. \A q \in Processes : Level(q)' = Level(q)
    BY <2>2 DEF Level, Refilled, Full, NoBucket
  <2>4. \A q \in Processes : BucketHolds(q)'
    <3>1. TAKE q \in Processes
    <3>2. BucketHolds(q) /\ Level(q)' = Level(q) /\ admitted'[q] = admitted[q] /\ clock' = clock
      BY <1>4, <2>3 DEF LimiterInv
    <3> QED
      BY <3>2 DEF BucketHolds, NothingYet, HasAtLeast, HasAtMost, WindowsHold, LetThrough, Total
  <2>5. \A x \in (0 - WindowTicks)..(MaxTime + 1) : LetThrough(p, x)' <= LetThrough(p, x) + One(x <= clock)
    <3>1. \A x \in (0 - WindowTicks)..(MaxTime + 1) : LetThrough(p, x) \in Int /\ LetThrough(p, x)' = LetThrough(p, x)
      BY <1>4, LetThroughIsInt DEF LetThrough, Total, Sums, Floor
    <3> QED BY <3>1 DEF One
  <2>6. PassesWereAsked'
    BY <1>2, <1>4, <2>5, PassesKept
  <2> QED BY <1>2, <1>4, <2>1, <2>2, <2>4, <2>6
<1> QED BY <1>3, <1>4 DEF FallBack

-----------------------------------------------------------------------------
\* The steps.
LEMMA NoAnswerKeeps ==
    ASSUME LimiterInv, NEW p \in Processes, NoAnswer(p)
    PROVE  LimiterInv'
<1>1. /\ asking[p].step = "sent" /\ FallBack(p) /\ Answered(p)
      /\ clock' = clock /\ slots' = slots /\ asked' = asked
  BY DEF NoAnswer
<1>2. /\ unearned' = {} /\ admitted' \in [Processes -> Counts]
      /\ buckets' \in [Processes -> [level : Int, filled : Times]]
      /\ LevelsHold' /\ PassesWereAsked' /\ \A q \in Processes : BucketHolds(q)'
  BY <1>1, FallBackKeeps
<1>3. asking' \in [Processes -> [step : {"idle", "sent"}, stamp : Times]] /\ CallsAreRecent'
  BY <1>1, CallsStayRecent
<1>4. slots \in Counts /\ asked \in Counts /\ clock \in Times
  BY DEF LimiterInv, LimiterTypes
<1>5. SlotsWereAsked'
  <2>1. \A t \in Times : slots'[t] <= slots[t] + One(t = asking[p].stamp)
    BY <1>1, <1>4 DEF Counts, One
  <2> QED BY <1>1, <1>4, <2>1, SlotsKept
<1> QED BY <1>1, <1>2, <1>3, <1>4, <1>5 DEF LimiterInv, LimiterTypes, Counts, Times

LEMMA EvaluateKeeps ==
    ASSUME LimiterInv, NEW p \in Processes, Evaluate(p)
    PROVE  LimiterInv'
<1> DEFINE s == asking[p].stamp
           left == Pruned(s)
<1>1. /\ asking[p].step = "sent" /\ Answered(p) /\ clock' = clock /\ asked' = asked
      /\ slots' = Entered(left, s)
      /\ \/ /\ unearned' = unearned \cup
                   (IF Total(left, 0, MaxTime) < RequestLimit \/ Earned(p) THEN {} ELSE {Shared})
            /\ UNCHANGED <<buckets, admitted>>
         \/ FallBack(p)
  BY DEF Evaluate
<1>2. asking' \in [Processes -> [step : {"idle", "sent"}, stamp : Times]] /\ CallsAreRecent'
  BY <1>1, CallsStayRecent
<1>3. /\ slots \in Counts /\ asked \in Counts /\ clock \in Times /\ unearned = {}
      /\ admitted \in [Processes -> Counts] /\ buckets \in [Processes -> [level : Int, filled : Times]]
  BY DEF LimiterInv, LimiterTypes
<1>4. SlotsWereAsked' /\ slots' \in Counts
  <2>1. s \in Times /\ left \in Counts /\ \A t \in Times : left[t] <= slots[t]
    BY <1>1, WindowIs
  <2> HIDE DEF s, left
  <2>2. slots' = left \/ slots' = [left EXCEPT ![s] = @ + 1]
    BY <1>1 DEF Entered
  <2>3. slots' \in Counts /\ \A t \in Times : slots'[t] <= slots[t] + One(t = s)
    BY <1>3, <2>1, <2>2 DEF Counts, One
  <2> QED BY <1>1, <2>3, SlotsKept DEF s
<1>5. /\ unearned' = {} /\ admitted' \in [Processes -> Counts]
      /\ buckets' \in [Processes -> [level : Int, filled : Times]]
      /\ LevelsHold' /\ PassesWereAsked' /\ \A q \in Processes : BucketHolds(q)'
  <2>1. CASE FallBack(p)
    BY <1>1, <2>1, FallBackKeeps
  <2>2. CASE /\ unearned' = unearned \cup
                   (IF Total(left, 0, MaxTime) < RequestLimit \/ Earned(p) THEN {} ELSE {Shared})
             /\ buckets' = buckets /\ admitted' = admitted
    <3>1. Total(left, 0, MaxTime) < RequestLimit \/ Earned(p)
      BY <1>1, SharedRefusalIsEarned
    <3>2. LevelsHold' /\ \A q \in Processes : BucketHolds(q)'
      BY <1>1, <2>2, BucketsStay
    <3>3. \A x \in (0 - WindowTicks)..(MaxTime + 1) : LetThrough(p, x)' <= LetThrough(p, x) + One(x <= clock)
      <4>1. \A x \in (0 - WindowTicks)..(MaxTime + 1) : LetThrough(p, x) \in Int /\ LetThrough(p, x)' = LetThrough(p, x)
        BY <2>2, LetThroughIsInt DEF LetThrough, Total, Sums, Floor
      <4> QED BY <4>1 DEF One
    <3>4. PassesWereAsked'
      BY <1>1, <1>3, <2>2, <3>3, PassesKept
    <3> QED BY <1>3, <2>2, <3>1, <3>2, <3>4
  <2> QED BY <1>1, <2>1, <2>2
<1> QED BY <1>1, <1>2, <1>3, <1>4, <1>5 DEF LimiterInv, LimiterTypes, Counts, Times

LEMMA CheckKeeps ==
    ASSUME LimiterInv, NEW p \in Processes, Check(p)
    PROVE  LimiterInv'
<1>1. /\ asking[p].step = "idle" /\ asking' = [asking EXCEPT ![p] = [step |-> "sent", stamp |-> clock]]
      /\ asked' = [asked EXCEPT ![clock] = @ + 1]
      /\ clock' = clock /\ slots' = slots /\ buckets' = buckets /\ admitted' = admitted /\ unearned' = unearned
  BY DEF Check
<1>2. /\ slots \in Counts /\ asked \in Counts /\ clock \in Times /\ unearned = {}
      /\ asking \in [Processes -> [step : {"idle", "sent"}, stamp : Times]]
      /\ admitted \in [Processes -> Counts]
  BY DEF LimiterInv, LimiterTypes
<1> DEFINE call == [step |-> "sent", stamp |-> clock]
<1>3. call \in [step : {"idle", "sent"}, stamp : Times] /\ call.step = "sent" /\ call.stamp = clock
  BY <1>2
<1> HIDE DEF call
<1>4. /\ asking' \in [Processes -> [step : {"idle", "sent"}, stamp : Times]]
      /\ \A q \in Processes : asking'[q] = IF q = p THEN call ELSE asking[q]
  BY <1>1, <1>2, <1>3 DEF call
<1>5. asked' \in Counts /\ \A t \in Times : asked'[t] = asked[t] + One(t = clock)
  BY <1>1, <1>2 DEF Counts, One
<1>6. LevelsHold' /\ \A q \in Processes : BucketHolds(q)'
  BY <1>1, BucketsStay
<1>7. CallsAreRecent'
  <2>1. clock \in Int /\ clock <= clock /\ clock <= clock + 1
    BY <1>2 DEF Times
  <2> QED BY <1>1, <1>3, <1>4, <2>1 DEF CallsAreRecent, LimiterInv
<1>8. ASSUME NEW t \in Times PROVE slots[t] + Cardinality(WaitingAt(t))' <= asked'[t]
  <2> DEFINE W == WaitingAt(t)
  <2>1. IsFiniteSet(W) /\ Cardinality(W) \in Nat /\ slots[t] + Cardinality(W) <= asked[t]
    BY WaitersAre DEF LimiterInv, SlotsWereAsked
  <2>2. p \notin W /\ slots[t] \in Nat /\ asked[t] \in Nat
    BY <1>1, <1>2 DEF WaitingAt, Counts
  <2>3. WaitingAt(t)' = IF t = clock THEN W \cup {p} ELSE W
    BY <1>1, <1>3, <1>4 DEF WaitingAt
  <2> HIDE DEF W
  <2>4. Cardinality(W \cup {p}) = Cardinality(W) + 1
    BY <2>1, <2>2, FS_AddElement
  <2>5. Cardinality(WaitingAt(t))' = Cardinality(W) + One(t = clock)
    BY <2>1, <2>3, <2>4 DEF One
  <2> QED BY <1>5, <2>1, <2>2, <2>5 DEF One
<1>9. SlotsWereAsked'
  BY <1>1, <1>8 DEF SlotsWereAsked, Times
<1>10. ASSUME NEW q \in Processes, NEW x \in Froms
       PROVE  LetThrough(q, x + 1) + WaitsSince(q, x)' <= Total(asked', x, MaxTime)
  <2>1. LetThrough(q, x + 1) + WaitsSince(q, x) <= Total(asked, x, MaxTime)
    BY DEF LimiterInv, PassesWereAsked
  <2>2. /\ x \in Int /\ x <= MaxTime + 1 /\ MaxTime \in Times /\ clock <= MaxTime
        /\ x + 1 \in (0 - WindowTicks)..(MaxTime + 1)
    BY <1>2, LimiterAssumption DEF Froms, Times
  <2>3. Total(asked', x, MaxTime) = Total(asked, x, MaxTime) + One(x <= clock /\ clock <= MaxTime)
    <3> DEFINE more == [asked EXCEPT ![clock] = @ + 1]
    <3> HIDE DEF more
    <3>1. Total(more, x, MaxTime) = Total(asked, x, MaxTime) + One(x <= clock /\ clock <= MaxTime)
      BY <1>2, <2>2, TotalBump DEF more
    <3>2. asked' = more
      BY <1>1 DEF more
    <3> QED BY <3>1, <3>2
  <2>4. WaitsSince(q, x)' <= WaitsSince(q, x) + One(x <= clock)
    <3>1. CASE q = p
      <4>1. WaitsSince(p, x)' = One(x <= clock) /\ WaitsSince(p, x) = 0
        BY <1>1, <1>3, <1>4, <1>2, <2>2 DEF WaitsSince, One, Times
      <4> QED BY <3>1, <4>1 DEF One
    <3>2. CASE q # p
      BY <1>4, <3>2 DEF WaitsSince, One
    <3> QED BY <3>1, <3>2
  <2>5. WaitsSince(q, x)' \in Int /\ WaitsSince(q, x) \in Int /\ One(x <= clock) \in Int
    BY DEF WaitsSince, One
  <2>6. LetThrough(q, x + 1) \in Int /\ Total(asked, x, MaxTime) \in Int
    BY <1>2, <2>2, LetThroughIsInt, TotalIsInt
  <2>7. One(x <= clock /\ clock <= MaxTime) = One(x <= clock)
    BY <2>2 DEF One
  <2> QED BY <2>1, <2>3, <2>4, <2>5, <2>6, <2>7
<1>11. PassesWereAsked'
  <2>1. \A q \in Processes : \A x \in Froms : (LetThrough(q, x + 1))' = LetThrough(q, x + 1)
    BY <1>1 DEF LetThrough, Total, Sums, Floor
  <2> QED BY <1>10, <2>1 DEF PassesWereAsked, Froms, Total, Sums, Floor
<1> QED BY <1>1, <1>2, <1>4, <1>5, <1>6, <1>7, <1>9, <1>11 DEF LimiterInv, LimiterTypes, Counts, Times
\* Redis comes and goes, with or without its data.
LEMMA OutageKeeps ==
    ASSUME LimiterInv, Outage \/ Forget
    PROVE  LimiterInv'
<1>1. /\ clock' = clock /\ buckets' = buckets /\ asking' = asking /\ asked' = asked
      /\ admitted' = admitted /\ unearned' = unearned /\ (slots' = slots \/ slots' = Empty)
  BY DEF Outage, Forget
<1>2. slots' \in Counts /\ \A t \in Times : slots'[t] <= slots[t]
  BY <1>1 DEF LimiterInv, LimiterTypes, Counts, Empty
<1>3. LimiterTypes' /\ CallsAreRecent'
  BY <1>1, <1>2 DEF LimiterInv, LimiterTypes, CallsAreRecent, Counts, Times
<1>4. LevelsHold' /\ \A q \in Processes : BucketHolds(q)'
  BY <1>1, BucketsStay
<1>5. SlotsWereAsked'
  <2>1. SUFFICES ASSUME NEW t \in Times PROVE slots'[t] + Cardinality(WaitingAt(t)) <= asked[t]
    BY <1>1 DEF SlotsWereAsked, WaitingAt, Times
  <2>2. slots[t] + Cardinality(WaitingAt(t)) <= asked[t] /\ Cardinality(WaitingAt(t)) \in Nat
    BY WaitersAre DEF LimiterInv, SlotsWereAsked
  <2>3. slots[t] \in Nat /\ slots'[t] \in Nat /\ asked[t] \in Nat
    BY <1>2 DEF LimiterInv, LimiterTypes, Counts
  <2> QED BY <1>2, <2>2, <2>3
<1>6. PassesWereAsked'
  BY <1>1 DEF LimiterInv, PassesWereAsked, LetThrough, WaitsSince, Total
<1> QED BY <1>3, <1>4, <1>5, <1>6 DEF LimiterInv

\* A tick passes: every bucket gains the requests of a tick, up to its capacity.
LEMMA LevelRises ==
    ASSUME LimiterInv, NEW p \in Processes, clock' = clock + 1, buckets' = buckets
    PROVE  Level(p)' = Least(Full, Level(p) + RequestLimit)
<1>1. clock \in Int /\ Full \in Nat /\ RequestLimit \in Nat /\ Full' = Full /\ NoBucket' = NoBucket
  BY FullIs, LimiterAssumption DEF LimiterInv, LimiterTypes, Times, Full, NoBucket
<1>2. CASE buckets[p] = NoBucket
  <2>1. Level(p)' = Full /\ Level(p) = Full
    BY <1>1, <1>2 DEF Level
  <2> QED BY <1>1, <2>1, LimiterAssumption DEF Least
<1>3. CASE buckets[p] # NoBucket
  <2> DEFINE n == buckets[p].level
             f == buckets[p].filled
             up == (clock - f) * RequestLimit
  <2>1. n \in Int /\ f \in Int
    BY DEF LimiterInv, LimiterTypes, Times
  <2>2. ((clock + 1) - f) * RequestLimit = up + RequestLimit /\ up \in Int
    <3>1. \A c, d \in Int : ((c + 1) - d) * RequestLimit = (c - d) * RequestLimit + RequestLimit
                            /\ (c - d) * RequestLimit \in Int
      BY <1>1
    <3> HIDE DEF f
    <3> QED BY <1>1, <2>1, <3>1
  <2>3. Level(p) = IF n + up > Full THEN Full ELSE n + up
    BY <1>3 DEF Level, Refilled
  <2>4. Level(p)' = IF n + ((clock + 1) - f) * RequestLimit > Full THEN Full ELSE n + ((clock + 1) - f) * RequestLimit
    BY <1>1, <1>3 DEF Level, Refilled
  <2> HIDE DEF n, f, up
  <2>5. Level(p)' = IF n + (up + RequestLimit) > Full THEN Full ELSE n + (up + RequestLimit)
    BY <2>2, <2>4
  <2> QED BY <1>1, <2>1, <2>2, <2>3, <2>5 DEF Least
<1> QED BY <1>2, <1>3

LEMMA BucketRefills ==
    ASSUME LimiterInv, NEW p \in Processes, clock' = clock + 1, clock < MaxTime,
           buckets' = buckets, admitted' = admitted
    PROVE  BucketHolds(p)'
<1>1. /\ clock \in Int /\ clock >= 0 /\ MaxTime \in Nat /\ RequestLimit \in Nat /\ RequestLimit > 0
      /\ WindowTicks \in Nat /\ WindowTicks > 0 /\ Full \in Nat
  BY FullIs, LimiterAssumption DEF LimiterInv, LimiterTypes, Times
<1> DEFINE level == Level(p)
<1>2. level \in 0..Full /\ Level(p)' = Least(Full, level + RequestLimit)
  BY LevelIs, LevelRises DEF LimiterInv
<1> HIDE DEF level
<1>3. /\ LetThrough(p, clock + 1) = 0
      /\ \A x \in (0 - WindowTicks)..clock :
            level >= Least(Full, (clock - x) * RequestLimit) - WindowTicks * LetThrough(p, x + 1)
      /\ \A x \in 0..clock : WindowTicks * LetThrough(p, x) + level <= Full + (clock - x) * RequestLimit
      /\ WindowsHold(p)
  BY DEF LimiterInv, BucketHolds, NothingYet, HasAtLeast, HasAtMost, level
<1>4. \A x \in (0 - WindowTicks)..(MaxTime + 1) : LetThrough(p, x) \in Int /\ LetThrough(p, x) >= 0
  BY LetThroughIsInt
<1>5. \A x : Total(admitted[p], x, MaxTime)' = Total(admitted'[p], x, MaxTime)
  BY DEF Total
<1>6. LetThrough(p, clock + 2) = 0
  <2> DEFINE s == Sums(admitted[p])
  <2>1. /\ s \in [Ticks -> Int] /\ admitted[p] \in Counts
    BY SumsAre DEF LimiterInv, LimiterTypes
  <2>2. clock + 1 \in Ticks /\ clock + 2 \in Ticks /\ MaxTime + 1 \in Ticks /\ clock + 1 <= clock + 2
    BY <1>1 DEF Ticks
  <2>3. s[clock + 1] <= s[clock + 2]
    BY <2>1, <2>2, SumsIncrease
  <2>4. Floor(clock + 1) = clock + 1 /\ Floor(clock + 2) = clock + 2
    BY <1>1 DEF Floor
  <2>5. LetThrough(p, clock + 1) = s[MaxTime + 1] - s[clock + 1] /\ LetThrough(p, clock + 2) = s[MaxTime + 1] - s[clock + 2]
    BY <2>4 DEF LetThrough, Total
  <2>6. LetThrough(p, clock + 2) >= 0
    BY <1>1, <1>4
  <2> HIDE DEF s
  <2> QED BY <1>3, <2>1, <2>2, <2>3, <2>5, <2>6
<1>7. NothingYet(p)'
  <2>1. (clock + 1) + 1 = clock + 2
    BY <1>1
  <2> QED BY <1>6, <2>1 DEF NothingYet, LetThrough, Total
<1>8. HasAtLeast(p)'
  <2>1. SUFFICES ASSUME NEW x \in (0 - WindowTicks)..(clock + 1)
                 PROVE  Least(Full, level + RequestLimit)
                            >= Least(Full, ((clock + 1) - x) * RequestLimit) - WindowTicks * LetThrough(p, x + 1)
    BY <1>2 DEF HasAtLeast, LetThrough, Total, Full, Least
  <2> DEFINE a == LetThrough(p, x + 1)
             u == (clock - x) * RequestLimit
  <2>2. x \in Int /\ x + 1 \in (0 - WindowTicks)..(MaxTime + 1)
    BY <1>1
  <2>3. a \in Int /\ a >= 0
    BY <1>4, <2>2
  <2>4. u \in Int /\ ((clock + 1) - x) * RequestLimit = u + RequestLimit /\ WindowTicks * a \in Int /\ WindowTicks * a >= 0
    BY <1>1, <2>2, <2>3
  <2>5. CASE x <= clock
    <3>1. level >= Least(Full, u) - WindowTicks * a
      BY <1>3, <2>2, <2>5
    <3> DEFINE w == WindowTicks * a
    <3> HIDE DEF u, a, w
    <3>2. Least(Full, level + RequestLimit) >= Least(Full, u + RequestLimit) - w
      BY <1>1, <1>2, <2>4, <3>1 DEF Least, w
    <3> QED BY <2>4, <3>2 DEF u, a, w
  <2>6. CASE x = clock + 1
    <3>1. ((clock + 1) - x) * RequestLimit = 0
      BY <1>1, <2>6
    <3> DEFINE w == WindowTicks * a
    <3> HIDE DEF u, a, w
    <3>2. Least(Full, level + RequestLimit) >= Least(Full, 0) - w
      BY <1>1, <1>2, <2>4 DEF Least, w
    <3> QED BY <3>1, <3>2 DEF a, w
  <2> QED BY <1>1, <2>2, <2>5, <2>6
<1>9. HasAtMost(p)'
  <2>1. SUFFICES ASSUME NEW x \in 0..(clock + 1)
                 PROVE  WindowTicks * LetThrough(p, x) + Least(Full, level + RequestLimit)
                            <= Full + ((clock + 1) - x) * RequestLimit
    BY <1>2 DEF HasAtMost, LetThrough, Total, Full, Least
  <2> DEFINE w == WindowTicks * LetThrough(p, x)
             u == (clock - x) * RequestLimit
  <2>2. x \in Int /\ x \in (0 - WindowTicks)..(MaxTime + 1)
    BY <1>1
  <2>3. LetThrough(p, x) \in Int
    BY <1>4, <2>2
  <2>4. u \in Int /\ ((clock + 1) - x) * RequestLimit = u + RequestLimit /\ w \in Int
    BY <1>1, <2>2, <2>3
  <2>5. CASE x <= clock
    <3>1. w + level <= Full + u
      BY <1>3, <2>2, <2>5
    <3> HIDE DEF u, w
    <3>2. w + Least(Full, level + RequestLimit) <= Full + (u + RequestLimit)
      BY <1>1, <1>2, <2>4, <3>1 DEF Least
    <3> QED BY <2>4, <3>2 DEF u, w
  <2>6. CASE x = clock + 1
    <3>1. ((clock + 1) - x) * RequestLimit = 0 /\ w = 0
      BY <1>1, <1>3, <2>6
    <3>2. Least(Full, level + RequestLimit) <= Full
      BY <1>1, <1>2 DEF Least
    <3>3. Least(Full, level + RequestLimit) \in Int
      BY <1>1, <1>2 DEF Least
    <3> QED BY <1>1, <3>1, <3>2, <3>3
  <2> QED BY <1>1, <2>2, <2>5, <2>6
<1>10. WindowsHold(p)'
  BY <1>3 DEF WindowsHold, Total
<1> QED BY <1>7, <1>8, <1>9, <1>10 DEF BucketHolds

LEMMA PassKeeps ==
    ASSUME LimiterInv, Pass
    PROVE  LimiterInv'
<1>1. /\ clock < MaxTime /\ clock' = clock + 1
      /\ \A p \in Processes : asking[p].step = "sent" => asking[p].stamp = clock
      /\ buckets' = buckets /\ asking' = asking /\ asked' = asked
      /\ admitted' = admitted /\ unearned' = unearned /\ (slots' = slots \/ slots' = Empty)
  BY DEF Pass
<1>2. slots' \in Counts /\ \A t \in Times : slots'[t] <= slots[t]
  BY <1>1 DEF LimiterInv, LimiterTypes, Counts, Empty
<1>3. clock \in Int /\ clock + 1 \in Times
  BY <1>1, LimiterAssumption DEF LimiterInv, LimiterTypes, Times
<1>4. LimiterTypes'
  BY <1>1, <1>2, <1>3 DEF LimiterInv, LimiterTypes, Counts, Times
<1>5. CallsAreRecent'
  BY <1>1, <1>3 DEF CallsAreRecent
<1>6. LevelsHold'
  <2>1. \A q \in Processes : buckets[q].filled \in Int
    BY DEF LimiterInv, LimiterTypes, Times
  <2> QED BY <1>1, <1>3, <2>1 DEF LimiterInv, LevelsHold, Full, NoBucket
<1>7. SlotsWereAsked'
  <2>1. SUFFICES ASSUME NEW t \in Times PROVE slots'[t] + Cardinality(WaitingAt(t)) <= asked[t]
    BY <1>1 DEF SlotsWereAsked, WaitingAt, Times
  <2>2. slots[t] + Cardinality(WaitingAt(t)) <= asked[t] /\ Cardinality(WaitingAt(t)) \in Nat
    BY WaitersAre DEF LimiterInv, SlotsWereAsked
  <2>3. slots[t] \in Nat /\ slots'[t] \in Nat /\ asked[t] \in Nat
    BY <1>2 DEF LimiterInv, LimiterTypes, Counts
  <2> QED BY <1>2, <2>2, <2>3
<1>8. PassesWereAsked'
  BY <1>1 DEF LimiterInv, PassesWereAsked, LetThrough, WaitsSince, Total
<1>9. \A q \in Processes : BucketHolds(q)'
  BY <1>1, BucketRefills
<1> QED BY <1>4, <1>5, <1>6, <1>7, <1>8, <1>9 DEF LimiterInv

-----------------------------------------------------------------------------
\* At the start nothing was asked and every bucket is still to be made.
LEMMA TotalOfNothing ==
    ASSUME NEW x \in Int, x <= MaxTime + 1, NEW y \in Times
    PROVE  Empty \in Counts /\ Total(Empty, x, y) = 0
<1>1. Empty \in Counts /\ \A t \in Times : Empty[t] = 0
  BY DEF Empty, Counts
<1>2. Floor(x) \in Ticks /\ y + 1 \in Ticks
  BY <1>1, TotalIsInt
<1> HIDE DEF Empty
<1>3. Sums(Empty)[y + 1] = 0 /\ Sums(Empty)[Floor(x)] = 0
  BY <1>1, <1>2, SumsOfNothing
<1> QED BY <1>1, <1>3 DEF Total

LEMMA LimiterStarts == LimiterInit => LimiterInv
<1> SUFFICES ASSUME LimiterInit PROVE LimiterInv
  OBVIOUS
<1>1. /\ clock = 0 /\ slots = Empty /\ asked = Empty /\ unearned = {}
      /\ admitted = [p \in Processes |-> Empty]
      /\ buckets = [p \in Processes |-> NoBucket] /\ asking = [p \in Processes |-> NotChecking]
  BY DEF LimiterInit
<1>2. /\ 0 \in Times /\ MaxTime \in Times /\ MaxTime \in Nat /\ WindowTicks \in Nat /\ WindowTicks > 0
      /\ RequestLimit \in Nat /\ Full \in Nat
  BY FullIs, LimiterAssumption DEF Times
<1>3. Empty \in Counts /\ \A x \in Int, y \in Times : x <= MaxTime + 1 => Total(Empty, x, y) = 0
  BY <1>2, TotalOfNothing
<1>4. LimiterTypes
  <2>1. NotChecking \in [step : {"idle", "sent"}, stamp : Times] /\ NoBucket \in [level : Int, filled : Times]
    BY <1>2 DEF NotChecking, NoBucket
  <2> QED BY <1>1, <1>2, <1>3, <2>1 DEF LimiterTypes
<1>5. \A p \in Processes : asking[p].step = "idle" /\ buckets[p] = NoBucket /\ admitted[p] = Empty /\ Level(p) = Full
  BY <1>1 DEF NotChecking, Level
<1>6. CallsAreRecent /\ LevelsHold
  BY <1>5 DEF CallsAreRecent, LevelsHold
<1>7. SlotsWereAsked
  <2>1. ASSUME NEW t \in Times PROVE slots[t] + Cardinality(WaitingAt(t)) <= asked[t]
    <3>1. WaitingAt(t) = {}
      BY <1>5 DEF WaitingAt
    <3>2. Cardinality(WaitingAt(t)) = 0
      BY <3>1, FS_EmptySet
    <3> QED BY <1>1, <3>2 DEF Empty
  <2> QED BY <2>1 DEF SlotsWereAsked
<1>8. PassesWereAsked
  <2>1. ASSUME NEW p \in Processes, NEW x \in Froms
        PROVE  LetThrough(p, x + 1) + WaitsSince(p, x) <= Total(asked, x, MaxTime)
    <3>1. x \in Int /\ x + 1 \in Int /\ x + 1 <= MaxTime + 1 /\ x <= MaxTime + 1
      BY <1>2 DEF Froms
    <3>2. LetThrough(p, x + 1) = 0 /\ Total(asked, x, MaxTime) = 0
      BY <1>1, <1>2, <1>3, <1>5, <3>1 DEF LetThrough
    <3> QED BY <1>5, <3>2 DEF WaitsSince, One
  <2> QED BY <2>1 DEF PassesWereAsked
<1>9. ASSUME NEW p \in Processes PROVE BucketHolds(p)
  <2>1. \A x \in Int : x <= MaxTime + 1 => LetThrough(p, x) = 0
    BY <1>2, <1>3, <1>5 DEF LetThrough
  <2>2. NothingYet(p)
    BY <1>1, <1>2, <2>1 DEF NothingYet
  <2>3. HasAtLeast(p)
    <3>1. SUFFICES ASSUME NEW x \in (0 - WindowTicks)..0
                   PROVE  Full >= Least(Full, (0 - x) * RequestLimit) - WindowTicks * LetThrough(p, x + 1)
      BY <1>1, <1>5 DEF HasAtLeast
    <3>2. LetThrough(p, x + 1) = 0 /\ (0 - x) * RequestLimit \in Int
      BY <1>2, <2>1
    <3> QED BY <1>2, <3>2 DEF Least
  <2>4. HasAtMost(p)
    <3>1. SUFFICES ASSUME NEW x \in 0..0
                   PROVE  WindowTicks * LetThrough(p, x) + Full <= Full + (0 - x) * RequestLimit
      BY <1>1, <1>5 DEF HasAtMost
    <3>2. LetThrough(p, x) = 0 /\ (0 - x) * RequestLimit = 0
      BY <1>2, <2>1
    <3> QED BY <1>2, <3>2
  <2>5. WindowsHold(p)
    <3>1. SUFFICES ASSUME NEW x \in Times, NEW y \in Times, x <= y
                   PROVE  WindowTicks * Total(admitted[p], x, y) <= Full + (y - x) * RequestLimit
      BY DEF WindowsHold
    <3>2. x \in Int /\ x <= MaxTime + 1 /\ y - x \in Nat
      BY <1>2, <3>1 DEF Times
    <3>3. Total(admitted[p], x, y) = 0 /\ (y - x) * RequestLimit \in Nat
      BY <1>2, <1>3, <1>5, <3>2
    <3> QED BY <1>2, <3>3
  <2> QED BY <2>2, <2>3, <2>4, <2>5 DEF BucketHolds
<1> QED BY <1>4, <1>6, <1>7, <1>8, <1>9 DEF LimiterInv

LEMMA LimiterStutters ==
    ASSUME LimiterInv, UNCHANGED limiterVars
    PROVE  LimiterInv'
<1>1. /\ clock' = clock /\ buckets' = buckets /\ asking' = asking /\ asked' = asked
      /\ admitted' = admitted /\ unearned' = unearned /\ slots' = slots
  BY DEF limiterVars
<1>2. LevelsHold' /\ \A q \in Processes : BucketHolds(q)'
  BY <1>1, BucketsStay
<1>3. SlotsWereAsked' /\ PassesWereAsked' /\ CallsAreRecent' /\ LimiterTypes'
  BY <1>1 DEF LimiterInv, PassesWereAsked, LetThrough, WaitsSince, Total, SlotsWereAsked, WaitingAt,
     CallsAreRecent, LimiterTypes, Counts, Times
<1> QED BY <1>2, <1>3 DEF LimiterInv

\* The invariant of the limiter for every number of processes, limit and window
\* (rate_limiter_redis.py check, rate_limiter.py TokenBucket).
THEOREM LimiterInvariant == LimiterSpec => []LimiterInv
<1>1. LimiterInit => LimiterInv
  BY LimiterStarts
<1>2. LimiterInv /\ [LimiterNext]_limiterVars => LimiterInv'
  <2> SUFFICES ASSUME LimiterInv, [LimiterNext]_limiterVars PROVE LimiterInv'
    OBVIOUS
  <2>1. CASE \E p \in Processes : Check(p) \/ Evaluate(p) \/ NoAnswer(p)
    BY <2>1, CheckKeeps, EvaluateKeeps, NoAnswerKeeps
  <2>2. CASE Outage \/ Forget
    BY <2>2, OutageKeeps
  <2>3. CASE Pass
    BY <2>3, PassKeeps
  <2>4. CASE UNCHANGED limiterVars
    BY <2>4, LimiterStutters
  <2> QED BY <2>1, <2>2, <2>3, <2>4 DEF LimiterNext
<1> QED BY <1>1, <1>2, PTL DEF LimiterSpec

\* A window of the limit's length holds less than twice the limit.
LEMMA WindowsAreBounded ==
    ASSUME LimiterInv
    PROVE  BucketsAreBounded
<1> SUFFICES ASSUME NEW p \in Processes, NEW t \in Times
             PROVE  Total(admitted[p], t - WindowTicks + 1, t) < 2 * RequestLimit
  BY DEF BucketsAreBounded
<1> DEFINE x == Floor(t - WindowTicks + 1)
           a == Total(admitted[p], x, t)
<1>1. /\ WindowTicks \in Nat /\ WindowTicks > 0 /\ RequestLimit \in Nat /\ RequestLimit > 0
      /\ t \in Nat /\ t <= MaxTime /\ MaxTime \in Nat
  BY LimiterAssumption DEF Times
<1>2. x \in Times /\ x \in Nat /\ x <= t /\ t - x <= WindowTicks - 1 /\ x <= MaxTime + 1 /\ Floor(x) = x
  BY <1>1 DEF Floor, Times
<1>3. Total(admitted[p], t - WindowTicks + 1, t) = a
  BY <1>2 DEF Total
<1> HIDE DEF x
<1>4. a \in Int
  BY <1>2, TotalIsInt DEF LimiterInv, LimiterTypes
<1>5. WindowTicks * a <= Full + (t - x) * RequestLimit
  BY <1>2 DEF LimiterInv, BucketHolds, WindowsHold
<1> HIDE DEF a
<1>6. (t - x) * RequestLimit <= (WindowTicks - 1) * RequestLimit
  BY <1>1, <1>2
<1>7. (WindowTicks - 1) * RequestLimit = Full - RequestLimit /\ Full \in Int /\ (t - x) * RequestLimit \in Int
  BY <1>1, <1>2 DEF Full
<1>8. WindowTicks * (2 * RequestLimit) = Full + Full
  BY <1>1 DEF Full
<1>9. SUFFICES ASSUME a >= 2 * RequestLimit PROVE FALSE
  BY <1>1, <1>3, <1>4
<1>10. WindowTicks * a >= WindowTicks * (2 * RequestLimit)
  BY <1>1, <1>4, <1>9
<1>11. WindowTicks * a \in Int
  BY <1>1, <1>4
<1> QED BY <1>1, <1>5, <1>6, <1>7, <1>8, <1>10, <1>11

\* Nobody is refused who asked less than the limit, and no bucket lets twice the
\* limit through in a window, with however many processes and outages of Redis.
THEOREM LimitsHold == LimiterSpec => []LimitsAreFair
<1>1. LimiterInv => LimitsAreFair
  BY WindowsAreBounded DEF LimiterInv, LimiterTypes, LimitsAreFair, RefusalIsEarned
<1> QED BY <1>1, LimiterInvariant, PTL

-----------------------------------------------------------------------------
(* The agent loop: the inductive invariant. *)

HistoryRows == [role : {"assistant", "tool"}, ids : Seq(Nat \X Nat)]
TrailRows == [tool : Names \cup {"invented"}, ok : BOOLEAN, known : BOOLEAN]
RanRows == [tool : Names \cup {"invented"}, ok : BOOLEAN, at : Nat]
LoopRecords ==
    [step : {"idle", "ask", "calls", "done"}, caller : Speakers, session : BOOLEAN,
     round : 0..(MaxSteps - 1), history : Seq(HistoryRows), left : Nat, trace : Seq(TrailRows),
     ran : Seq(RanRows), found : SUBSET Passages, shown : SUBSET Orders, leaked : BOOLEAN,
     ticket : BOOLEAN, cited : SUBSET Passages,
     outcome : {"none", "answered", "staged", "budget_exhausted", "steps_exhausted", "handoff", "handoff_failed"}]

\* The registry: the built-in tools, then remote ones under names of their own,
\* gated when their server changes something.
ToolSet == [name : Names, intent : {<<n>> : n \in Names} \cup {<<"mcp", n>> : n \in Names},
            gated : BOOLEAN, remote : BOOLEAN]
Entries == [name : Names, hint : {"read", "write", "unsaid"}, destructive : BOOLEAN, whole : BOOLEAN]
Imports(i) ==
    /\ tools[i].remote /\ tools[i].intent = <<"mcp", tools[i].name>>
    /\ tools[i].name \in Writers => tools[i].gated
RegistryHolds ==
    /\ tools \in Seq(ToolSet) /\ Len(tools) >= 6 /\ \A i \in 1..6 : tools[i] = BuiltIn[i]
    /\ \A i \in DOMAIN tools : i > 6 => Imports(i)
    /\ NamesAreUnique
    /\ entries \in Seq(Entries) /\ \A i \in DOMAIN entries : entries[i].name \in Writers => entries[i].hint # "read"

\* A history h: results stand behind the calls they answer.
Said(h, role) == {i \in DOMAIN h : h[i].role = role}
Whole(h, i, n) == i + Len(h[i].ids) <= n
ResultsStand(h) ==
    /\ \A i \in Said(h, "assistant") : \A j \in DOMAIN h[i].ids :
          i + j \in DOMAIN h => h[i + j] = Answering(h[i].ids[j])
    /\ \A k \in Said(h, "tool") : \E i \in Said(h, "assistant") : i < k /\ k - i \in DOMAIN h[i].ids
AllWhole(h) == \A i \in Said(h, "assistant") : Whole(h, i, Len(h))
\* The answer at a is the last, and left of its calls are to be handled.
Underway(h, a, left, round) ==
    /\ a \in Said(h, "assistant") /\ a + Len(h[a].ids) = Len(h) + left /\ left \in 1..Len(h[a].ids)
    /\ \A i \in Said(h, "assistant") : i <= a /\ (i # a => Whole(h, i, a - 1))
    /\ \A j \in DOMAIN h[a].ids : h[a].ids[j] = <<round, j>>
InTime(h) == \A i \in Said(h, "tool") : h[i].ids[1][1] < MaxSteps - 1

TrailHolds(trace, ran) ==
    /\ \A i \in DOMAIN ran :
          /\ ran[i].at \in DOMAIN trace
          /\ trace[ran[i].at] = [tool |-> ran[i].tool, ok |-> ran[i].ok, known |-> TRUE]
    /\ \A i, j \in DOMAIN ran : i < j => ran[i].at < ran[j].at
    /\ \A k \in DOMAIN trace : trace[k].known => \E i \in DOMAIN ran : ran[i].at = k
Private(l) == l.caller # Nobody => \A o \in l.shown : OwnerOf[o] = l.caller

\* What holds of a run whatever it does, ...
RunHolds(l) ==
    /\ l \in LoopRecords /\ ~l.leaked /\ l.cited \subseteq l.found /\ Private(l)
    /\ TrailHolds(l.trace, l.ran) /\ ResultsStand(l.history)
    /\ Len(l.trace) = Cardinality(Said(l.history, "tool"))
\* ... while it goes on, and when it is over.
GoesOn(l) ==
    /\ l.outcome = "none" /\ ~l.ticket /\ InTime(l.history) /\ \A i \in DOMAIN l.ran : l.ran[i].tool # "escalate"
LoopHolds(l) ==
    /\ RunHolds(l)
    /\ l.step = "idle" => GoesOn(l)
    /\ l.step = "ask" => GoesOn(l) /\ AllWhole(l.history)
    /\ l.step = "calls" => GoesOn(l) /\ \E a \in Said(l.history, "assistant") : Underway(l.history, a, l.left, l.round)
    /\ l.step = "done" =>
          /\ (l.outcome = "handoff" <=> l.ticket) /\ (l.outcome = "steps_exhausted" => InTime(l.history))
          /\ \A i \in DOMAIN l.ran : l.ran[i].tool = "escalate" => i = Len(l.ran)

\* What leaves the process, and what is refunded, goes back to a proposal.
Payloads == [id : Nat, tool : Names \cup {"invented", "none"}, about : Orders \cup {NoOrder}, by : Speakers,
             as : {Nobody}, key : [id : Nat, by : Speakers, tool : Names \cup {"invented", "none"},
                                   about : Orders \cup {NoOrder}, lang : {"none", "zh", "en"}]]
KeyOf(s) ==
    IF durable THEN s.key = [NoKey EXCEPT !.id = s.id]
    ELSE s.key.by = s.by /\ s.key.tool = s.tool /\ s.key.about = s.about
ActsHold ==
    /\ durable \in BOOLEAN /\ proposals \in Nat
    /\ pending = NoAction \/ /\ pending.id \in 1..proposals /\ pending.by \in Speakers
                             /\ pending.about \in Orders \cup {NoOrder}
    /\ \A s \in departed : s.id # 0 /\ s.as = Nobody /\ KeyOf(s)
    /\ \A p \in paid : p.id # 0 /\ p.about \notin Big /\ p.by \in {Nobody, OwnerOf[p.about]}

AgentInv == RegistryHolds /\ LoopHolds(loop) /\ ActsHold
-----------------------------------------------------------------------------
(* The registry. *)

\* The first entry of a list that passes a test, where one does.
LEMMA FirstIs ==
    ASSUME NEW S \in SUBSET Nat, S # {}
    PROVE  Min(S) \in S
<1>1. \E n \in S : \A m \in S : n <= m
  BY SmallestExists
<1> QED BY <1>1 DEF Min

LEMMA BuiltInsAre ==
    /\ Len(BuiltIn) = 6 /\ DOMAIN BuiltIn = 1..6 /\ BuiltIn \in Seq(ToolSet)
    /\ \A i \in 1..6 : ~BuiltIn[i].remote /\ BuiltIn[i].name # "none" /\ BuiltIn[i].name \in Names
                       /\ BuiltIn[i].intent = <<BuiltIn[i].name>>
    /\ \A i, j \in 1..6 : BuiltIn[i].name = BuiltIn[j].name => i = j
    /\ BuiltIn[6].name = "escalate"
<1>1. DOMAIN BuiltIn = 1..6 /\ Len(BuiltIn) = 6
  BY DEF BuiltIn
<1>2. /\ BuiltIn[1].name = "refund" /\ BuiltIn[2].name = "order" /\ BuiltIn[3].name = "complaint"
      /\ BuiltIn[4].name = "recent" /\ BuiltIn[5].name = "search" /\ BuiltIn[6].name = "escalate"
  BY DEF BuiltIn, Local
<1>3. /\ BuiltIn[1].intent = <<"refund">> /\ BuiltIn[2].intent = <<"order">> /\ BuiltIn[3].intent = <<"complaint">>
      /\ BuiltIn[4].intent = <<"recent">> /\ BuiltIn[5].intent = <<"search">> /\ BuiltIn[6].intent = <<"escalate">>
  BY DEF BuiltIn, Local
<1>4. \A i \in 1..6 : i = 1 \/ i = 2 \/ i = 3 \/ i = 4 \/ i = 5 \/ i = 6
  OBVIOUS
<1>5. \A i \in 1..6 : BuiltIn[i].name \in Names
  BY <1>1 DEF Names
<1>6. \A i \in 1..6 : BuiltIn[i].intent = <<BuiltIn[i].name>> /\ BuiltIn[i].name # "none"
  <2>1. TAKE i \in 1..6
  <2> QED BY <1>2, <1>3, <1>4
<1>7. \A i, j \in 1..6 : BuiltIn[i].name = BuiltIn[j].name => i = j
  <2>1. TAKE i, j \in 1..6
  <2>2. i = 1 \/ i = 2 \/ i = 3 \/ i = 4 \/ i = 5 \/ i = 6
    BY <1>4
  <2>3. j = 1 \/ j = 2 \/ j = 3 \/ j = 4 \/ j = 5 \/ j = 6
    BY <1>4
  <2> QED BY <1>2, <2>2, <2>3
<1>8. \A i \in 1..6 : BuiltIn[i] \in ToolSet /\ ~BuiltIn[i].remote
  <2>1. \A x \in Names : \A g \in BOOLEAN : Local(x, g) \in ToolSet /\ ~Local(x, g).remote
    BY DEF Local, ToolSet
  <2>2. /\ BuiltIn[1] = Local("refund", TRUE) /\ BuiltIn[2] = Local("order", FALSE)
        /\ BuiltIn[3] = Local("complaint", FALSE) /\ BuiltIn[4] = Local("recent", FALSE)
        /\ BuiltIn[5] = Local("search", FALSE) /\ BuiltIn[6] = Local("escalate", FALSE)
    BY DEF BuiltIn
  <2>3. {"refund", "order", "complaint", "recent", "search", "escalate"} \subseteq Names
    BY <1>2, <1>5
  <2>4. TAKE i \in 1..6
  <2>5. i = 1 \/ i = 2 \/ i = 3 \/ i = 4 \/ i = 5 \/ i = 6
    BY <1>4
  <2> QED BY <2>1, <2>2, <2>3, <2>5
<1>9. BuiltIn \in Seq(ToolSet)
  <2>1. BuiltIn = [i \in 1..6 |-> BuiltIn[i]]
    BY <1>1 DEF BuiltIn
  <2> HIDE DEF BuiltIn
  <2>2. [i \in 1..6 |-> BuiltIn[i]] \in Seq(ToolSet)
    BY <1>8, IsASeq
  <2> QED BY <2>1, <2>2
<1> QED BY <1>1, <1>2, <1>5, <1>6, <1>7, <1>8, <1>9

\* A name that is known names a tool of the registry, one that is not, none.
LEMMA NamedIs ==
    ASSUME RegistryHolds, NEW name
    PROVE  IF \E i \in DOMAIN tools : tools[i].name = name
           THEN /\ ToolNamed(name) # NoTool
                /\ \E i \in DOMAIN tools : tools[i].name = name /\ ToolNamed(name) = tools[i]
           ELSE ToolNamed(name) = NoTool
<1> DEFINE I == {i \in 1..Len(tools) : tools[i].name = name}
           n == SelectInSeq(tools, LAMBDA t : t.name = name)
<1>1. Len(tools) \in Nat /\ DOMAIN tools = 1..Len(tools)
  BY LenProperties DEF RegistryHolds
<1>2. n = IF I # {} THEN Min(I) ELSE 0
  BY DEF SelectInSeq
<1>3. ToolNamed(name) = IF n = 0 THEN NoTool ELSE tools[n]
  BY DEF ToolNamed
<1>4. CASE I # {}
  <2>1. Min(I) \in I
    <3>1. I \in SUBSET Nat
      BY <1>1
    <3> HIDE DEF I
    <3> QED BY <1>4, <3>1, FirstIs
  <2>2. n \in I /\ n # 0
    BY <1>1, <1>2, <1>4, <2>1
  <2>3. ToolNamed(name) = tools[n]
    BY <1>3, <2>2
  <2>4. tools[n] # NoTool
    <3>1. n \in DOMAIN tools
      BY <1>1, <2>2
    <3>2. CASE n > 6
      BY <3>1, <3>2 DEF RegistryHolds, Imports, NoTool, Local
    <3>3. CASE ~(n > 6)
      <4>1. n \in 1..6
        BY <1>1, <3>1, <3>3
      <4>2. tools[n].name # "none"
        BY <4>1, BuiltInsAre DEF RegistryHolds
      <4> QED BY <4>2 DEF NoTool, Local
    <3> QED BY <3>2, <3>3
  <2> QED BY <1>1, <2>2, <2>3, <2>4
<1>5. CASE I = {}
  <2>1. ~(\E i \in DOMAIN tools : tools[i].name = name)
    BY <1>1, <1>5
  <2> QED BY <1>2, <1>3, <1>5, <2>1
<1> QED BY <1>4, <1>5

\* The built-in tools keep their names, and no writer runs without a gate.
LEMMA RegistryGuards ==
    ASSUME RegistryHolds, NEW name, ToolNamed(name) # NoTool
    PROVE  /\ ToolNamed(name).remote /\ ~ToolNamed(name).gated => name \notin Writers
           /\ ToolNamed(name).remote => name # "escalate"
<1>1. PICK i \in DOMAIN tools : tools[i].name = name /\ ToolNamed(name) = tools[i]
  BY NamedIs
<1>2. Len(tools) \in Nat /\ DOMAIN tools = 1..Len(tools) /\ Len(tools) >= 6
  BY LenProperties DEF RegistryHolds
<1>3. ToolNamed(name).remote => i > 6
  <2>1. i \in 1..6 => ~tools[i].remote
    BY BuiltInsAre DEF RegistryHolds
  <2> QED BY <1>1, <1>2, <2>1
<1>4. ToolNamed(name).remote => Imports(i)
  BY <1>3 DEF RegistryHolds
<1>5. ToolNamed(name).remote => name # "escalate"
  <2>1. 6 \in DOMAIN tools /\ tools[6].name = "escalate"
    BY <1>2, BuiltInsAre DEF RegistryHolds
  <2>2. i > 6 => i # 6
    BY <1>2
  <2> QED BY <1>1, <1>3, <2>1, <2>2 DEF RegistryHolds, NamesAreUnique
<1> QED BY <1>1, <1>4, <1>5 DEF Imports

LEMMA LoadEntryKeeps ==
    ASSUME RegistryHolds, LoadEntry
    PROVE  RegistryHolds'
<1> DEFINE e == Head(entries)
           t == Imported(e)
<1>1. /\ entries # <<>> /\ entries' = Tail(entries)
      /\ tools' = IF Admitted(e) THEN Registered(t) ELSE tools
  BY DEF LoadEntry
<1>2. /\ entries \in Seq(Entries) /\ \A i \in DOMAIN entries : entries[i].name \in Writers => entries[i].hint # "read"
      /\ tools \in Seq(ToolSet) /\ Len(tools) >= 6 /\ \A i \in 1..6 : tools[i] = BuiltIn[i]
      /\ \A i \in DOMAIN tools : i > 6 => Imports(i)
      /\ NamesAreUnique
  BY DEF RegistryHolds
<1>3. /\ Len(entries) \in Nat /\ Len(entries) > 0 /\ e = entries[1] /\ e \in Entries
      /\ entries' \in Seq(Entries) /\ Len(entries') = Len(entries) - 1
      /\ \A i \in 1..Len(entries') : entries'[i] = entries[i + 1]
  BY <1>1, <1>2, HeadTailProperties, EmptySeq, LenProperties, ElementOfSeq
<1>4. \A i \in DOMAIN entries' : entries'[i].name \in Writers => entries'[i].hint # "read"
  <2>1. /\ DOMAIN entries = 1..Len(entries) /\ DOMAIN entries' = 1..Len(entries')
        /\ Len(entries') \in Nat
    BY <1>2, <1>3, LenProperties
  <2>2. \A i \in DOMAIN entries' : i \in 1..Len(entries') /\ i + 1 \in DOMAIN entries
    BY <1>3, <2>1
  <2> QED BY <1>2, <1>3, <2>2
<1>5. e.name \in Writers => e.hint # "read"
  <2>1. 1 \in DOMAIN entries
    BY <1>2, <1>3, LenProperties
  <2> QED BY <1>2, <1>3, <2>1
<1>6. CASE ~Admitted(e)
  BY <1>1, <1>2, <1>3, <1>4, <1>6 DEF RegistryHolds, NamesAreUnique, Imports
<1>7. CASE Admitted(e)
  <2>1. e.hint # "unsaid" /\ ToolNamed(e.name) = NoTool
    BY <1>7 DEF Admitted
  <2>2. \A i \in DOMAIN tools : tools[i].name # e.name
    BY <2>1, NamedIs
  <2>3. /\ t \in ToolSet /\ t.name = e.name /\ t.intent = <<"mcp", e.name>> /\ t.remote
        /\ (e.name \in Writers => t.gated)
    BY <1>3, <1>5, <2>1 DEF Imported, Entries, ToolSet
  <2> HIDE DEF t, e
  <2>4. Len(tools) \in Nat /\ DOMAIN tools = 1..Len(tools)
    BY <1>2, LenProperties
  <2>5. \A i \in 1..Len(tools) : tools[i].intent # t.intent
    <3>1. TAKE i \in 1..Len(tools)
    <3>2. CASE i > 6
      <4>1. tools[i].intent = <<"mcp", tools[i].name>> /\ tools[i].name # e.name
        BY <1>2, <2>2, <2>4, <3>2 DEF Imports
      <4> QED BY <2>3, <4>1
    <3>3. CASE ~(i > 6)
      <4>1. i \in 1..6
        BY <2>4, <3>3
      <4>2. tools[i].intent = <<tools[i].name>>
        BY <1>2, <4>1, BuiltInsAre
      <4>3. \A a, b, c : <<a>> # <<b, c>>
        OBVIOUS
      <4> QED BY <2>3, <4>2, <4>3
    <3> QED BY <3>2, <3>3
  <2>6. Registered(t) = Append(tools, t)
    <3> DEFINE I == {i \in 1..Len(tools) : tools[i].intent = t.intent}
    <3>1. I = {}
      BY <2>5
    <3>2. SelectInSeq(tools, LAMBDA u : u.intent = t.intent) = 0
      BY <3>1 DEF SelectInSeq
    <3> QED BY <3>2 DEF Registered
  <2>7. /\ tools' = Append(tools, t) /\ tools' \in Seq(ToolSet) /\ Len(tools') = Len(tools) + 1
        /\ DOMAIN tools' = 1..(Len(tools) + 1)
        /\ \A i \in 1..Len(tools) : tools'[i] = tools[i]
        /\ tools'[Len(tools) + 1] = t
    BY <1>1, <1>2, <1>7, <2>3, <2>6, AppendProperties, LenProperties DEF t
  <2>8. \A i \in DOMAIN tools' : i \in 1..Len(tools) \/ i = Len(tools) + 1
    BY <2>4, <2>7
  <2>9. NamesAreUnique'
    <3>1. \A i \in DOMAIN tools' : \A j \in DOMAIN tools' : tools'[i].name = tools'[j].name => i = j
      BY <1>2, <2>2, <2>3, <2>4, <2>7, <2>8 DEF NamesAreUnique
    <3> QED BY <2>7, <3>1 DEF NamesAreUnique
  <2>10. \A i \in DOMAIN tools' : i > 6 => Imports(i)'
    <3>1. ASSUME NEW i \in DOMAIN tools', i > 6
          PROVE  /\ tools'[i].remote /\ tools'[i].intent = <<"mcp", tools'[i].name>>
                 /\ tools'[i].name \in Writers => tools'[i].gated
      BY <1>2, <2>3, <2>4, <2>7, <2>8, <3>1 DEF Imports
    <3> QED BY <3>1 DEF Imports
  <2>11. Len(tools') >= 6 /\ \A i \in 1..6 : tools'[i] = BuiltIn[i]
    BY <1>2, <2>4, <2>7
  <2> QED BY <1>3, <1>4, <2>7, <2>9, <2>10, <2>11 DEF RegistryHolds
<1> QED BY <1>6, <1>7

LEMMA RegistryStays ==
    ASSUME RegistryHolds, UNCHANGED <<tools, entries>>
    PROVE  RegistryHolds'
BY DEF RegistryHolds, NamesAreUnique, Imports

LEMMA RegistryBegins == AgentInit => RegistryHolds
<1> SUFFICES ASSUME AgentInit PROVE RegistryHolds
  OBVIOUS
<1>1. tools = BuiltIn /\ entries \in Manifests
  BY DEF AgentInit
<1>2. entries \in Seq(Entries) /\ \A i \in DOMAIN entries : entries[i].name \in Writers => entries[i].hint # "read"
  BY <1>1, ManifestAssumption DEF Entries
<1>3. \A i \in DOMAIN tools : ~(i > 6)
  BY <1>1, BuiltInsAre
<1>4. NamesAreUnique
  BY <1>1, BuiltInsAre DEF NamesAreUnique
<1> QED BY <1>1, <1>2, <1>3, <1>4, BuiltInsAre DEF RegistryHolds

-----------------------------------------------------------------------------
(* What leaves the process, and what is refunded. *)

LEMMA ConfirmKeeps ==
    ASSUME ActsHold, NEW lang, NEW known \in BOOLEAN, Confirm(lang, known)
    PROVE  ActsHold'
<1> DEFINE p == pending
           may == durable => (p.by # Nobody /\ p.session /\ p.id \notin Dispatched)
           refunded == p.tool = "refund" /\ may /\ OwnedOrder(p.about, p.by) /\ AutoRefunded(p.about)
           calling == ToolNamed(p.tool).remote /\ may
           refund == [id |-> p.id, about |-> p.about, by |-> p.by]
           call == Payload(p.id, p.tool, p.about, p.by, CallKey(p, lang))
<1>1. /\ pending # NoAction /\ durable' = durable /\ proposals' = proposals
      /\ paid' = IF refunded THEN paid \cup {refund} ELSE paid
      /\ departed' = IF calling THEN departed \cup {call} ELSE departed
      /\ (pending' = pending \/ pending' = NoAction)
  BY DEF Confirm
<1>2. /\ durable \in BOOLEAN /\ proposals \in Nat
      /\ p.id \in 1..proposals /\ p.by \in Speakers /\ p.about \in Orders \cup {NoOrder}
      /\ \A s \in departed : s.id # 0 /\ s.as = Nobody /\ KeyOf(s)
      /\ \A q \in paid : q.id # 0 /\ q.about \notin Big /\ q.by \in {Nobody, OwnerOf[q.about]}
  BY <1>1 DEF ActsHold
<1>3. p.id # 0
  BY <1>2
<1>4. refunded => refund.id # 0 /\ refund.about \notin Big /\ refund.by \in {Nobody, OwnerOf[refund.about]}
  BY <1>3 DEF OwnedOrder, AutoRefunded
<1>5. call.id # 0 /\ call.as = Nobody /\ KeyOf(call)
  BY <1>3 DEF Payload, Stripped, KeyOf, CallKey
<1>6. \A s \in departed' : s.id # 0 /\ s.as = Nobody /\ KeyOf(s)
  BY <1>1, <1>2, <1>5
<1>7. \A s : KeyOf(s)' <=> KeyOf(s)
  BY <1>1 DEF KeyOf
<1>8. \A q \in paid' : q.id # 0 /\ q.about \notin Big /\ q.by \in {Nobody, OwnerOf[q.about]}
  BY <1>1, <1>2, <1>4
<1>9. pending' = NoAction \/ (pending'.id \in 1..proposals /\ pending'.by \in Speakers /\ pending'.about \in Orders \cup {NoOrder})
  BY <1>1, <1>2
<1> QED BY <1>1, <1>2, <1>6, <1>7, <1>8, <1>9 DEF ActsHold

LEMMA ActsStay ==
    ASSUME ActsHold, UNCHANGED <<durable, proposals, departed, paid>>, pending' = pending \/ pending' = NoAction
    PROVE  ActsHold'
BY DEF ActsHold, KeyOf

LEMMA StageActs ==
    ASSUME ActsHold, LoopHolds(loop), NEW call \in Requests, StageCall(call)
    PROVE  ActsHold'
<1>1. /\ proposals' = proposals + 1 /\ durable' = durable /\ departed' = departed /\ paid' = paid
      /\ pending' = [id |-> proposals + 1, tool |-> call.name, about |-> call.about,
                     by |-> loop.caller, session |-> loop.session]
  BY DEF StageCall
<1>2. proposals \in Nat /\ proposals' \in Nat /\ proposals + 1 \in 1..proposals'
  BY <1>1 DEF ActsHold
<1>3. loop.caller \in Speakers /\ call.about \in Orders \cup {NoOrder}
  BY DEF LoopHolds, RunHolds, LoopRecords, Requests, Calls
<1>4. pending'.id \in 1..proposals' /\ pending'.by \in Speakers /\ pending'.about \in Orders \cup {NoOrder}
  BY <1>1, <1>2, <1>3
<1> QED BY <1>1, <1>2, <1>4 DEF ActsHold, KeyOf

\* A write carries the key of its proposal, so two carry one exactly when
\* they are one proposal.
LEMMA KeysAre ==
    ASSUME ActsHold
    PROVE  \A s, t \in departed :
               IF durable THEN (s.key = t.key) <=> (s.id = t.id)
               ELSE s.key = t.key => <<s.by, s.tool, s.about>> = <<t.by, t.tool, t.about>>
<1>1. TAKE s, t \in departed
<1>2. KeyOf(s) /\ KeyOf(t)
  BY DEF ActsHold
<1>3. CASE durable
  <2>1. s.key = [NoKey EXCEPT !.id = s.id] /\ t.key = [NoKey EXCEPT !.id = t.id]
    BY <1>2, <1>3 DEF KeyOf
  <2>2. s.key.id = s.id /\ t.key.id = t.id
    BY <2>1 DEF NoKey
  <2> QED BY <1>3, <2>1, <2>2
<1>4. CASE ~durable
  BY <1>2, <1>4 DEF KeyOf
<1> QED BY <1>3, <1>4

-----------------------------------------------------------------------------
(* The history: an answer with calls, and the results behind it. *)

\* What the history is after an answer with the n calls ids.
Asked(h, n, round, ids) ==
    LET more == Append(h, Asking(ids))
    IN /\ more \in Seq(HistoryRows) /\ ResultsStand(more)
       /\ Len(h) + 1 \in Said(more, "assistant") /\ Underway(more, Len(h) + 1, n, round)
       /\ Said(more, "tool") = Said(h, "tool") /\ (InTime(h) => InTime(more))

LEMMA AsksAgain ==
    ASSUME NEW h \in Seq(HistoryRows), ResultsStand(h), AllWhole(h), NEW n \in Nat \ {0}, NEW round \in Nat,
           NEW ids \in Seq(Nat \X Nat), Len(ids) = n, \A j \in 1..n : ids[j] = <<round, j>>
    PROVE  Asked(h, n, round, ids)
<1> DEFINE row == Asking(ids)
           more == Append(h, row)
<1>1. row \in HistoryRows /\ row.role = "assistant" /\ row.ids = ids
  BY DEF Asking, HistoryRows
<1> HIDE DEF row
<1>2. /\ more \in Seq(HistoryRows) /\ Len(more) = Len(h) + 1 /\ more[Len(h) + 1] = row
      /\ \A i \in 1..Len(h) : more[i] = h[i]
  BY <1>1, AppendProperties
<1> HIDE DEF more
<1>3. Len(h) \in Nat /\ DOMAIN h = 1..Len(h) /\ DOMAIN more = 1..(Len(h) + 1) /\ DOMAIN ids = 1..n
  BY <1>2, LenProperties
<1>4. \A i \in DOMAIN h : Len(h[i].ids) \in Nat /\ DOMAIN h[i].ids = 1..Len(h[i].ids)
  <2>1. \A i \in DOMAIN h : h[i] \in HistoryRows
    BY <1>3, ElementOfSeq
  <2>2. \A i \in DOMAIN h : h[i].ids \in Seq(Nat \X Nat)
    BY <2>1 DEF HistoryRows
  <2> QED BY <2>2, LenProperties
<1>5. \A i \in DOMAIN more : i \in 1..Len(h) \/ i = Len(h) + 1
  BY <1>3
<1>6. Said(more, "tool") = Said(h, "tool")
  BY <1>1, <1>2, <1>3, <1>5 DEF Said
<1>7. Said(more, "assistant") = Said(h, "assistant") \cup {Len(h) + 1}
  BY <1>1, <1>2, <1>3, <1>5 DEF Said
<1>8. \A i \in Said(h, "assistant") : i \in 1..Len(h) /\ more[i] = h[i] /\ i + Len(h[i].ids) <= Len(h)
  BY <1>2, <1>3 DEF AllWhole, Whole, Said
<1>9. ResultsStand(more)
  <2>1. ASSUME NEW i \in Said(more, "assistant"), NEW j \in DOMAIN more[i].ids, i + j \in DOMAIN more
        PROVE  more[i + j] = Answering(more[i].ids[j])
    <3>1. CASE i \in Said(h, "assistant")
      <4>1. j \in DOMAIN h[i].ids /\ i \in 1..Len(h)
        BY <1>8, <2>1, <3>1
      <4>2. i + j \in 1..Len(h)
        <5> DEFINE wide == Len(h[i].ids)
        <5>1. wide \in Nat /\ j \in 1..wide /\ i + wide <= Len(h) /\ i \in 1..Len(h)
          BY <1>3, <1>4, <1>8, <3>1, <4>1
        <5> HIDE DEF wide
        <5> QED BY <1>3, <5>1
      <4>3. h[i + j] = Answering(h[i].ids[j])
        BY <1>3, <3>1, <4>1, <4>2 DEF ResultsStand
      <4> QED BY <1>2, <1>8, <3>1, <4>2, <4>3
    <3>2. CASE i = Len(h) + 1
      <4>1. j \in 1..n
        BY <1>1, <1>2, <1>3, <2>1, <3>2
      <4> QED BY <1>3, <2>1, <3>2, <4>1
    <3> QED BY <1>7, <3>1, <3>2
  <2>2. \A k \in Said(more, "tool") : \E i \in Said(more, "assistant") : i < k /\ k - i \in DOMAIN more[i].ids
    BY <1>6, <1>7, <1>8 DEF ResultsStand
  <2> QED BY <2>1, <2>2 DEF ResultsStand
<1>10. Underway(more, Len(h) + 1, n, round)
  <2>1. Len(h) + 1 \in Said(more, "assistant") /\ more[Len(h) + 1].ids = ids
    BY <1>1, <1>2, <1>7
  <2>2. \A i \in Said(more, "assistant") : i <= Len(h) + 1 /\ (i # Len(h) + 1 => Whole(more, i, Len(h)))
    BY <1>3, <1>7, <1>8 DEF Whole
  <2>3. (Len(h) + 1) + n = Len(more) + n /\ n \in 1..n /\ (Len(h) + 1) - 1 = Len(h)
    BY <1>2, <1>3
  <2> QED BY <1>3, <2>1, <2>2, <2>3 DEF Underway
<1>11. InTime(h) => InTime(more)
  <2>1. \A i \in Said(h, "tool") : more[i] = h[i]
    BY <1>2, <1>3 DEF Said
  <2> QED BY <1>6, <2>1 DEF InTime
<1> QED BY <1>2, <1>7, <1>6, <1>9, <1>10, <1>11 DEF Asked, more, row

LEMMA Answers ==
    ASSUME NEW h \in Seq(HistoryRows), ResultsStand(h), NEW a, NEW left, NEW round \in Nat, Underway(h, a, left, round)
    PROVE  LET id == h[a].ids[Len(h[a].ids) - left + 1]
               more == Append(h, Answering(id))
           IN /\ more \in Seq(HistoryRows) /\ ResultsStand(more) /\ left \in Nat \ {0}
              /\ (left # 1 => a \in Said(more, "assistant") /\ Underway(more, a, left - 1, round))
              /\ (left = 1 => AllWhole(more))
              /\ Cardinality(Said(more, "tool")) = Cardinality(Said(h, "tool")) + 1
              /\ (InTime(h) /\ round < MaxSteps - 1 => InTime(more))
<1> DEFINE w == Len(h[a].ids)
           j0 == w - left + 1
           id == h[a].ids[j0]
           row == Answering(id)
           more == Append(h, row)
<1>1. Len(h) \in Nat /\ DOMAIN h = 1..Len(h)
  BY LenProperties
<1>2. \A i \in DOMAIN h : Len(h[i].ids) \in Nat /\ DOMAIN h[i].ids = 1..Len(h[i].ids)
                          /\ h[i].ids \in Seq(Nat \X Nat)
  <2>1. \A i \in DOMAIN h : h[i] \in HistoryRows
    BY <1>1, ElementOfSeq
  <2>2. \A i \in DOMAIN h : h[i].ids \in Seq(Nat \X Nat)
    BY <2>1 DEF HistoryRows
  <2> QED BY <2>2, LenProperties
<1>3. /\ a \in DOMAIN h /\ h[a].role = "assistant" /\ a \in Nat /\ w \in Nat /\ DOMAIN h[a].ids = 1..w
      /\ a \in Said(h, "assistant") /\ a <= Len(h)
      /\ left \in 1..w /\ a + w = Len(h) + left
      /\ \A i \in Said(h, "assistant") : i <= a /\ (i # a => Whole(h, i, a - 1))
      /\ \A j \in 1..w : h[a].ids[j] = <<round, j>>
  <2>1. /\ a \in Said(h, "assistant") /\ a + w = Len(h) + left /\ left \in 1..w
        /\ \A i \in Said(h, "assistant") : i <= a /\ (i # a => Whole(h, i, a - 1))
        /\ \A j \in DOMAIN h[a].ids : h[a].ids[j] = <<round, j>>
    BY DEF Underway
  <2>2. a \in DOMAIN h /\ h[a].role = "assistant"
    BY <2>1 DEF Said
  <2>3. w \in Nat /\ DOMAIN h[a].ids = 1..w
    BY <1>2, <2>2
  <2> HIDE DEF w
  <2>4. a \in Nat /\ a <= Len(h)
    BY <1>1, <2>2
  <2> QED BY <2>1, <2>2, <2>3, <2>4
<1> HIDE DEF w
<1>4. j0 \in 1..w /\ a + j0 = Len(h) + 1 /\ left \in Nat \ {0} /\ a <= Len(h)
  <2>1. left \in Int /\ 1 <= left /\ left <= w
    BY <1>3
  <2> QED BY <1>1, <1>3, <2>1
<1> HIDE DEF j0
<1>5. id = <<round, j0>> /\ id \in Nat \X Nat
  <2>1. id = <<round, j0>>
    BY <1>3, <1>4
  <2>2. j0 \in Nat
    BY <1>3, <1>4
  <2> HIDE DEF id
  <2> QED BY <2>1, <2>2
<1> HIDE DEF id
<1>6. row \in HistoryRows /\ row.role = "tool" /\ row.ids = <<id>>
  <2>1. <<id>> \in Seq(Nat \X Nat)
    BY <1>5
  <2> QED BY <2>1 DEF Answering, HistoryRows
<1> HIDE DEF row
<1>7. /\ more \in Seq(HistoryRows) /\ Len(more) = Len(h) + 1 /\ more[Len(h) + 1] = row
      /\ \A i \in 1..Len(h) : more[i] = h[i]
  BY <1>6, AppendProperties
<1> HIDE DEF more
<1>8. DOMAIN more = 1..(Len(h) + 1) /\ \A i \in DOMAIN more : i \in 1..Len(h) \/ i = Len(h) + 1
  BY <1>1, <1>7, LenProperties
<1>9. Said(more, "tool") = Said(h, "tool") \cup {Len(h) + 1}
  BY <1>1, <1>6, <1>7, <1>8 DEF Said
<1>10. Said(more, "assistant") = Said(h, "assistant")
  BY <1>1, <1>6, <1>7, <1>8 DEF Said
<1>11. \A i \in Said(h, "assistant") : i \in 1..Len(h) /\ more[i] = h[i]
  BY <1>1, <1>7 DEF Said
<1>12. ResultsStand(more)
  <2>1. ASSUME NEW i \in Said(more, "assistant"), NEW j \in DOMAIN more[i].ids, i + j \in DOMAIN more
        PROVE  more[i + j] = Answering(more[i].ids[j])
    <3>1. /\ i \in Said(h, "assistant") /\ i \in 1..Len(h) /\ more[i] = h[i] /\ j \in DOMAIN h[i].ids
          /\ j \in 1..Len(h[i].ids) /\ Len(h[i].ids) \in Nat
      BY <1>1, <1>2, <1>10, <1>11
    <3>2. CASE i + j \in 1..Len(h)
      <4>1. h[i + j] = Answering(h[i].ids[j])
        BY <1>1, <3>1, <3>2 DEF ResultsStand
      <4> QED BY <1>7, <3>1, <3>2, <4>1
    <3>3. CASE i + j = Len(h) + 1
      <4>1. i = a
        <5>1. i # a => i + Len(h[i].ids) <= a - 1
          BY <1>3, <3>1 DEF Whole
        <5> DEFINE wide == Len(h[i].ids)
        <5>2. wide \in Nat /\ j \in 1..wide /\ i \in 1..Len(h) /\ (i # a => i + wide <= a - 1)
          BY <3>1, <5>1
        <5> HIDE DEF wide
        <5>3. i + j <= i + wide /\ a - 1 < Len(h) + 1
          BY <1>1, <1>3, <5>2
        <5> QED BY <1>1, <1>3, <3>3, <5>2, <5>3
      <4>2. j = j0
        BY <1>3, <1>4, <3>1, <3>3, <4>1
      <4>3. more[i + j] = Answering(id)
        BY <1>7, <3>3 DEF row
      <4>4. more[i].ids[j] = id
        BY <3>1, <4>1, <4>2 DEF id
      <4> QED BY <4>3, <4>4
    <3> QED BY <1>8, <2>1, <3>2, <3>3
  <2>2. ASSUME NEW k \in Said(more, "tool")
        PROVE  \E i \in Said(more, "assistant") : i < k /\ k - i \in DOMAIN more[i].ids
    <3>1. CASE k \in Said(h, "tool")
      BY <1>10, <1>11, <3>1 DEF ResultsStand
    <3>2. CASE k = Len(h) + 1
      <4>1. a < k /\ k - a = j0
        BY <1>1, <1>3, <1>4, <3>2
      <4>2. more[a] = h[a]
        BY <1>3, <1>11
      <4> QED BY <1>3, <1>4, <1>10, <4>1, <4>2
    <3> QED BY <1>9, <3>1, <3>2
  <2> QED BY <2>1, <2>2 DEF ResultsStand
<1>13. left # 1 => Underway(more, a, left - 1, round)
  <2>1. more[a] = h[a] /\ a \in Said(more, "assistant")
    BY <1>3, <1>10, <1>11
  <2>2. left # 1 => a + w = Len(more) + (left - 1) /\ left - 1 \in 1..w
    BY <1>1, <1>3, <1>7
  <2>3. \A i \in Said(more, "assistant") : i <= a /\ (i # a => Whole(more, i, a - 1))
    BY <1>3, <1>10, <1>11 DEF Whole
  <2> QED BY <1>3, <2>1, <2>2, <2>3 DEF Underway, w
<1>14. left = 1 => AllWhole(more)
  <2>1. ASSUME left = 1, NEW i \in Said(more, "assistant")
        PROVE  Whole(more, i, Len(more))
    <3>1. i \in Said(h, "assistant") /\ more[i] = h[i] /\ i \in 1..Len(h)
      BY <1>10, <1>11
    <3>2. Len(h[i].ids) \in Nat
      BY <1>1, <1>2, <3>1
    <3>3. i = a => i + Len(more[i].ids) <= Len(more)
      BY <1>1, <1>3, <1>7, <2>1, <3>1 DEF w
    <3>4. i # a => i + Len(more[i].ids) <= Len(more)
      <4> DEFINE wide == Len(h[i].ids)
      <4>1. wide \in Nat /\ (i # a => i + wide <= a - 1)
        BY <1>3, <3>1, <3>2 DEF Whole
      <4> HIDE DEF wide
      <4>2. i # a => i + wide <= Len(more)
        BY <1>1, <1>3, <1>7, <3>1, <4>1
      <4> QED BY <3>1, <4>2 DEF wide
    <3> QED BY <3>3, <3>4 DEF Whole
  <2> QED BY <2>1 DEF AllWhole
<1>15. Cardinality(Said(more, "tool")) = Cardinality(Said(h, "tool")) + 1
  <2>1. Said(h, "tool") \subseteq 1..Len(h) /\ ~(Len(h) + 1 \in Said(h, "tool"))
    BY <1>1 DEF Said
  <2>2. IsFiniteSet(1..Len(h))
    BY <1>1, FS_Interval
  <2>3. IsFiniteSet(Said(h, "tool"))
    BY <2>1, <2>2, FS_Subset
  <2> QED BY <1>9, <2>1, <2>3, FS_AddElement
<1>16. InTime(h) /\ round < MaxSteps - 1 => InTime(more)
  <2>1. \A i \in Said(h, "tool") : more[i] = h[i]
    BY <1>1, <1>7 DEF Said
  <2>2. more[Len(h) + 1].ids[1][1] = round
    BY <1>5, <1>6, <1>7
  <2> QED BY <1>9, <2>1, <2>2 DEF InTime
<1> QED BY <1>4, <1>3, <1>7, <1>10, <1>12, <1>13, <1>14, <1>15, <1>16 DEF more, row, id, j0, w

\* The call whose turn it is.
LEMMA ThisCallIs ==
    ASSUME NEW a, loop.history \in Seq(HistoryRows), Underway(loop.history, a, loop.left, loop.round)
    PROVE  ThisCall = loop.history[a].ids[Len(loop.history[a].ids) - loop.left + 1]
<1>1. Spoken("assistant") = Said(loop.history, "assistant")
  BY DEF Spoken, Said
<1>2. a \in Spoken("assistant") /\ \A j \in Spoken("assistant") : j <= a
  BY <1>1 DEF Underway
<1>3. \A i \in Spoken("assistant") : i \in Int
  <2>1. Len(loop.history) \in Nat /\ DOMAIN loop.history = 1..Len(loop.history)
    BY LenProperties
  <2> QED BY <2>1 DEF Spoken
<1>4. (CHOOSE i \in Spoken("assistant") : \A j \in Spoken("assistant") : j <= i) = a
  <2>1. \A i \in Spoken("assistant") : (\A j \in Spoken("assistant") : j <= i) => i = a
    BY <1>2, <1>3
  <2> QED BY <1>2, <2>1
<1> QED BY <1>4 DEF ThisCall, LastAsked

\* A row behind the trail: of a call that ran, and of a name nobody knows.
LEMMA TrailGrows ==
    ASSUME NEW trace \in Seq(TrailRows), NEW ran \in Seq(RanRows), TrailHolds(trace, ran),
           NEW name \in Names \cup {"invented"}, NEW ok \in BOOLEAN
    PROVE  /\ TrailHolds(Append(trace, [tool |-> name, ok |-> ok, known |-> FALSE]), ran)
           /\ TrailHolds(Append(trace, [tool |-> name, ok |-> ok, known |-> TRUE]),
                         Append(ran, [tool |-> name, ok |-> ok, at |-> Len(trace) + 1]))
<1>1. /\ Len(trace) \in Nat /\ DOMAIN trace = 1..Len(trace)
      /\ Len(ran) \in Nat /\ DOMAIN ran = 1..Len(ran)
  BY LenProperties
<1>2. /\ \A i \in DOMAIN ran : ran[i].at \in DOMAIN trace
                               /\ trace[ran[i].at] = [tool |-> ran[i].tool, ok |-> ran[i].ok, known |-> TRUE]
      /\ \A i, j \in DOMAIN ran : i < j => ran[i].at < ran[j].at
      /\ \A k \in DOMAIN trace : trace[k].known => \E i \in DOMAIN ran : ran[i].at = k
  BY DEF TrailHolds
<1>3. ASSUME NEW known \in BOOLEAN
      PROVE  LET row == [tool |-> name, ok |-> ok, known |-> known]
                 more == Append(trace, row)
             IN /\ DOMAIN more = 1..(Len(trace) + 1) /\ more[Len(trace) + 1] = row
                /\ \A i \in 1..Len(trace) : more[i] = trace[i]
                /\ \A i \in 1..(Len(trace) + 1) : i \in 1..Len(trace) \/ i = Len(trace) + 1
  <2> DEFINE row == [tool |-> name, ok |-> ok, known |-> known]
             more == Append(trace, row)
  <2>1. row \in TrailRows
    BY DEF TrailRows
  <2> HIDE DEF row
  <2>2. /\ more \in Seq(TrailRows) /\ Len(more) = Len(trace) + 1 /\ more[Len(trace) + 1] = row
        /\ \A i \in 1..Len(trace) : more[i] = trace[i]
    BY <2>1, AppendProperties
  <2> HIDE DEF more
  <2>3. DOMAIN more = 1..(Len(trace) + 1)
    BY <2>2, LenProperties
  <2>4. \A i \in 1..(Len(trace) + 1) : i \in 1..Len(trace) \/ i = Len(trace) + 1
    BY <1>1
  <2> QED BY <2>2, <2>3, <2>4 DEF more, row
<1>4. TrailHolds(Append(trace, [tool |-> name, ok |-> ok, known |-> FALSE]), ran)
  <2> DEFINE row == [tool |-> name, ok |-> ok, known |-> FALSE]
             more == Append(trace, row)
  <2>1. /\ DOMAIN more = 1..(Len(trace) + 1) /\ more[Len(trace) + 1] = row
        /\ \A i \in 1..Len(trace) : more[i] = trace[i]
        /\ \A i \in 1..(Len(trace) + 1) : i \in 1..Len(trace) \/ i = Len(trace) + 1
    BY <1>3
  <2>2. row.known = FALSE
    OBVIOUS
  <2> HIDE DEF more, row
  <2>3. \A i \in DOMAIN ran : ran[i].at \in DOMAIN more
                              /\ more[ran[i].at] = [tool |-> ran[i].tool, ok |-> ran[i].ok, known |-> TRUE]
    BY <1>1, <1>2, <2>1
  <2>4. \A k \in DOMAIN more : more[k].known => \E i \in DOMAIN ran : ran[i].at = k
    BY <1>1, <1>2, <2>1, <2>2
  <2> QED BY <1>2, <2>3, <2>4 DEF TrailHolds, more, row
<1>5. TrailHolds(Append(trace, [tool |-> name, ok |-> ok, known |-> TRUE]),
                 Append(ran, [tool |-> name, ok |-> ok, at |-> Len(trace) + 1]))
  <2> DEFINE row == [tool |-> name, ok |-> ok, known |-> TRUE]
             more == Append(trace, row)
             mine == [tool |-> name, ok |-> ok, at |-> Len(trace) + 1]
             all == Append(ran, mine)
  <2>1. /\ DOMAIN more = 1..(Len(trace) + 1) /\ more[Len(trace) + 1] = row
        /\ \A i \in 1..Len(trace) : more[i] = trace[i]
        /\ \A i \in 1..(Len(trace) + 1) : i \in 1..Len(trace) \/ i = Len(trace) + 1
    BY <1>3
  <2>2. mine \in RanRows /\ mine.at = Len(trace) + 1 /\ row = [tool |-> mine.tool, ok |-> mine.ok, known |-> TRUE]
    BY <1>1 DEF RanRows
  <2> HIDE DEF more, row, mine
  <2>3. /\ all \in Seq(RanRows) /\ Len(all) = Len(ran) + 1 /\ all[Len(ran) + 1] = mine
        /\ \A i \in 1..Len(ran) : all[i] = ran[i]
    BY <2>2, AppendProperties
  <2> HIDE DEF all
  <2>4. DOMAIN all = 1..(Len(ran) + 1) /\ \A i \in DOMAIN all : i \in 1..Len(ran) \/ i = Len(ran) + 1
    BY <1>1, <2>3, LenProperties
  <2>5. \A i \in DOMAIN all : all[i].at \in DOMAIN more
                              /\ more[all[i].at] = [tool |-> all[i].tool, ok |-> all[i].ok, known |-> TRUE]
    <3>1. \A i \in 1..Len(ran) : ran[i].at \in DOMAIN more
                              /\ more[ran[i].at] = [tool |-> ran[i].tool, ok |-> ran[i].ok, known |-> TRUE]
      BY <1>1, <1>2, <2>1
    <3>2. Len(trace) + 1 \in DOMAIN more
      BY <1>1, <2>1
    <3> QED BY <2>1, <2>2, <2>3, <2>4, <3>1, <3>2
  <2>6. \A i, j \in DOMAIN all : i < j => all[i].at < all[j].at
    <3>1. TAKE i, j \in DOMAIN all
    <3>2. HAVE i < j
    <3>6. i \in Int /\ j \in Int /\ j <= Len(ran) + 1
      BY <1>1, <2>4
    <3>3. i \in 1..Len(ran) /\ all[i] = ran[i] /\ ran[i].at \in 1..Len(trace)
      <4>1. i \in 1..Len(ran)
        BY <1>1, <2>4, <3>2, <3>6
      <4> QED BY <1>1, <1>2, <2>3, <4>1
    <3>4. CASE j \in 1..Len(ran)
      BY <1>1, <1>2, <2>3, <3>2, <3>3, <3>4
    <3>5. CASE j = Len(ran) + 1
      BY <1>1, <2>2, <2>3, <3>3, <3>5
    <3> QED BY <2>4, <3>4, <3>5
  <2>7. \A k \in DOMAIN more : more[k].known => \E i \in DOMAIN all : all[i].at = k
    <3>1. TAKE k \in DOMAIN more
    <3>2. HAVE more[k].known
    <3>3. CASE k \in 1..Len(trace)
      <4>1. trace[k].known
        BY <2>1, <3>2, <3>3
      <4>2. PICK i \in DOMAIN ran : ran[i].at = k
        BY <1>1, <1>2, <3>3, <4>1
      <4> QED BY <1>1, <2>3, <2>4, <4>2
    <3>4. CASE k = Len(trace) + 1
      BY <1>1, <2>2, <2>3, <2>4, <3>4
    <3> QED BY <2>1, <3>3, <3>4
  <2> QED BY <2>5, <2>6, <2>7 DEF TrailHolds, more, row, mine, all
<1> QED BY <1>4, <1>5

-----------------------------------------------------------------------------
(* The run: what a call that is answered leaves of it. *)

\* What is changed of a run when a call is answered, and what is not.
Moved(r, name, ok, known) ==
    LET more == Proceeds(r, name, ok, known)
    IN /\ more \in LoopRecords
       /\ more.history = Append(r.history, Answering(ThisCall))
       /\ more.trace = Append(r.trace, [tool |-> name, ok |-> ok, known |-> known])
       /\ more.caller = r.caller /\ more.ran = r.ran /\ more.found = r.found /\ more.shown = r.shown
       /\ more.leaked = r.leaked /\ more.ticket = r.ticket /\ more.cited = r.cited
       /\ IF r.left # 1 THEN more.step = "calls" /\ more.left = r.left - 1 /\ more.round = r.round /\ more.outcome = "none"
          ELSE IF r.round + 1 = MaxSteps THEN more.step = "done" /\ more.outcome = "steps_exhausted"
          ELSE more.step = "ask" /\ more.outcome = "none"

LEMMA ProceedsIs ==
    ASSUME NEW r \in LoopRecords, NEW name \in Names \cup {"invented"}, NEW ok \in BOOLEAN, NEW known \in BOOLEAN,
           ThisCall \in Nat \X Nat, r.left # 0, r.step = "calls", r.outcome = "none"
    PROVE  Moved(r, name, ok, known)
<1> DEFINE row == [tool |-> name, ok |-> ok, known |-> known]
           said == Append(r.history, Answering(ThisCall))
           trail == Append(r.trace, row)
           told == [r EXCEPT !.history = said, !.left = @ - 1, !.trace = trail]
           over == [told EXCEPT !.step = "done", !.outcome = "steps_exhausted", !.left = 0]
           next == [told EXCEPT !.round = @ + 1, !.step = "ask"]
           more == Proceeds(r, name, ok, known)
<1>1. more = IF told.left # 0 THEN told ELSE IF r.round + 1 = MaxSteps THEN over ELSE next
  BY DEF Proceeds, Ended
<1>2. /\ r.left \in Nat /\ r.round \in 0..(MaxSteps - 1) /\ r.history \in Seq(HistoryRows) /\ r.trace \in Seq(TrailRows)
  BY DEF LoopRecords
<1>3. MaxSteps \in Nat \ {0}
  BY AgentAssumption
<1>4. said \in Seq(HistoryRows)
  <2>1. <<ThisCall>> \in Seq(Nat \X Nat)
    OBVIOUS
  <2>2. Answering(ThisCall) \in HistoryRows
    BY <2>1 DEF Answering, HistoryRows
  <2> QED BY <1>2, <2>2, AppendProperties
<1>5. trail \in Seq(TrailRows)
  <2>1. row \in TrailRows
    BY DEF TrailRows
  <2> QED BY <1>2, <2>1, AppendProperties
<1>6. r.left - 1 \in Nat /\ (r.left - 1 # 0 <=> r.left # 1)
  BY <1>2
<1> HIDE DEF row, said, trail
<1>7. told \in LoopRecords
  BY <1>4, <1>5, <1>6 DEF LoopRecords
<1>8. /\ told.history = said /\ told.trace = trail /\ told.left = r.left - 1 /\ told.step = r.step
      /\ told.round = r.round /\ told.outcome = r.outcome
      /\ told.caller = r.caller /\ told.ran = r.ran /\ told.found = r.found /\ told.shown = r.shown
      /\ told.leaked = r.leaked /\ told.ticket = r.ticket /\ told.cited = r.cited
  BY DEF LoopRecords
<1> HIDE DEF told
<1>9. CASE r.left # 1
  <2>1. more = told
    BY <1>1, <1>6, <1>8, <1>9
  <2> HIDE DEF more
  <2> QED BY <1>7, <1>8, <1>9, <2>1 DEF Moved, more, row, said, trail
<1>10. CASE r.left = 1 /\ r.round + 1 = MaxSteps
  <2>1. more = over
    BY <1>1, <1>6, <1>8, <1>10
  <2>2. over \in LoopRecords
    BY <1>7 DEF LoopRecords
  <2>3. /\ over.history = said /\ over.trace = trail /\ over.step = "done" /\ over.outcome = "steps_exhausted"
        /\ over.caller = r.caller /\ over.ran = r.ran /\ over.found = r.found /\ over.shown = r.shown
        /\ over.leaked = r.leaked /\ over.ticket = r.ticket /\ over.cited = r.cited
    BY <1>7, <1>8 DEF LoopRecords
  <2> HIDE DEF more, over
  <2> QED BY <1>10, <2>1, <2>2, <2>3 DEF Moved, more, row, said, trail
<1>11. CASE r.left = 1 /\ r.round + 1 # MaxSteps
  <2>1. more = next
    BY <1>1, <1>6, <1>8, <1>11
  <2>2. r.round + 1 \in 0..(MaxSteps - 1)
    BY <1>2, <1>3, <1>11
  <2>3. next \in LoopRecords
    BY <1>7, <1>8, <2>2 DEF LoopRecords
  <2>4. /\ next.history = said /\ next.trace = trail /\ next.step = "ask" /\ next.outcome = "none"
        /\ next.caller = r.caller /\ next.ran = r.ran /\ next.found = r.found /\ next.shown = r.shown
        /\ next.leaked = r.leaked /\ next.ticket = r.ticket /\ next.cited = r.cited
    BY <1>6, <1>7, <1>8, <1>11 DEF LoopRecords
  <2> HIDE DEF more, next
  <2> QED BY <1>11, <2>1, <2>3, <2>4 DEF Moved, more, row, said, trail
<1> QED BY <1>9, <1>10, <1>11

\* A result keeps what holds of the run; and the run goes on soundly when there
\* is a round left to read it and it did not hand over.
LEMMA ResultKeeps ==
    ASSUME LoopHolds(loop), loop.step = "calls", NEW r \in LoopRecords,
           r.step = loop.step, r.round = loop.round, r.history = loop.history, r.left = loop.left,
           r.trace = loop.trace, r.outcome = loop.outcome, r.caller = loop.caller, r.cited = loop.cited,
           loop.found \subseteq r.found, ~r.leaked, Private(r),
           NEW name \in Names \cup {"invented"}, NEW ok \in BOOLEAN, NEW known \in BOOLEAN,
           TrailHolds(Append(loop.trace, [tool |-> name, ok |-> ok, known |-> known]), r.ran)
    PROVE  LET more == Proceeds(r, name, ok, known)
           IN /\ RunHolds(more) /\ more.ran = r.ran /\ more.ticket = r.ticket
              /\ (/\ loop.round # MaxSteps - 1 /\ ~r.ticket
                  /\ \A i \in DOMAIN r.ran : r.ran[i].tool # "escalate") => LoopHolds(more)
<1> DEFINE h == loop.history
           row == [tool |-> name, ok |-> ok, known |-> known]
           said == Append(h, Answering(ThisCall))
           more == Proceeds(r, name, ok, known)
<1>1. RunHolds(loop) /\ GoesOn(loop)
  BY DEF LoopHolds
<1>2. PICK a \in Said(h, "assistant") : Underway(h, a, loop.left, loop.round)
  BY DEF LoopHolds
<1>3. /\ h \in Seq(HistoryRows) /\ ResultsStand(h) /\ loop.round \in 0..(MaxSteps - 1) /\ loop.left \in Nat
      /\ loop \in LoopRecords /\ loop.trace \in Seq(TrailRows)
      /\ Len(loop.trace) = Cardinality(Said(h, "tool"))
  BY <1>1 DEF RunHolds, LoopRecords
<1>4. MaxSteps \in Nat \ {0} /\ loop.round \in Nat
  BY <1>3, AgentAssumption
<1>5. ThisCall = h[a].ids[Len(h[a].ids) - loop.left + 1]
  BY <1>2, <1>3, ThisCallIs
<1>6. /\ said \in Seq(HistoryRows) /\ ResultsStand(said) /\ loop.left \in Nat \ {0}
      /\ (loop.left # 1 => a \in Said(said, "assistant") /\ Underway(said, a, loop.left - 1, loop.round))
      /\ (loop.left = 1 => AllWhole(said))
      /\ Cardinality(Said(said, "tool")) = Cardinality(Said(h, "tool")) + 1
      /\ (InTime(h) /\ loop.round < MaxSteps - 1 => InTime(said))
  BY <1>2, <1>3, <1>4, <1>5, Answers
<1>7. ThisCall \in Nat \X Nat
  <2>1. Len(h) \in Nat /\ DOMAIN h = 1..Len(h)
    BY <1>3, LenProperties
  <2>2. a \in DOMAIN h /\ h[a] \in HistoryRows
    BY <1>2, <1>3, <2>1, ElementOfSeq DEF Said
  <2>3. h[a].ids \in Seq(Nat \X Nat)
    BY <2>2 DEF HistoryRows
  <2> DEFINE ids == h[a].ids
  <2>4. Len(ids) \in Nat /\ DOMAIN ids = 1..Len(ids) /\ \A i \in 1..Len(ids) : ids[i] \in Nat \X Nat
    BY <2>3, LenProperties, ElementOfSeq
  <2>5. loop.left \in 1..Len(ids)
    BY <1>2 DEF Underway
  <2> HIDE DEF ids
  <2>6. Len(ids) - loop.left + 1 \in 1..Len(ids)
    <3>1. \A w \in Nat : \A l \in 1..w : w - l + 1 \in 1..w
      OBVIOUS
    <3> QED BY <2>4, <2>5, <3>1
  <2> QED BY <1>5, <2>4, <2>6 DEF ids
<1>8. r.outcome = "none"
  BY <1>1 DEF GoesOn
<1>9. r.left # 0
  BY <1>6
<1>10. /\ more \in LoopRecords /\ more.history = said /\ more.trace = Append(loop.trace, row)
       /\ more.caller = r.caller /\ more.ran = r.ran /\ more.found = r.found /\ more.shown = r.shown
       /\ more.leaked = r.leaked /\ more.ticket = r.ticket /\ more.cited = r.cited
       /\ IF r.left # 1 THEN more.step = "calls" /\ more.left = r.left - 1 /\ more.round = r.round /\ more.outcome = "none"
          ELSE IF r.round + 1 = MaxSteps THEN more.step = "done" /\ more.outcome = "steps_exhausted"
          ELSE more.step = "ask" /\ more.outcome = "none"
  <2>1. r.step = "calls"
    OBVIOUS
  <2>2. Moved(r, name, ok, known)
    BY <1>7, <1>8, <1>9, <2>1, ProceedsIs
  <2> QED BY <2>2 DEF Moved
<1>11. Len(Append(loop.trace, row)) = Len(loop.trace) + 1
  <2>1. row \in TrailRows
    BY DEF TrailRows
  <2> HIDE DEF row
  <2> QED BY <1>3, <2>1, AppendProperties
<1>12. TrailHolds(Append(loop.trace, row), r.ran)
  OBVIOUS
<1> HIDE DEF h, row, said, more
<1>13. RunHolds(more)
  <2>1. more.cited \subseteq more.found /\ ~more.leaked
    BY <1>1, <1>10 DEF RunHolds
  <2>2. Private(more)
    BY <1>10 DEF Private
  <2> QED BY <1>3, <1>6, <1>10, <1>11, <1>12, <2>1, <2>2 DEF RunHolds
<1>14. ASSUME loop.round # MaxSteps - 1, ~r.ticket, \A i \in DOMAIN r.ran : r.ran[i].tool # "escalate"
       PROVE  LoopHolds(more)
  <2>1. loop.round < MaxSteps - 1 /\ r.round + 1 # MaxSteps
    BY <1>3, <1>4, <1>14
  <2>2. InTime(said)
    BY <1>1, <1>6, <2>1 DEF GoesOn, h
  <2>3. more.outcome = "none" => GoesOn(more)
    BY <1>10, <1>14, <2>2 DEF GoesOn
  <2>4. CASE r.left # 1
    <3>1. more.step = "calls" /\ more.left = loop.left - 1 /\ more.round = loop.round /\ more.outcome = "none"
      BY <1>10, <2>4
    <3>2. a \in Said(more.history, "assistant") /\ Underway(more.history, a, more.left, more.round)
      BY <1>6, <1>10, <2>4, <3>1
    <3> QED BY <1>13, <2>3, <3>1, <3>2 DEF LoopHolds
  <2>5. CASE r.left = 1
    <3>1. more.step = "ask" /\ more.outcome = "none"
      BY <1>10, <2>1, <2>5
    <3>2. AllWhole(more.history)
      BY <1>6, <1>10, <2>5
    <3> QED BY <1>13, <2>3, <3>1, <3>2 DEF LoopHolds
  <2> QED BY <2>4, <2>5
<1> QED BY <1>10, <1>13, <1>14 DEF more

\* The run with a call recorded as run.
LEMMA RanIs ==
    ASSUME LoopHolds(loop), loop.step = "calls", NEW r \in LoopRecords,
           r.step = loop.step, r.round = loop.round, r.history = loop.history, r.left = loop.left,
           r.trace = loop.trace, r.outcome = loop.outcome, r.caller = loop.caller, r.cited = loop.cited,
           r.ran = loop.ran, loop.found \subseteq r.found, ~r.leaked, Private(r),
           NEW name \in Names, NEW ok \in BOOLEAN
    PROVE  LET more == Ran(r, name, ok)
           IN /\ RunHolds(more) /\ more.ticket = r.ticket
              /\ more.ran = Append(loop.ran, [tool |-> name, ok |-> ok, at |-> Len(loop.trace) + 1])
              /\ loop.round # MaxSteps - 1 /\ ~r.ticket /\ name # "escalate" => LoopHolds(more)
<1> DEFINE mine == [tool |-> name, ok |-> ok, at |-> Len(r.trace) + 1]
           all == Append(loop.ran, mine)
           s == [r EXCEPT !.ran = all]
           more == Ran(r, name, ok)
<1>1. RunHolds(loop) /\ GoesOn(loop)
  BY DEF LoopHolds
<1>2. loop.trace \in Seq(TrailRows) /\ loop.ran \in Seq(RanRows) /\ TrailHolds(loop.trace, loop.ran)
  BY <1>1 DEF RunHolds, LoopRecords
<1>3. mine \in RanRows /\ mine.tool = name
  <2>1. Len(r.trace) \in Nat
    BY <1>2, LenProperties
  <2> QED BY <2>1 DEF RanRows
<1>4. TrailHolds(Append(loop.trace, [tool |-> name, ok |-> ok, known |-> TRUE]), all)
  BY <1>2, TrailGrows
<1>5. more = Proceeds(s, name, ok, TRUE)
  BY DEF Ran
<1> HIDE DEF mine
<1>6. /\ all \in Seq(RanRows) /\ Len(all) = Len(loop.ran) + 1 /\ all[Len(loop.ran) + 1] = mine
      /\ \A i \in 1..Len(loop.ran) : all[i] = loop.ran[i]
  BY <1>2, <1>3, AppendProperties
<1> HIDE DEF all
<1>7. /\ s \in LoopRecords /\ s.step = loop.step /\ s.round = loop.round /\ s.history = loop.history /\ s.left = loop.left
      /\ s.trace = loop.trace /\ s.outcome = loop.outcome /\ s.caller = loop.caller /\ s.cited = loop.cited
      /\ s.found = r.found /\ s.leaked = r.leaked /\ s.shown = r.shown /\ s.ticket = r.ticket /\ s.ran = all
  BY <1>6 DEF LoopRecords
<1> HIDE DEF s, more
<1>8. Private(s)
  BY <1>7 DEF Private
<1>9. /\ RunHolds(more) /\ more.ran = s.ran /\ more.ticket = s.ticket
      /\ (/\ loop.round # MaxSteps - 1 /\ ~s.ticket
          /\ \A i \in DOMAIN s.ran : s.ran[i].tool # "escalate") => LoopHolds(more)
  BY <1>4, <1>5, <1>7, <1>8, ResultKeeps
<1>10. name # "escalate" => \A i \in DOMAIN s.ran : s.ran[i].tool # "escalate"
  <2>1. /\ Len(loop.ran) \in Nat /\ DOMAIN loop.ran = 1..Len(loop.ran) /\ DOMAIN all = 1..(Len(loop.ran) + 1)
    BY <1>2, <1>6, LenProperties
  <2>2. \A i \in DOMAIN all : i \in 1..Len(loop.ran) \/ i = Len(loop.ran) + 1
    BY <2>1
  <2> QED BY <1>1, <1>3, <1>6, <1>7, <2>1, <2>2 DEF GoesOn
<1> QED BY <1>7, <1>9, <1>10 DEF more, all, mine

-----------------------------------------------------------------------------
(* The steps of the loop. *)

LEMMA RestingHolds == LoopHolds(Resting)
<1>1. Resting \in LoopRecords
  <2>1. MaxSteps \in Nat \ {0}
    BY AgentAssumption
  <2>2. <<>> \in Seq(HistoryRows) /\ <<>> \in Seq(TrailRows) /\ <<>> \in Seq(RanRows)
    BY EmptySeq
  <2>3. Nobody \in Speakers /\ 0 \in 0..(MaxSteps - 1)
    BY <2>1 DEF Speakers
  <2> QED BY <2>2, <2>3 DEF Resting, LoopRecords
<1>2. Said(<<>>, "tool") = {} /\ Said(<<>>, "assistant") = {}
  BY DEF Said
<1>3. Cardinality({}) = 0
  BY FS_EmptySet
<1>4. ResultsStand(<<>>) /\ InTime(<<>>) /\ TrailHolds(<<>>, <<>>)
  BY <1>2 DEF ResultsStand, InTime, TrailHolds
<1>5. RunHolds(Resting)
  BY <1>1, <1>2, <1>3, <1>4 DEF RunHolds, Resting, Private
<1>6. GoesOn(Resting)
  BY <1>4 DEF GoesOn, Resting
<1> QED BY <1>5, <1>6 DEF LoopHolds, Resting

\* A run that ends after what it did holds, unless it claims what it did not do.
LEMMA EndedHolds ==
    ASSUME NEW r, RunHolds(r), NEW outcome \in {"answered", "staged", "budget_exhausted", "steps_exhausted", "handoff", "handoff_failed"}
    PROVE  LET over == Ended(r, outcome)
           IN /\ RunHolds(over) /\ over.step = "done" /\ over.outcome = outcome
              /\ over.ran = r.ran /\ over.ticket = r.ticket /\ over.history = r.history
              /\ over.found = r.found
<1> DEFINE over == Ended(r, outcome)
<1>1. r \in LoopRecords
  BY DEF RunHolds
<1>2. /\ over \in LoopRecords /\ over.step = "done" /\ over.outcome = outcome
      /\ over.ran = r.ran /\ over.ticket = r.ticket /\ over.history = r.history
      /\ over.found = r.found /\ over.trace = r.trace /\ over.leaked = r.leaked
      /\ over.cited = r.cited /\ over.caller = r.caller /\ over.shown = r.shown
  BY <1>1 DEF Ended, LoopRecords
<1> HIDE DEF over
<1>3. RunHolds(over)
  BY <1>2 DEF RunHolds, Private
<1> QED BY <1>2, <1>3 DEF over

LEMMA EndingHolds ==
    ASSUME LoopHolds(loop), loop.step \in {"ask", "calls"},
           NEW outcome \in {"answered", "staged", "budget_exhausted", "steps_exhausted"}
    PROVE  LoopHolds(Ended(loop, outcome))
<1> DEFINE over == Ended(loop, outcome)
<1>1. RunHolds(loop) /\ GoesOn(loop)
  BY DEF LoopHolds
<1>2. /\ RunHolds(over) /\ over.step = "done" /\ over.outcome = outcome
      /\ over.ran = loop.ran /\ over.ticket = loop.ticket /\ over.history = loop.history
  BY <1>1, EndedHolds
<1> HIDE DEF over
<1>3. InTime(over.history) /\ ~over.ticket /\ over.outcome # "handoff" /\ \A i \in DOMAIN over.ran : over.ran[i].tool # "escalate"
  BY <1>1, <1>2 DEF GoesOn
<1>4. LoopHolds(over)
  BY <1>2, <1>3 DEF LoopHolds
<1> QED BY <1>4 DEF over

LEMMA BeginRunKeeps ==
    ASSUME LoopHolds(loop), NEW caller \in Speakers, NEW session \in BOOLEAN, BeginRun(caller, session)
    PROVE  LoopHolds(loop')
<1> DEFINE l == [Resting EXCEPT !.step = "ask", !.caller = caller, !.session = session]
<1>1. loop' = l
  BY DEF BeginRun
<1>2. RunHolds(Resting) /\ GoesOn(Resting)
  BY RestingHolds DEF LoopHolds, Resting
<1>3. Resting \in LoopRecords
  BY <1>2 DEF RunHolds
<1>4. /\ l \in LoopRecords /\ l.step = "ask" /\ l.outcome = Resting.outcome /\ l.ran = Resting.ran
      /\ l.ticket = Resting.ticket /\ l.history = <<>> /\ Resting.history = <<>>
      /\ l.found = Resting.found /\ l.trace = Resting.trace /\ l.leaked = Resting.leaked
      /\ l.cited = Resting.cited /\ l.shown = {}
  BY <1>3 DEF LoopRecords, Resting
<1> HIDE DEF l
<1>5. Said(<<>>, "assistant") = {}
  BY DEF Said
<1>6. AllWhole(l.history)
  BY <1>4, <1>5 DEF AllWhole
<1>7. RunHolds(l)
  BY <1>2, <1>4 DEF RunHolds, Private
<1>8. GoesOn(l)
  BY <1>2, <1>4 DEF GoesOn
<1>9. LoopHolds(l)
  BY <1>4, <1>6, <1>7, <1>8 DEF LoopHolds
<1> QED BY <1>1, <1>9

LEMMA FinalAnswerKeeps ==
    ASSUME LoopHolds(loop), NEW content \in BOOLEAN, FinalAnswer(content)
    PROVE  LoopHolds(loop')
<1> DEFINE over == Ended(loop, "answered")
           cited == IF content THEN loop.found ELSE {}
           l == [over EXCEPT !.cited = cited]
<1>1. loop' = l /\ loop.step = "ask"
  BY DEF FinalAnswer
<1>2. LoopHolds(over)
  BY <1>1, EndingHolds
<1>3. over.step = "done" /\ over.found = loop.found /\ RunHolds(loop)
  BY <1>1, EndedHolds DEF LoopHolds
<1>4. over \in LoopRecords /\ loop \in LoopRecords
  BY <1>2, <1>3 DEF LoopHolds, RunHolds
<1>5. cited \subseteq Passages /\ cited \subseteq over.found
  BY <1>3, <1>4 DEF LoopRecords
<1> HIDE DEF over, cited
<1>6. /\ l \in LoopRecords /\ l.step = "done" /\ l.outcome = over.outcome /\ l.ran = over.ran
      /\ l.ticket = over.ticket /\ l.history = over.history /\ l.found = over.found /\ l.trace = over.trace
      /\ l.leaked = over.leaked /\ l.cited = cited /\ l.caller = over.caller /\ l.shown = over.shown
  BY <1>3, <1>4, <1>5 DEF LoopRecords
<1> HIDE DEF l
<1>7. RunHolds(l)
  BY <1>2, <1>5, <1>6 DEF LoopHolds, RunHolds, Private
<1>8. LoopHolds(l)
  BY <1>2, <1>3, <1>6, <1>7 DEF LoopHolds
<1> QED BY <1>1, <1>8

LEMMA RequestKeeps ==
    ASSUME LoopHolds(loop), NEW n \in 1..MaxBurst, Request(n)
    PROVE  LoopHolds(loop')
<1> DEFINE ids == NamesOf(n)
           h == Append(loop.history, Asking(ids))
           l == [loop EXCEPT !.step = "calls", !.left = n, !.history = h]
<1>1. loop' = l /\ loop.step = "ask"
  BY DEF Request
<1>2. RunHolds(loop) /\ GoesOn(loop) /\ AllWhole(loop.history) /\ loop \in LoopRecords
  BY <1>1 DEF LoopHolds, RunHolds
<1>3. loop.round \in Nat /\ n \in Nat \ {0} /\ loop.history \in Seq(HistoryRows) /\ ResultsStand(loop.history)
  <2>1. MaxSteps \in Nat \ {0} /\ MaxBurst \in Nat \ {0}
    BY AgentAssumption
  <2>2. loop.round \in 0..(MaxSteps - 1) /\ loop.history \in Seq(HistoryRows)
    BY <1>2 DEF LoopRecords
  <2> QED BY <1>2, <2>1, <2>2 DEF RunHolds
<1>4. ids \in Seq(Nat \X Nat) /\ Len(ids) = n /\ \A j \in 1..n : ids[j] = <<loop.round, j>>
  <2>1. \A j \in 1..n : <<loop.round, j>> \in Nat \X Nat
    BY <1>3
  <2>2. ids = [j \in 1..n |-> <<loop.round, j>>]
    BY DEF NamesOf
  <2>3. [j \in 1..n |-> <<loop.round, j>>] \in Seq(Nat \X Nat)
    BY <1>3, <2>1, IsASeq
  <2> HIDE DEF ids
  <2>4. DOMAIN ids = 1..n /\ ids \in Seq(Nat \X Nat)
    BY <2>2, <2>3
  <2>5. Len(ids) = n
    BY <1>3, <2>4, LenProperties
  <2> QED BY <2>2, <2>4, <2>5
<1> HIDE DEF ids
<1>5. /\ h \in Seq(HistoryRows) /\ ResultsStand(h)
      /\ Len(loop.history) + 1 \in Said(h, "assistant") /\ Underway(h, Len(loop.history) + 1, n, loop.round)
      /\ Said(h, "tool") = Said(loop.history, "tool") /\ (InTime(loop.history) => InTime(h))
  <2>1. Asked(loop.history, n, loop.round, ids)
    BY <1>2, <1>3, <1>4, AsksAgain
  <2> QED BY <2>1 DEF Asked
<1> HIDE DEF h
<1>6. /\ l \in LoopRecords /\ l.step = "calls" /\ l.left = n /\ l.history = h /\ l.round = loop.round
      /\ l.outcome = loop.outcome /\ l.ran = loop.ran
      /\ l.ticket = loop.ticket /\ l.found = loop.found /\ l.trace = loop.trace
      /\ l.leaked = loop.leaked /\ l.cited = loop.cited /\ l.caller = loop.caller /\ l.shown = loop.shown
  BY <1>2, <1>3, <1>5 DEF LoopRecords
<1> HIDE DEF l
<1>7. RunHolds(l)
  BY <1>2, <1>5, <1>6 DEF RunHolds, Private
<1>8. GoesOn(l)
  BY <1>2, <1>5, <1>6 DEF GoesOn
<1>9. LoopHolds(l)
  BY <1>5, <1>6, <1>7, <1>8 DEF LoopHolds
<1> QED BY <1>1, <1>9

LEMMA CallIs ==
    ASSUME NEW call \in Requests, NEW name, Runs(call, name), LoopHolds(loop)
    PROVE  /\ loop.step = "calls" /\ call.name = name /\ (name # "escalate" => loop.round # MaxSteps - 1)
           /\ RunHolds(loop) /\ loop \in LoopRecords /\ ~loop.leaked /\ Private(loop) /\ ~loop.ticket
           /\ call.about \in Orders \cup {NoOrder} /\ loop.caller \in Speakers /\ name \in Names \cup {"invented"}
           /\ ToolNamed(name) # NoTool /\ ~ToolNamed(name).gated
<1>1. loop.step = "calls" /\ call.name = name /\ ~TooLate(name) /\ ToolNamed(name) # NoTool /\ ~ToolNamed(name).gated
  BY DEF Runs
<1>2. RunHolds(loop) /\ GoesOn(loop)
  BY <1>1 DEF LoopHolds
<1>3. call.about \in Orders \cup {NoOrder} /\ call.name \in Names \cup {"invented"}
  BY DEF Requests, Calls
<1>4. loop \in LoopRecords /\ loop.caller \in Speakers
  BY <1>2 DEF RunHolds, LoopRecords
<1> QED BY <1>1, <1>2, <1>3, <1>4 DEF RunHolds, GoesOn, TooLate

LEMMA KnownNames == {"refund", "order", "complaint", "recent", "search", "escalate"} \subseteq Names
<1>1. /\ BuiltIn[1].name = "refund" /\ BuiltIn[2].name = "order" /\ BuiltIn[3].name = "complaint"
      /\ BuiltIn[4].name = "recent" /\ BuiltIn[5].name = "search" /\ BuiltIn[6].name = "escalate"
  BY DEF BuiltIn, Local
<1>2. \A i \in 1..6 : BuiltIn[i].name \in Names
  BY BuiltInsAre
<1> HIDE DEF BuiltIn
<1> QED BY <1>1, <1>2

LEMMA RunOrderKeeps ==
    ASSUME LoopHolds(loop), NEW call \in Requests, RunOrder(call)
    PROVE  LoopHolds(loop')
<1> DEFINE ok == OwnedOrder(call.about, Identity(call))
           seen == IF ok THEN loop.shown \cup {call.about} ELSE loop.shown
           r == [loop EXCEPT !.shown = seen]
<1>1. Runs(call, "order") /\ loop' = Ran(r, "order", ok)
  BY DEF RunOrder
<1>2. /\ loop.step = "calls" /\ loop.round # MaxSteps - 1
      /\ loop \in LoopRecords /\ ~loop.leaked /\ Private(loop) /\ ~loop.ticket
      /\ call.about \in Orders \cup {NoOrder} /\ loop.caller \in Speakers
  BY <1>1, CallIs
<1>3. ok \in BOOLEAN /\ (ok => call.about \in Orders /\ (loop.caller = Nobody \/ OwnerOf[call.about] = loop.caller))
  BY <1>2 DEF OwnedOrder, Identity
<1> HIDE DEF ok
<1>4. seen \subseteq Orders /\ (loop.caller # Nobody => \A o \in seen : OwnerOf[o] = loop.caller)
  <2>1. loop.shown \subseteq Orders
    BY <1>2 DEF LoopRecords
  <2> QED BY <1>2, <1>3, <2>1 DEF Private
<1> HIDE DEF seen
<1>5. /\ r \in LoopRecords /\ r.step = loop.step /\ r.round = loop.round /\ r.history = loop.history /\ r.left = loop.left
      /\ r.trace = loop.trace /\ r.outcome = loop.outcome /\ r.caller = loop.caller /\ r.cited = loop.cited
      /\ r.ran = loop.ran /\ r.found = loop.found /\ r.leaked = loop.leaked /\ r.ticket = loop.ticket /\ r.shown = seen
  BY <1>2, <1>4 DEF LoopRecords
<1> HIDE DEF r
<1>6. Private(r)
  BY <1>4, <1>5 DEF Private
<1>7. "order" \in Names /\ "order" # "escalate"
  BY KnownNames
<1>8. LoopHolds(Ran(r, "order", ok))
  BY <1>2, <1>3, <1>5, <1>6, <1>7, RanIs
<1> QED BY <1>1, <1>8

LEMMA RunRecentKeeps ==
    ASSUME LoopHolds(loop), NEW call \in Requests, RunRecent(call)
    PROVE  LoopHolds(loop')
<1> DEFINE seen == loop.shown \cup {o \in Orders : OwnerOf[o] = Identity(call)}
           r == [loop EXCEPT !.shown = seen]
<1>1. Runs(call, "recent") /\ loop' = Ran(r, "recent", TRUE)
  BY DEF RunRecent
<1>2. /\ loop.step = "calls" /\ loop.round # MaxSteps - 1
      /\ loop \in LoopRecords /\ ~loop.leaked /\ Private(loop) /\ ~loop.ticket /\ loop.caller \in Speakers
  BY <1>1, CallIs
<1>4. seen \subseteq Orders /\ (loop.caller # Nobody => \A o \in seen : OwnerOf[o] = loop.caller)
  <2>1. loop.shown \subseteq Orders
    BY <1>2 DEF LoopRecords
  <2> QED BY <1>2, <2>1 DEF Private, Identity
<1> HIDE DEF seen
<1>5. /\ r \in LoopRecords /\ r.step = loop.step /\ r.round = loop.round /\ r.history = loop.history /\ r.left = loop.left
      /\ r.trace = loop.trace /\ r.outcome = loop.outcome /\ r.caller = loop.caller /\ r.cited = loop.cited
      /\ r.ran = loop.ran /\ r.found = loop.found /\ r.leaked = loop.leaked /\ r.ticket = loop.ticket /\ r.shown = seen
  BY <1>2, <1>4 DEF LoopRecords
<1> HIDE DEF r
<1>6. Private(r)
  BY <1>4, <1>5 DEF Private
<1>7. "recent" \in Names /\ "recent" # "escalate"
  BY KnownNames
<1>8. LoopHolds(Ran(r, "recent", TRUE))
  BY <1>2, <1>5, <1>6, <1>7, RanIs
<1> QED BY <1>1, <1>8

LEMMA RunComplaintKeeps ==
    ASSUME LoopHolds(loop), NEW call \in Requests, RunComplaint(call)
    PROVE  LoopHolds(loop')
<1>1. Runs(call, "complaint") /\ loop' = Ran(loop, "complaint", TRUE)
  BY DEF RunComplaint
<1>2. /\ loop.step = "calls" /\ loop.round # MaxSteps - 1
      /\ loop \in LoopRecords /\ ~loop.leaked /\ Private(loop) /\ ~loop.ticket
  BY <1>1, CallIs
<1>3. "complaint" \in Names /\ "complaint" # "escalate"
  BY KnownNames
<1>4. LoopHolds(Ran(loop, "complaint", TRUE))
  BY <1>2, <1>3, RanIs
<1> QED BY <1>1, <1>4

LEMMA RunSearchKeeps ==
    ASSUME LoopHolds(loop), NEW call \in Requests, NEW hits \in SUBSET Passages, RunSearch(call, hits)
    PROVE  LoopHolds(loop')
<1> DEFINE all == loop.found \cup hits
           r == [loop EXCEPT !.found = all]
<1>1. Runs(call, "search") /\ loop' = Ran(r, "search", TRUE)
  BY DEF RunSearch
<1>2. /\ loop.step = "calls" /\ loop.round # MaxSteps - 1
      /\ loop \in LoopRecords /\ ~loop.leaked /\ Private(loop) /\ ~loop.ticket
  BY <1>1, CallIs
<1>3. all \subseteq Passages /\ loop.found \subseteq all
  BY <1>2 DEF LoopRecords
<1> HIDE DEF all
<1>5. /\ r \in LoopRecords /\ r.step = loop.step /\ r.round = loop.round /\ r.history = loop.history /\ r.left = loop.left
      /\ r.trace = loop.trace /\ r.outcome = loop.outcome /\ r.caller = loop.caller /\ r.cited = loop.cited
      /\ r.ran = loop.ran /\ r.shown = loop.shown /\ r.leaked = loop.leaked /\ r.ticket = loop.ticket /\ r.found = all
  BY <1>2, <1>3 DEF LoopRecords
<1> HIDE DEF r
<1>6. Private(r)
  BY <1>2, <1>5 DEF Private
<1>7. "search" \in Names /\ "search" # "escalate"
  BY KnownNames
<1>8. LoopHolds(Ran(r, "search", TRUE))
  BY <1>2, <1>3, <1>5, <1>6, <1>7, RanIs
<1> QED BY <1>1, <1>8

LEMMA RunRemoteKeeps ==
    ASSUME LoopHolds(loop), RegistryHolds, NEW call \in Requests, NEW answered \in BOOLEAN, RunRemote(call, answered)
    PROVE  LoopHolds(loop') /\ departed' = departed
<1> DEFINE out == loop.leaked \/ Stripped(Identity(call)) # Nobody
           r == [loop EXCEPT !.leaked = out]
<1>1. ToolNamed(call.name).remote /\ Runs(call, call.name) /\ loop' = Ran(r, call.name, answered)
  BY DEF RunRemote
<1>2. /\ loop.step = "calls" /\ (call.name # "escalate" => loop.round # MaxSteps - 1)
      /\ loop \in LoopRecords /\ ~loop.leaked /\ Private(loop) /\ ~loop.ticket
      /\ ToolNamed(call.name) # NoTool /\ ~ToolNamed(call.name).gated
  BY <1>1, CallIs
<1>3. call.name \notin Writers /\ call.name # "escalate"
  BY <1>1, <1>2, RegistryGuards
<1>4. out = FALSE
  BY <1>2 DEF Stripped
<1> HIDE DEF out
<1>5. /\ r \in LoopRecords /\ r.step = loop.step /\ r.round = loop.round /\ r.history = loop.history /\ r.left = loop.left
      /\ r.trace = loop.trace /\ r.outcome = loop.outcome /\ r.caller = loop.caller /\ r.cited = loop.cited
      /\ r.ran = loop.ran /\ r.shown = loop.shown /\ ~r.leaked /\ r.ticket = loop.ticket /\ r.found = loop.found
  BY <1>2, <1>4 DEF LoopRecords
<1> HIDE DEF r
<1>6. Private(r)
  BY <1>2, <1>5 DEF Private
<1>7. call.name \in Names
  <2>1. PICK i \in DOMAIN tools : tools[i].name = call.name
    BY <1>2, NamedIs
  <2>2. tools[i] \in ToolSet
    <3>1. tools \in Seq(ToolSet)
      BY DEF RegistryHolds
    <3>2. DOMAIN tools = 1..Len(tools)
      BY <3>1, LenProperties
    <3> QED BY <3>1, <3>2, ElementOfSeq
  <2> QED BY <2>1, <2>2 DEF ToolSet
<1>8. LoopHolds(Ran(r, call.name, answered))
  BY <1>2, <1>3, <1>5, <1>6, <1>7, RanIs
<1>9. departed' = departed
  BY <1>3 DEF RunRemote
<1> QED BY <1>1, <1>8, <1>9

LEMMA RunEscalateKeeps ==
    ASSUME LoopHolds(loop), NEW call \in Requests, NEW opened \in BOOLEAN, RunEscalate(call, opened)
    PROVE  LoopHolds(loop')
<1> DEFINE ticket == loop.ticket \/ opened
           r == [loop EXCEPT !.ticket = ticket]
           mine == [tool |-> "escalate", ok |-> opened, at |-> Len(loop.trace) + 1]
           ran == Ran(r, "escalate", opened)
           outcome == IF opened THEN "handoff" ELSE "handoff_failed"
           over == Ended(ran, outcome)
<1>1. Runs(call, "escalate") /\ loop' = over
  BY DEF RunEscalate, HandedOver
<1>2. /\ loop.step = "calls" /\ loop \in LoopRecords /\ ~loop.leaked /\ Private(loop) /\ ~loop.ticket /\ RunHolds(loop)
      /\ GoesOn(loop)
  BY <1>1, CallIs DEF LoopHolds
<1>3. ticket = opened
  BY <1>2
<1> HIDE DEF ticket
<1>4. /\ r \in LoopRecords /\ r.step = loop.step /\ r.round = loop.round /\ r.history = loop.history /\ r.left = loop.left
      /\ r.trace = loop.trace /\ r.outcome = loop.outcome /\ r.caller = loop.caller /\ r.cited = loop.cited
      /\ r.ran = loop.ran /\ r.shown = loop.shown /\ ~r.leaked /\ r.ticket = opened /\ r.found = loop.found
  BY <1>2, <1>3 DEF LoopRecords
<1> HIDE DEF r
<1>5. Private(r)
  BY <1>2, <1>4 DEF Private
<1>6. "escalate" \in Names
  BY KnownNames
<1>7. /\ RunHolds(ran) /\ ran.ticket = r.ticket /\ ran.ran = Append(loop.ran, mine)
  BY <1>2, <1>4, <1>5, <1>6, RanIs
<1> HIDE DEF ran
<1>8. outcome \in {"handoff", "handoff_failed"} /\ (outcome = "handoff" <=> opened)
  OBVIOUS
<1> HIDE DEF outcome
<1>9. /\ RunHolds(over) /\ over.step = "done" /\ over.outcome = outcome
      /\ over.ran = ran.ran /\ over.ticket = ran.ticket
  BY <1>7, <1>8, EndedHolds
<1> HIDE DEF over
<1>10. \A i \in DOMAIN over.ran : over.ran[i].tool = "escalate" => i = Len(over.ran)
  <2>1. loop.ran \in Seq(RanRows) /\ loop.trace \in Seq(TrailRows)
    BY <1>2 DEF LoopRecords
  <2>2. mine \in RanRows
    <3>1. Len(loop.trace) \in Nat
      BY <2>1, LenProperties
    <3> QED BY <1>6, <3>1 DEF RanRows
  <2> HIDE DEF mine
  <2>3. /\ Len(over.ran) = Len(loop.ran) + 1 /\ \A i \in 1..Len(loop.ran) : over.ran[i] = loop.ran[i]
        /\ over.ran \in Seq(RanRows)
    BY <1>7, <1>9, <2>1, <2>2, AppendProperties
  <2>4. Len(loop.ran) \in Nat /\ DOMAIN loop.ran = 1..Len(loop.ran) /\ DOMAIN over.ran = 1..(Len(loop.ran) + 1)
    BY <2>1, <2>3, LenProperties
  <2>5. \A i \in DOMAIN over.ran : i \in 1..Len(loop.ran) \/ i = Len(over.ran)
    BY <2>3, <2>4
  <2> QED BY <1>2, <2>3, <2>4, <2>5 DEF GoesOn
<1>11. over.outcome = "handoff" <=> over.ticket
  BY <1>4, <1>7, <1>8, <1>9
<1>12. over.outcome # "steps_exhausted"
  BY <1>8, <1>9
<1>13. LoopHolds(over)
  BY <1>9, <1>10, <1>11, <1>12 DEF LoopHolds
<1> QED BY <1>1, <1>13

LEMMA UnknownKeeps ==
    ASSUME LoopHolds(loop), RegistryHolds, NEW call \in Requests, Unknown(call)
    PROVE  LoopHolds(loop')
<1>1. loop.step = "calls" /\ ~TooLate(call.name) /\ ToolNamed(call.name) = NoTool /\ loop' = Proceeds(loop, call.name, FALSE, FALSE)
  BY DEF Unknown, UnknownTold
<1>2. RunHolds(loop) /\ GoesOn(loop) /\ call.name \in Names \cup {"invented"}
  BY <1>1 DEF LoopHolds, Requests, Calls
<1>3. call.name # "escalate"
  <2>1. tools \in Seq(ToolSet) /\ Len(tools) >= 6 /\ tools[6].name = "escalate"
    BY BuiltInsAre DEF RegistryHolds
  <2>2. 6 \in DOMAIN tools
    BY <2>1, LenProperties
  <2> QED BY <1>1, <2>1, <2>2, NamedIs
<1>4. loop.round # MaxSteps - 1
  BY <1>1, <1>3 DEF TooLate
<1>5. /\ loop \in LoopRecords /\ ~loop.leaked /\ Private(loop) /\ ~loop.ticket
      /\ loop.trace \in Seq(TrailRows) /\ loop.ran \in Seq(RanRows) /\ TrailHolds(loop.trace, loop.ran)
      /\ \A i \in DOMAIN loop.ran : loop.ran[i].tool # "escalate"
  BY <1>2 DEF RunHolds, GoesOn, LoopRecords
<1>6. TrailHolds(Append(loop.trace, [tool |-> call.name, ok |-> FALSE, known |-> FALSE]), loop.ran)
  BY <1>2, <1>5, TrailGrows
<1>7. FALSE \in BOOLEAN /\ loop.found \subseteq loop.found
  OBVIOUS
<1>8. LoopHolds(Proceeds(loop, call.name, FALSE, FALSE))
  BY <1>1, <1>2, <1>4, <1>5, <1>6, <1>7, ResultKeeps
<1> QED BY <1>1, <1>8

LEMMA AgentBegins == AgentInit => AgentInv
<1> SUFFICES ASSUME AgentInit PROVE AgentInv
  OBVIOUS
<1>1. RegistryHolds
  BY RegistryBegins
<1>2. LoopHolds(loop)
  BY RestingHolds DEF AgentInit
<1>3. ActsHold
  BY DEF AgentInit, ActsHold
<1> QED BY <1>1, <1>2, <1>3 DEF AgentInv

LEMMA AgentStep == AgentInv /\ [AgentNext]_agentVars => AgentInv'
<1> SUFFICES ASSUME AgentInv, [AgentNext]_agentVars PROVE AgentInv'
  OBVIOUS
<1>1. RegistryHolds /\ LoopHolds(loop) /\ ActsHold
  BY DEF AgentInv
<1> USE <1>1
<1>2. LoopHolds(loop') /\ RegistryHolds' /\ ActsHold' => AgentInv'
  BY DEF AgentInv, LoopHolds, RunHolds, LoopRecords, GoesOn
\* A step inside a run leaves the registry and what left the process alone.
<1>3. ASSUME LoopHolds(loop'), UNCHANGED <<durable, entries, tools, proposals, departed, paid>>, pending' = pending
      PROVE  AgentInv'
  BY <1>2, <1>3, RegistryStays, ActsStay
<1>4. CASE LoadEntry
  <2>1. RegistryHolds'
    BY <1>4, LoadEntryKeeps
  <2>2. UNCHANGED <<durable, loop, pending, proposals, departed, paid>>
    BY <1>4 DEF LoadEntry
  <2> QED BY <1>2, <2>1, <2>2, ActsStay
<1>5. CASE Told
  <2>1. loop' = Resting /\ UNCHANGED <<durable, entries, tools, proposals, departed, paid>> /\ pending' = pending
    BY <1>5 DEF Told
  <2> QED BY <1>3, <2>1, RestingHolds
<1>6. CASE Decline
  <2>1. pending' = NoAction /\ UNCHANGED <<durable, entries, tools, loop, proposals, departed, paid>>
    BY <1>6 DEF Decline
  <2> QED BY <1>2, <2>1, RegistryStays, ActsStay
<1>7. ASSUME NEW caller \in Speakers, NEW session \in BOOLEAN, BeginRun(caller, session)
      PROVE  AgentInv'
  <2>1. UNCHANGED <<durable, entries, tools, proposals, departed, paid>> /\ pending' = pending
    BY <1>7 DEF BeginRun
  <2> QED BY <1>3, <1>7, <2>1, BeginRunKeeps
<1>8. ASSUME NEW content \in BOOLEAN, FinalAnswer(content)
      PROVE  AgentInv'
  <2>1. UNCHANGED <<durable, entries, tools, proposals, departed, paid>> /\ pending' = pending
    BY <1>8 DEF FinalAnswer
  <2> QED BY <1>3, <1>8, <2>1, FinalAnswerKeeps
<1>9. ASSUME NEW n \in 1..MaxBurst, Request(n)
      PROVE  AgentInv'
  <2>1. UNCHANGED <<durable, entries, tools, proposals, departed, paid>> /\ pending' = pending
    BY <1>9 DEF Request
  <2> QED BY <1>3, <1>9, <2>1, RequestKeeps
<1>10. ASSUME NEW spent \in BOOLEAN, ModelFails(spent)
       PROVE  AgentInv'
  <2>1. UNCHANGED <<durable, entries, tools, proposals, departed, paid>> /\ pending' = pending
    BY <1>10 DEF ModelFails
  <2>2. loop.step = "ask" /\ loop' = IF spent THEN Ended(loop, "budget_exhausted") ELSE Resting
    BY <1>10 DEF ModelFails
  <2>3. LoopHolds(Ended(loop, "budget_exhausted"))
    BY <2>2, EndingHolds
  <2>4. LoopHolds(loop')
    BY <2>2, <2>3, RestingHolds
  <2> QED BY <1>3, <2>1, <2>4
<1>11. ASSUME NEW lang \in {"zh", "en"}, NEW known \in BOOLEAN, Confirm(lang, known)
       PROVE  AgentInv'
  <2>1. UNCHANGED <<entries, tools, loop>>
    BY <1>11 DEF Confirm
  <2>2. ActsHold'
    BY <1>11, ConfirmKeeps
  <2> QED BY <1>2, <2>1, <2>2, RegistryStays
<1>12. ASSUME NEW call \in Requests, Handle(call)
       PROVE  AgentInv'
  <2>1. ASSUME NEW name, Runs(call, name)
        PROVE  UNCHANGED <<durable, entries, tools, proposals, paid>> /\ pending' = pending
    BY <2>1 DEF Runs
  <2>2. CASE CutOff(call)
    <3>1. /\ loop.step = "calls" /\ loop' = Ended(loop, "steps_exhausted")
          /\ UNCHANGED <<durable, entries, tools, proposals, departed, paid>> /\ pending' = pending
      BY <2>2 DEF CutOff
    <3>2. LoopHolds(Ended(loop, "steps_exhausted"))
      BY <3>1, EndingHolds
    <3> QED BY <1>3, <3>1, <3>2
  <2>3. CASE StageCall(call)
    <3>1. loop.step = "calls" /\ loop' = Ended(loop, "staged") /\ UNCHANGED <<entries, tools>>
      BY <2>3 DEF StageCall, StagedResult
    <3>2. LoopHolds(Ended(loop, "staged"))
      BY <3>1, EndingHolds
    <3>3. ActsHold'
      BY <2>3, StageActs
    <3> QED BY <1>2, <3>1, <3>2, <3>3, RegistryStays
  <2>4. CASE Unknown(call)
    <3>1. UNCHANGED <<durable, entries, tools, proposals, departed, paid>> /\ pending' = pending
      BY <2>4 DEF Unknown
    <3> QED BY <1>3, <2>4, <3>1, UnknownKeeps
  <2>5. CASE RunOrder(call)
    <3>1. Runs(call, "order") /\ departed' = departed
      BY <2>5 DEF RunOrder
    <3> QED BY <1>3, <2>1, <2>5, <3>1, RunOrderKeeps
  <2>6. CASE RunRecent(call)
    <3>1. Runs(call, "recent") /\ departed' = departed
      BY <2>6 DEF RunRecent
    <3> QED BY <1>3, <2>1, <2>6, <3>1, RunRecentKeeps
  <2>7. CASE RunComplaint(call)
    <3>1. Runs(call, "complaint") /\ departed' = departed
      BY <2>7 DEF RunComplaint
    <3> QED BY <1>3, <2>1, <2>7, <3>1, RunComplaintKeeps
  <2>8. ASSUME NEW hits \in SUBSET Passages, RunSearch(call, hits)
        PROVE  AgentInv'
    <3>1. Runs(call, "search") /\ departed' = departed
      BY <2>8 DEF RunSearch
    <3> QED BY <1>3, <2>1, <2>8, <3>1, RunSearchKeeps
  <2>9. ASSUME NEW opened \in BOOLEAN, RunEscalate(call, opened)
        PROVE  AgentInv'
    <3>1. Runs(call, "escalate") /\ departed' = departed
      BY <2>9 DEF RunEscalate
    <3> QED BY <1>3, <2>1, <2>9, <3>1, RunEscalateKeeps
  <2>10. ASSUME NEW answered \in BOOLEAN, RunRemote(call, answered)
         PROVE  AgentInv'
    <3>1. Runs(call, call.name)
      BY <2>10 DEF RunRemote
    <3>2. LoopHolds(loop') /\ departed' = departed
      BY <2>10, RunRemoteKeeps
    <3> QED BY <1>3, <2>1, <3>1, <3>2
  <2> QED BY <1>12, <2>2, <2>3, <2>4, <2>5, <2>6, <2>7, <2>8, <2>9, <2>10 DEF Handle
<1>13. CASE UNCHANGED agentVars
  <2>1. UNCHANGED <<durable, entries, tools, loop, proposals, departed, paid>> /\ pending' = pending
    BY <1>13 DEF agentVars
  <2> QED BY <1>3, <2>1
<1> QED BY <1>4, <1>5, <1>6, <1>7, <1>8, <1>9, <1>10, <1>11, <1>12, <1>13 DEF AgentNext

\* The registry, the run and what left the process are as described above in
\* every state of the agent loop (AgentService._run and the ToolRegistry).
THEOREM AgentInvariant == AgentSpec => []AgentInv
<1>1. AgentInit => AgentInv
  BY AgentBegins
<1>2. AgentInv /\ [AgentNext]_agentVars => AgentInv'
  BY AgentStep
<1> QED BY <1>1, <1>2, PTL DEF AgentSpec

LEMMA AgentImplies == AgentInv => AgentRunsAreOrderly
<1> SUFFICES ASSUME AgentInv PROVE AgentRunsAreOrderly
  OBVIOUS
<1> DEFINE h == loop.history
<1>1. RegistryHolds /\ LoopHolds(loop) /\ ActsHold /\ RunHolds(loop)
  BY DEF AgentInv, LoopHolds
<1>2. \A role : Spoken(role) = Said(h, role)
  BY DEF Spoken, Said
<1>3. h \in Seq(HistoryRows) /\ loop.step \in {"idle", "ask", "calls", "done"}
  BY <1>1 DEF RunHolds, LoopRecords
<1> HIDE DEF h
<1>4. Len(h) \in Nat /\ DOMAIN h = 1..Len(h)
  BY <1>3, LenProperties
<1>5. \A i \in DOMAIN h : Len(h[i].ids) \in Nat /\ DOMAIN h[i].ids = 1..Len(h[i].ids)
  <2>1. \A i \in DOMAIN h : h[i] \in HistoryRows
    BY <1>3, <1>4, ElementOfSeq
  <2>2. \A i \in DOMAIN h : h[i].ids \in Seq(Nat \X Nat)
    BY <2>1 DEF HistoryRows
  <2> QED BY <2>2, LenProperties
<1>6. HistoryIsComplete
  <2> SUFFICES ASSUME loop.step = "ask" PROVE HistoryIsComplete
    BY DEF HistoryIsComplete
  <2>1. AllWhole(h) /\ ResultsStand(h)
    BY <1>1 DEF LoopHolds, RunHolds, h
  <2>2. ASSUME NEW i \in Said(h, "assistant"), NEW j \in DOMAIN h[i].ids
        PROVE  i + j \in DOMAIN h /\ h[i + j] = Answering(h[i].ids[j])
    <3> DEFINE wide == Len(h[i].ids)
    <3>1. i \in 1..Len(h)
      BY <1>4 DEF Said
    <3>2. wide \in Nat /\ j \in 1..wide /\ i + wide <= Len(h)
      BY <1>4, <1>5, <2>1, <3>1 DEF AllWhole, Whole
    <3> HIDE DEF wide
    <3>3. i + j \in DOMAIN h
      BY <1>4, <3>1, <3>2
    <3> QED BY <2>1, <3>3 DEF ResultsStand
  <2>3. \A k \in Said(h, "tool") : \E i \in Said(h, "assistant") : i < k /\ k - i \in DOMAIN h[i].ids
    BY <2>1 DEF ResultsStand
  <2> QED BY <1>2, <2>2, <2>3 DEF HistoryIsComplete, h
<1>7. TrailIsTrue
  BY <1>1 DEF RunHolds, TrailHolds, TrailIsTrue
<1>8. HandingOverIsLast
  <2>1. loop.step # "done" => GoesOn(loop)
    BY <1>1, <1>3 DEF LoopHolds
  <2>2. loop.step = "done" => /\ (loop.outcome = "handoff" <=> loop.ticket)
                              /\ (loop.outcome = "steps_exhausted" => InTime(h))
                              /\ \A i \in DOMAIN loop.ran : loop.ran[i].tool = "escalate" => i = Len(loop.ran)
    BY <1>1 DEF LoopHolds, h
  <2>3. \A i \in DOMAIN loop.ran : loop.ran[i].tool = "escalate" => i = Len(loop.ran) /\ loop.step = "done"
    BY <2>1, <2>2 DEF GoesOn
  <2>4. (loop.outcome = "handoff") <=> (loop.step = "done" /\ loop.ticket)
    BY <2>1, <2>2 DEF GoesOn
  <2>5. Len(loop.trace) = Cardinality(Spoken("tool"))
    BY <1>1, <1>2 DEF RunHolds, h
  <2>6. loop.outcome = "steps_exhausted" => \A i \in Spoken("tool") : loop.history[i].ids[1][1] < MaxSteps - 1
    BY <1>2, <2>1, <2>2 DEF GoesOn, InTime, h
  <2> QED BY <2>3, <2>4, <2>5, <2>6 DEF HandingOverIsLast
<1>9. OrdersStayPrivate
  BY <1>1 DEF RunHolds, Private, OrdersStayPrivate
<1>10. OnlyAgreedActs
  BY <1>1 DEF ActsHold, OnlyAgreedActs
<1>11. KeysAreSound
  BY <1>1, KeysAre DEF ActsHold, RunHolds, KeysAreSound
<1>12. NamesAreUnique /\ loop.cited \subseteq loop.found
  BY <1>1 DEF RegistryHolds, RunHolds
<1> QED BY <1>6, <1>7, <1>8, <1>9, <1>10, <1>11, <1>12 DEF AgentRunsAreOrderly

\* Whatever the model asks for and the services answer, the history is whole,
\* the trail true, orders private, writes agreed to, and names unique.
THEOREM AgentIsOrderly == AgentSpec => []AgentRunsAreOrderly
BY AgentInvariant, AgentImplies, PTL
=============================================================================
