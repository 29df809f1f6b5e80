---------------------------- MODULE MemoryProofs ----------------------------
(***************************************************************************)
(* Memory objects, for any finite sets of processes, objects and pages:    *)
(* reference counts are exact, translations are fresh, and copy-on-write   *)
(* implements private memory.                                              *)
(*                                                                         *)
(* The argument.  What mmo_shadowed points to is a chain that ends at the  *)
(* bottom object (ChainsOK).  The object of a private area is referred to  *)
(* by that area alone (Owners), so what its process writes is seen by      *)
(* nobody else; and an object that shadow_put frees has no other           *)
(* reference, so that no other chain passes through it.                    *)
(***************************************************************************)
EXTENDS Memory, SeqLemmas, FiniteSetTheorems

Object == Obj \cup {File}

(* mmo_shadowed of the objects below it is what an object's list says.  An *)
(* object that is free shadows nothing.                                    *)
ChainsOK ==
  \A o \in Obj :
    /\ mmo[o].refs = 0 => mmo[o].below = <<>>
    /\ mmo[o].below # <<>> => mmo[o].below = Chain(Head(mmo[o].below))

(* A private area has a shadow of its own; a shared one has no shadow.     *)
Owners ==
  /\ \A p \in Proc : p \notin live => area[p] = NoArea
  /\ \A p \in Proc : area[p].private =>
       /\ area[p].obj \in Obj /\ mmo[area[p].obj].below # <<>>
       /\ Areas(area[p].obj) = {p} /\ Shadows(area[p].obj) = {}
  /\ \A p \in Proc :
       ~area[p].private /\ area[p].obj \in Obj => mmo[area[p].obj].below = <<>>

(* The first half of RefcountExact. *)
Counted ==
  \A o \in Obj :
    mmo[o].refs = Cardinality(Areas(o)) + nrespages(o) + Cardinality(Shadows(o))

(* Pages alone do not keep an object: the second half follows from this,   *)
(* object by object up the tree of shadows.                                *)
Referenced ==
  \A o \in Obj : mmo[o].refs # 0 => Areas(o) \cup Shadows(o) # {}

(* The inductive invariant. *)
IInv ==
  TypeOK /\ ChainsOK /\ Owners /\ Counted /\ Referenced /\ TranslationsFresh

-----------------------------------------------------------------------------
(* An element in front of a sequence. *)
LEMMA ConsSeq ==
  ASSUME NEW S, NEW x \in S, NEW b \in Seq(S), NEW c, c = <<x>> \o b
  PROVE  /\ c \in Seq(S) /\ Len(c) = Len(b) + 1 /\ DOMAIN c = 1 .. Len(b) + 1
         /\ Len(b) \in Nat /\ c[1] = x
         /\ \A i \in 1 .. Len(b) : c[i + 1] = b[i]
  <1>1. <<x>> \in Seq(S) /\ Len(<<x>>) = 1 /\ Len(b) \in Nat
    BY LenProperties
  <1>2. /\ c \in Seq(S) /\ Len(c) = Len(b) + 1
        /\ \A i \in 1 .. Len(b) + 1 :
             c[i] = IF i <= 1 THEN <<x>>[i] ELSE b[i - 1]
    BY <1>1, ConcatProperties
  <1> QED
    BY <1>1, <1>2, LenProperties

(* The object of a chain c that has page n, in terms of the contents d. *)
First(c, d, n) ==
  c[CHOOSE i \in DOMAIN c : /\ d[c[i]][n] # NULL \/ i = Len(c)
                            /\ \A j \in 1 .. i - 1 : d[c[j]][n] = NULL]

(* Position k is the first that has page n, or the last that there is. *)
Finds(c, d, n, k) ==
  /\ k \in 1 .. Len(c)
  /\ d[c[k]][n] # NULL \/ k = Len(c)
  /\ \A j \in 1 .. k - 1 : d[c[j]][n] = NULL

(* A position that has another one after it is not the last. *)
LEMMA NotLast ==
  ASSUME NEW l \in Nat, NEW a \in 1 .. l, NEW b \in 1 .. l, a < b
  PROVE  a \in 1 .. b - 1 /\ a # l
  OBVIOUS

(* Position k is the one that First chooses. *)
LEMMA FirstIs ==
  ASSUME NEW S, NEW c \in Seq(S), NEW d, NEW n, NEW k, Finds(c, d, n, k)
  PROVE  First(c, d, n) = c[k]
  <1> DEFINE i == CHOOSE i \in DOMAIN c :
                    /\ d[c[i]][n] # NULL \/ i = Len(c)
                    /\ \A j \in 1 .. i - 1 : d[c[j]][n] = NULL
  <1>1. Len(c) \in Nat /\ DOMAIN c = 1 .. Len(c)
    BY LenProperties
  <1>2. k \in DOMAIN c
    BY <1>1 DEF Finds
  <1>3. i \in 1 .. Len(c) /\ Finds(c, d, n, i)
    BY <1>1, <1>2 DEF Finds
  <1>4. First(c, d, n) = c[i]
    BY DEF First
  <1> HIDE DEF i
  <1>5. ASSUME NEW a \in 1 .. Len(c), NEW b \in 1 .. Len(c), a < b,
               Finds(c, d, n, a), Finds(c, d, n, b)
        PROVE  FALSE
    <2>1. a \in 1 .. b - 1 /\ a # Len(c)
      BY <1>1, <1>5, NotLast
    <2> QED
      BY <2>1, <1>5 DEF Finds
  <1>6. k \in 1 .. Len(c)
    BY <1>1, <1>2
  <1>7. ~ (i < k) /\ ~ (k < i)
    BY <1>3, <1>5, <1>6
  <1>8. i = k
    BY <1>1, <1>3, <1>6, <1>7
  <1> QED
    BY <1>4, <1>8

(* There is such a position in every chain. *)
LEMMA FirstHas ==
  ASSUME NEW S, NEW c \in Seq(S), c # <<>>, NEW d, NEW n
  PROVE  \E k : Finds(c, d, n, k) /\ First(c, d, n) = c[k]
  <1> DEFINE has == {i \in DOMAIN c : d[c[i]][n] # NULL}
  <1>1. Len(c) \in Nat \ {0} /\ DOMAIN c = 1 .. Len(c)
    BY LenProperties, EmptySeq
  <1>2. CASE has = {}
    <2>1. Finds(c, d, n, Len(c))
      BY <1>1, <1>2 DEF Finds
    <2> QED
      BY <2>1, FirstIs
  <1>3. CASE has # {}
    <2>1. has \in SUBSET Nat
      BY <1>1
    <2> HIDE DEF has
    <2>2. PICK k \in has : \A j \in has : k <= j
      BY <2>1, <1>3, LeastNumber
    <2>3. k \in 1 .. Len(c) /\ d[c[k]][n] # NULL
      BY <2>2, <1>1 DEF has
    <2>4. ASSUME NEW j \in 1 .. k - 1 PROVE d[c[j]][n] = NULL
      <3>1. j \in 1 .. Len(c) /\ ~ (k <= j)
        BY <2>3, <1>1
      <3>2. j \notin has
        BY <3>1, <2>2
      <3> QED
        BY <3>1, <3>2, <1>1 DEF has
    <2>5. Finds(c, d, n, k)
      BY <2>3, <2>4 DEF Finds
    <2> QED
      BY <2>5, FirstIs
  <1> QED
    BY <1>2, <1>3

(* What is resident at the bottom makes no difference. *)
LEMMA FirstKept ==
  ASSUME NEW S, NEW c \in Seq(S), c # <<>>, NEW d, NEW e, NEW n,
         \A i \in 1 .. Len(c) - 1 : d[c[i]][n] # NULL <=> e[c[i]][n] # NULL
  PROVE  First(c, e, n) = First(c, d, n)
  <1>1. PICK k : Finds(c, d, n, k) /\ First(c, d, n) = c[k]
    BY FirstHas
  <1>2. Len(c) \in Nat
    BY LenProperties
  <1>3. k \in 1 .. Len(c) /\ \A j \in 1 .. k - 1 : e[c[j]][n] = NULL
    BY <1>1, <1>2 DEF Finds
  <1>4. ASSUME e[c[k]][n] = NULL, k # Len(c) PROVE FALSE
    <2>1. k \in 1 .. Len(c) - 1
      BY <1>2, <1>3, <1>4
    <2> QED
      BY <2>1, <1>1, <1>4 DEF Finds
  <1>5. Finds(c, e, n, k)
    BY <1>3, <1>4 DEF Finds
  <1> QED
    BY <1>1, <1>5, FirstIs

(* A new object in front that has no pages is looked through. *)
LEMMA FirstCons ==
  ASSUME NEW S, NEW b \in Seq(S), b # <<>>, NEW x \in S, NEW d, NEW n,
         d[x][n] = NULL
  PROVE  /\ First(<<x>> \o b, d, n) = First(b, d, n)
         /\ Last(<<x>> \o b) = Last(b)
  <1> DEFINE c == <<x>> \o b
  <1>1. PICK k : Finds(b, d, n, k) /\ First(b, d, n) = b[k]
    BY FirstHas
  <1>2. /\ c \in Seq(S) /\ Len(c) = Len(b) + 1 /\ Len(b) \in Nat /\ c[1] = x
        /\ \A i \in 1 .. Len(b) : c[i + 1] = b[i]
    BY ConsSeq
  <1>3. Len(b) > 0 /\ k \in 1 .. Len(b)
    BY <1>1, EmptySeq DEF Finds
  <1> HIDE DEF c
  <1>4. c[k + 1] = b[k] /\ k + 1 \in 1 .. Len(c) /\ c[Len(c)] = b[Len(b)]
    BY <1>2, <1>3
  <1>5. ASSUME NEW j \in 1 .. (k + 1) - 1 PROVE d[c[j]][n] = NULL
    <2>1. CASE j = 1
      BY <2>1, <1>2
    <2>2. CASE j # 1
      <3>1. j - 1 \in 1 .. k - 1 /\ j - 1 \in 1 .. Len(b) /\ (j - 1) + 1 = j
        BY <2>2, <1>2, <1>3
      <3>2. c[(j - 1) + 1] = b[j - 1]
        BY <3>1, <1>2
      <3>3. d[b[j - 1]][n] = NULL
        BY <3>1, <1>1 DEF Finds
      <3> QED
        BY <3>1, <3>2, <3>3
    <2> QED
      BY <2>1, <2>2
  <1>6. d[c[k + 1]][n] = NULL => k + 1 = Len(c)
    BY <1>1, <1>2, <1>4 DEF Finds
  <1>7. Finds(c, d, n, k + 1)
    BY <1>4, <1>5, <1>6 DEF Finds
  <1>8. First(c, d, n) = c[k + 1]
    BY <1>2, <1>7, FirstIs
  <1> QED
    BY <1>1, <1>4, <1>8 DEF Last, c

-----------------------------------------------------------------------------
(* What the types say of chains. *)
LEMMA ChainType ==
  ASSUME TypeOK, NEW o \in Object
  PROVE  /\ Chain(o) \in Seq(Object) /\ Chain(o) # <<>> /\ Chain(o)[1] = o
         /\ Len(Chain(o)) \in Nat /\ Len(Chain(o)) >= 1
         /\ Len(Chain(o)) > 1 => o \in Obj /\ mmo[o].below # <<>>
         /\ o \notin Obj \/ mmo[o].below = <<>> => Len(Chain(o)) = 1
  <1> DEFINE b == IF o \in Obj THEN mmo[o].below ELSE <<>>
  <1>1. b \in Seq(Object)
    BY EmptySeq DEF TypeOK, Object
  <1>2. Chain(o) = <<o>> \o b
    BY DEF Chain
  <1> HIDE DEF b
  <1>3. /\ Chain(o) \in Seq(Object) /\ Len(Chain(o)) = Len(b) + 1
        /\ Len(b) \in Nat /\ Chain(o)[1] = o
    BY <1>1, <1>2, ConsSeq
  <1>4. Chain(o) # <<>>
    BY <1>3, EmptySeq
  <1>5. b = <<>> => Len(b) = 0
    BY EmptySeq
  <1>6. b # <<>> <=> o \in Obj /\ mmo[o].below # <<>>
    BY DEF b
  <1> QED
    BY <1>3, <1>4, <1>5, <1>6

(* The chain of a shadow goes on as the chain of what it shadows. *)
LEMMA ChainNext ==
  ASSUME TypeOK, ChainsOK, NEW o \in Obj, mmo[o].below # <<>>,
         NEW b, b = Head(mmo[o].below)
  PROVE  /\ b \in Object
         /\ Len(Chain(o)) = Len(Chain(b)) + 1
         /\ \A i \in 1 .. Len(Chain(b)) : Chain(o)[i + 1] = Chain(b)[i]
  <1>1. mmo[o].below \in Seq(Object)
    BY DEF TypeOK, Object
  <1>2. b \in Object
    BY <1>1, HeadTailProperties
  <1>3. Chain(o) = <<o>> \o Chain(b)
    BY DEF ChainsOK, Chain
  <1>4. Chain(b) \in Seq(Object)
    BY <1>2, ChainType
  <1>5. o \in Object
    BY DEF Object
  <1> QED
    BY <1>2, <1>3, <1>4, <1>5, ConsSeq

(* From every place of a chain on it is the chain of the object there. *)
LEMMA ChainFrom ==
  ASSUME TypeOK, ChainsOK, NEW o \in Object, NEW i \in 1 .. Len(Chain(o))
  PROVE  /\ Chain(o)[i] \in Object
         /\ Len(Chain(Chain(o)[i])) = Len(Chain(o)) - i + 1
         /\ \A k \in 1 .. Len(Chain(o)) - i + 1 :
              Chain(Chain(o)[i])[k] = Chain(o)[i + k - 1]
  <1> DEFINE c == Chain(o)
             Good(j) ==
               /\ Len(Chain(c[j])) = Len(c) - j + 1
               /\ \A k \in 1 .. Len(c) - j + 1 :
                    Chain(c[j])[k] = c[j + k - 1]
             bad == {j \in 1 .. Len(c) : ~ Good(j)}
  <1>1. c \in Seq(Object) /\ Len(c) \in Nat /\ Len(c) >= 1 /\ c[1] = o
    BY ChainType
  <1> HIDE DEF c
  <1>2. \A j \in 1 .. Len(c) : c[j] \in Object
    BY <1>1, LenProperties
  <1>3. Good(1)
    BY <1>1 DEF c
  <1>4. ASSUME NEW j \in 1 .. Len(c), j + 1 \in 1 .. Len(c), Good(j)
        PROVE  Good(j + 1)
    <2>1. j \in Nat /\ j < Len(c) /\ c[j] \in Object
      BY <1>1, <1>2, <1>4
    <2>2. Len(Chain(c[j])) > 1
      BY <2>1, <1>1, <1>4
    <2>3. c[j] \in Obj /\ mmo[c[j]].below # <<>>
      BY <2>1, <2>2, ChainType
    <2> DEFINE b == Head(mmo[c[j]].below)
    <2>4. /\ b \in Object
          /\ Len(Chain(c[j])) = Len(Chain(b)) + 1
          /\ \A k \in 1 .. Len(Chain(b)) : Chain(c[j])[k + 1] = Chain(b)[k]
      BY <2>3, ChainNext
    <2> HIDE DEF b
    <2>5. Len(Chain(b)) \in Nat /\ Chain(b)[1] = b /\ Len(Chain(b)) >= 1
      BY <2>4, ChainType
    <2>6. Len(Chain(b)) = Len(c) - (j + 1) + 1
      BY <2>1, <2>4, <2>5, <1>1, <1>4
    <2>7. ASSUME NEW k \in 1 .. Len(c) - (j + 1) + 1
          PROVE  Chain(b)[k] = c[(j + 1) + k - 1]
      <3>1. k \in 1 .. Len(Chain(b)) /\ k \in Nat
        BY <2>1, <2>6, <1>1
      <3>2. Chain(c[j])[k + 1] = Chain(b)[k]
        BY <3>1, <2>4
      <3>3. k + 1 \in 1 .. Len(c) - j + 1
        BY <2>1, <2>7, <1>1
      <3>4. Chain(c[j])[k + 1] = c[j + (k + 1) - 1]
        BY <3>3, <1>4
      <3>5. j + (k + 1) - 1 = (j + 1) + k - 1
        BY <3>1, <2>1
      <3> QED
        BY <3>2, <3>4, <3>5
    <2>8. c[j + 1] = b
      <3>1. 1 \in 1 .. Len(c) - (j + 1) + 1 /\ (j + 1) + 1 - 1 = j + 1
        BY <2>1, <1>1
      <3> QED
        BY <3>1, <2>5, <2>7
    <2> QED
      BY <2>6, <2>7, <2>8
  <1> HIDE DEF Good
  <1>5. bad = {}
    <2> SUFFICES ASSUME bad # {} PROVE FALSE
      OBVIOUS
    <2>1. bad \in SUBSET Nat
      BY <1>1
    <2> HIDE DEF bad
    <2>2. PICK j \in bad : \A k \in bad : j <= k
      BY <2>1, LeastNumber
    <2>3. j \in 1 .. Len(c) /\ ~ Good(j) /\ j \in Nat
      BY <2>1 DEF bad
    <2>4. j # 1
      BY <2>3, <1>3
    <2>5. j - 1 \in 1 .. Len(c) /\ (j - 1) + 1 = j /\ ~ (j <= j - 1)
      BY <2>3, <2>4, <1>1
    <2>6. Good(j - 1)
      BY <2>2, <2>5 DEF bad
    <2> QED
      BY <2>3, <2>5, <2>6, <1>4
  <1>6. Good(i)
    BY <1>5 DEF c
  <1> QED
    BY <1>2, <1>6 DEF Good, c

(* A chain passes from shadow to what it shadows, and through no object    *)
(* twice.                                                                  *)
LEMMA ChainLinks ==
  ASSUME TypeOK, ChainsOK, NEW o \in Object, NEW c, c = Chain(o)
  PROVE  /\ \A i \in 1 .. Len(c) :
              /\ c[i] \in Object
              /\ i < Len(c) => /\ c[i] \in Obj /\ mmo[c[i]].below # <<>>
                               /\ Head(mmo[c[i]].below) = c[i + 1]
              /\ c[i] \in Obj /\ mmo[c[i]].below # <<>> => i < Len(c)
         /\ \A i, j \in 1 .. Len(c) : c[i] = c[j] => i = j
  <1>1. Len(c) \in Nat
    BY ChainType
  <1>2. ASSUME NEW i \in 1 .. Len(c)
        PROVE  /\ c[i] \in Object
               /\ i < Len(c) => /\ c[i] \in Obj /\ mmo[c[i]].below # <<>>
                                /\ Head(mmo[c[i]].below) = c[i + 1]
               /\ c[i] \in Obj /\ mmo[c[i]].below # <<>> => i < Len(c)
    <2>1. /\ c[i] \in Object
          /\ Len(Chain(c[i])) = Len(c) - i + 1
          /\ \A k \in 1 .. Len(c) - i + 1 : Chain(c[i])[k] = c[i + k - 1]
      BY ChainFrom
    <2>2. i \in Nat
      BY <1>1
    <2>3. Len(Chain(c[i])) > 1 => c[i] \in Obj /\ mmo[c[i]].below # <<>>
      BY <2>1, ChainType
    <2>4. ASSUME c[i] \in Obj, mmo[c[i]].below # <<>>
          PROVE  i < Len(c) /\ Head(mmo[c[i]].below) = c[i + 1]
      <3> DEFINE b == Head(mmo[c[i]].below)
      <3>1. /\ b \in Object
            /\ Len(Chain(c[i])) = Len(Chain(b)) + 1
            /\ \A k \in 1 .. Len(Chain(b)) : Chain(c[i])[k + 1] = Chain(b)[k]
        BY <2>4, ChainNext
      <3> HIDE DEF b
      <3>2. Len(Chain(b)) \in Nat /\ Len(Chain(b)) >= 1 /\ Chain(b)[1] = b
        BY <3>1, ChainType
      <3>3. i < Len(c) /\ 1 + 1 \in 1 .. Len(c) - i + 1 /\ 1 \in 1 .. Len(Chain(b))
        BY <3>1, <3>2, <2>1, <2>2, <1>1
      <3>4. Chain(c[i])[1 + 1] = b /\ Chain(c[i])[1 + 1] = c[i + (1 + 1) - 1]
        BY <3>1, <3>2, <3>3, <2>1
      <3>5. i + (1 + 1) - 1 = i + 1
        BY <2>2
      <3> QED
        BY <3>3, <3>4, <3>5 DEF b
    <2>5. i < Len(c) => Len(Chain(c[i])) > 1
      BY <2>1, <2>2, <1>1
    <2> QED
      BY <2>1, <2>3, <2>4, <2>5
  <1>3. ASSUME NEW i \in 1 .. Len(c), NEW j \in 1 .. Len(c), c[i] = c[j]
        PROVE  i = j
    <2>1. Len(c) - i + 1 = Len(c) - j + 1
      BY <1>3, ChainFrom
    <2> QED
      BY <2>1, <1>1
  <1> QED
    BY <1>2, <1>3

-----------------------------------------------------------------------------
(* The operators of Memory that look through a chain, in a state and in    *)
(* the next one, as functions of the chain and the contents.               *)
ViewOf(c, d, n) ==
  IF First(c, d, n) = Last(c) THEN NULL ELSE d[First(c, d, n)][n]

Fresh(e, o, c, d, n) ==
  e # NULL => /\ o # NULL /\ e.obj = First(c, d, n) /\ d[e.obj][n] # NULL
              /\ e.w => e.obj = o

LEMMA HolderIs ==
  \A o, n : Holder(o, n) = First(Chain(o), data, n)
  BY DEF Holder, First, Bottom, Last

LEMMA PrivateIs ==
  \A p, n : Private(p, n) = ViewOf(Chain(area[p].obj), data, n)
  BY DEF Private, Holder, ViewOf, First, Bottom, Last

LEMMA PrivateIsPrime ==
  \A p, n : Private(p, n)' = ViewOf(Chain(area[p].obj)', data', n)
  BY DEF Private, Holder, ViewOf, First, Bottom, Last, Chain

LEMMA FreshIs ==
  TranslationsFresh <=>
    \A p \in Proc, n \in Page :
      Fresh(pt[p][n], area[p].obj, Chain(area[p].obj), data, n)
  BY DEF TranslationsFresh, Fresh, Holder, First, Bottom, Last

LEMMA FreshIsPrime ==
  TranslationsFresh' <=>
    \A p \in Proc, n \in Page :
      Fresh(pt'[p][n], area'[p].obj, Chain(area[p].obj)', data', n)
  BY DEF TranslationsFresh, Fresh, Holder, First, Bottom, Last, Chain

(* The chain of an area that keeps its object. *)
LEMMA ChainSame ==
  ASSUME NEW q \in Proc, area'[q].obj = area[q].obj,
         area[q].obj \in Obj =>
           mmo'[area[q].obj].below = mmo[area[q].obj].below
  PROVE  Chain(area[q].obj)' = Chain(area[q].obj)
  BY DEF Chain

(* Where a lookup ends. *)
LEMMA HolderFacts ==
  ASSUME TypeOK, ChainsOK, NEW o \in Object, NEW n \in Page,
         NEW h, h = Holder(o, n)
  PROVE  /\ h \in Object /\ Bottom(o) \in Object
         /\ Bottom(o) \in Obj => mmo[Bottom(o)].below = <<>>
         /\ o \in Obj /\ mmo[o].below # <<>> => Bottom(o) # o
         /\ o \notin Obj \/ mmo[o].below = <<>> => Bottom(o) = o /\ h = o
         /\ data[o][n] # NULL => h = o
         /\ data[h][n] = NULL => h = Bottom(o)
         /\ h # Bottom(o) => h \in Obj /\ mmo[h].below # <<>>
  <1> DEFINE c == Chain(o)
  <1>1. /\ c \in Seq(Object) /\ c # <<>> /\ c[1] = o /\ Len(c) \in Nat
        /\ Len(c) >= 1 /\ (Len(c) > 1 => o \in Obj /\ mmo[o].below # <<>>)
    BY ChainType
  <1>2. /\ \A i \in 1 .. Len(c) :
             /\ c[i] \in Object
             /\ i < Len(c) => c[i] \in Obj /\ mmo[c[i]].below # <<>>
             /\ c[i] \in Obj /\ mmo[c[i]].below # <<>> => i < Len(c)
        /\ \A i, j \in 1 .. Len(c) : c[i] = c[j] => i = j
    BY ChainLinks
  <1>3. Bottom(o) = c[Len(c)]
    BY DEF Bottom, Last
  <1>4. h = First(c, data, n)
    BY HolderIs
  <1> HIDE DEF c
  <1>5. PICK k : Finds(c, data, n, k) /\ First(c, data, n) = c[k]
    BY <1>1, FirstHas
  <1>6. h = c[k] /\ k \in 1 .. Len(c) /\ (data[h][n] = NULL => k = Len(c))
    BY <1>4, <1>5 DEF Finds
  <1>7. 1 \in 1 .. Len(c) /\ Len(c) \in 1 .. Len(c)
    BY <1>1
  <1>8. h \in Object /\ Bottom(o) \in Object
    BY <1>2, <1>3, <1>6, <1>7
  <1>9. Bottom(o) \in Obj => mmo[Bottom(o)].below = <<>>
    BY <1>1, <1>2, <1>3, <1>7
  <1>10. o \in Obj /\ mmo[o].below # <<>> => Bottom(o) # o
    BY <1>9
  <1>11. o \notin Obj \/ mmo[o].below = <<>> => Bottom(o) = o /\ h = o
    <2>1. o \notin Obj \/ mmo[o].below = <<>> => Len(c) = 1
      BY ChainType DEF c
    <2>2. Len(c) = 1 => k = 1
      BY <1>6
    <2> QED
      BY <2>1, <2>2, <1>1, <1>3, <1>6
  <1>12. data[o][n] # NULL => h = o
    <2>1. ASSUME data[o][n] # NULL PROVE Finds(c, data, n, 1)
      BY <2>1, <1>1, <1>7 DEF Finds
    <2>2. Finds(c, data, n, 1) => h = c[1]
      BY <1>1, <1>4, FirstIs
    <2> QED
      BY <2>1, <2>2, <1>1
  <1>13. h # Bottom(o) => h \in Obj /\ mmo[h].below # <<>>
    <2>1. h # Bottom(o) => k # Len(c)
      BY <1>3, <1>6
    <2>2. k # Len(c) => k < Len(c)
      BY <1>6, <1>1
    <2> QED
      BY <2>1, <2>2, <1>2, <1>6
  <1> QED
    BY <1>3, <1>6, <1>8, <1>9, <1>10, <1>11, <1>12, <1>13

(* What a process sees through a chain, when what its shadows have stays.  *)
LEMMA ViewKept ==
  ASSUME TypeOK, ChainsOK, NEW o \in Object, NEW n \in Page, NEW d,
         \A s \in Obj : mmo[s].below # <<>> /\ s \in Range(Chain(o))
           => d[s][n] = data[s][n]
  PROVE  ViewOf(Chain(o), d, n) = ViewOf(Chain(o), data, n)
  <1> DEFINE c == Chain(o)
  <1>1. /\ c \in Seq(Object) /\ c # <<>> /\ Len(c) \in Nat /\ Len(c) >= 1
        /\ DOMAIN c = 1 .. Len(c)
    BY ChainType, LenProperties
  <1>2. \A i \in 1 .. Len(c) :
          i < Len(c) => c[i] \in Obj /\ mmo[c[i]].below # <<>>
    BY ChainLinks
  <1>3. \A i \in 1 .. Len(c) : c[i] \in Range(c)
    BY <1>1 DEF Range
  <1>4. \A s \in Obj : mmo[s].below # <<>> /\ s \in Range(c)
          => d[s][n] = data[s][n]
    OBVIOUS
  <1> HIDE DEF c
  <1>5. \A i \in 1 .. Len(c) - 1 : d[c[i]][n] = data[c[i]][n]
    <2>1. \A i \in 1 .. Len(c) - 1 : i \in 1 .. Len(c) /\ i < Len(c)
      BY <1>1
    <2> QED
      BY <2>1, <1>2, <1>3, <1>4
  <1>6. First(c, d, n) = First(c, data, n)
    BY <1>1, <1>5, FirstKept
  <1>7. PICK k : Finds(c, data, n, k) /\ First(c, data, n) = c[k]
    BY <1>1, FirstHas
  <1>8. k \in 1 .. Len(c)
    BY <1>7 DEF Finds
  <1>9. ASSUME k # Len(c) PROVE k \in 1 .. Len(c) - 1
    <2>1. k \in Nat
      BY <1>1, <1>8
    <2>2. 1 <= k /\ k <= Len(c)
      BY <1>1, <1>8
    <2>3. Len(c) \in Nat /\ Len(c) # k
      BY <1>1, <1>9
    <2> QED
      BY <2>1, <2>2, <2>3
  <1>10. k # Len(c) => d[c[k]][n] = data[c[k]][n]
    BY <1>5, <1>9
  <1>11. k = Len(c) => c[k] = Last(c)
    BY DEF Last
  <1>12. ViewOf(c, d, n) = ViewOf(c, data, n)
    BY <1>6, <1>7, <1>10, <1>11 DEF ViewOf
  <1> QED
    BY <1>12 DEF c

-----------------------------------------------------------------------------
(* What is counted is finite. *)
LEMMA Finite ==
  /\ \A S \in SUBSET Proc : IsFiniteSet(S) /\ Cardinality(S) \in Nat
  /\ \A S \in SUBSET Page : IsFiniteSet(S) /\ Cardinality(S) \in Nat
  /\ \A S \in SUBSET Obj : IsFiniteSet(S) /\ Cardinality(S) \in Nat
  BY FS_Subset, FS_CardinalityType, MemoryAssumption

LEMMA Counts ==
  /\ \A o : Cardinality(Areas(o)) \in Nat /\ IsFiniteSet(Areas(o))
  /\ \A o : nrespages(o) \in Nat /\ IsFiniteSet(Resident(o))
  /\ \A o : Cardinality(Shadows(o)) \in Nat /\ IsFiniteSet(Shadows(o))
  <1>1. /\ \A o : Areas(o) \in SUBSET Proc
        /\ \A o : Resident(o) \in SUBSET Page
        /\ \A o : Shadows(o) \in SUBSET Obj
    BY DEF Areas, Resident, Shadows
  <1> QED
    BY <1>1, Finite DEF nrespages

(* Nothing refers to a free object, and it has no pages. *)
LEMMA FreeUnused ==
  ASSUME IInv, NEW o \in Obj, mmo[o].refs = 0
  PROVE  /\ Areas(o) = {} /\ Shadows(o) = {} /\ Resident(o) = {}
         /\ mmo[o].below = <<>> /\ \A n \in Page : data[o][n] = NULL
  <1>1. /\ 0 = Cardinality(Areas(o)) + nrespages(o) + Cardinality(Shadows(o))
        /\ mmo[o].below = <<>>
    BY DEF IInv, Counted, ChainsOK
  <1>2. Cardinality(Areas(o)) = 0 /\ nrespages(o) = 0 /\ Cardinality(Shadows(o)) = 0
    BY <1>1, Counts
  <1>3. Areas(o) = {} /\ Shadows(o) = {} /\ Resident(o) = {}
    BY <1>2, Counts, FS_EmptySet DEF nrespages
  <1> QED
    BY <1>1, <1>3 DEF Resident

(* An object with one reference beside those of its pages has either one   *)
(* area or one shadow.                                                     *)
LEMMA OneReference ==
  ASSUME IInv, NEW o \in Obj, mmo[o].refs - 1 = nrespages(o)
  PROVE  \/ Shadows(o) = {} /\ \E p : Areas(o) = {p}
         \/ Areas(o) = {} /\ \E s : Shadows(o) = {s}
  <1>1. mmo[o].refs = Cardinality(Areas(o)) + nrespages(o) + Cardinality(Shadows(o))
    BY DEF IInv, Counted
  <1>2. \/ Cardinality(Areas(o)) = 1 /\ Cardinality(Shadows(o)) = 0
        \/ Cardinality(Areas(o)) = 0 /\ Cardinality(Shadows(o)) = 1
    BY <1>1, Counts
  <1>3. /\ Cardinality(Areas(o)) = 1 => \E p : Areas(o) = {p}
        /\ Cardinality(Shadows(o)) = 1 => \E s : Shadows(o) = {s}
    BY Counts, FS_Singleton
  <1>4. /\ Cardinality(Areas(o)) = 0 => Areas(o) = {}
        /\ Cardinality(Shadows(o)) = 0 => Shadows(o) = {}
    BY Counts, FS_EmptySet
  <1> QED
    BY <1>2, <1>3, <1>4

(* A chain that starts outside a set of objects does not enter it, if the  *)
(* shadows of its members are members.                                     *)
LEMMA ChainAvoids ==
  ASSUME TypeOK, ChainsOK, NEW G, \A g \in G : g \in Obj /\ Shadows(g) \subseteq G,
         NEW o \in Object, o \notin G
  PROVE  \A i \in 1 .. Len(Chain(o)) : Chain(o)[i] \notin G
  <1> DEFINE c == Chain(o)
             in == {i \in 1 .. Len(c) : c[i] \in G}
  <1>1. Len(c) \in Nat /\ c[1] = o
    BY ChainType
  <1>2. \A i \in 1 .. Len(c) : i < Len(c) =>
          c[i] \in Obj /\ mmo[c[i]].below # <<>> /\ Head(mmo[c[i]].below) = c[i + 1]
    BY ChainLinks
  <1> HIDE DEF c
  <1>3. SUFFICES ASSUME in # {} PROVE FALSE
    BY DEF c
  <1>4. in \in SUBSET Nat
    BY <1>1
  <1> HIDE DEF in
  <1>5. PICK i \in in : \A k \in in : i <= k
    BY <1>3, <1>4, LeastNumber
  <1>6. i \in 1 .. Len(c) /\ c[i] \in G /\ i \in Nat /\ i # 1
    BY <1>1, <1>4 DEF in
  <1>7. i - 1 \in 1 .. Len(c) /\ i - 1 < Len(c) /\ (i - 1) + 1 = i /\ ~ (i <= i - 1)
    BY <1>1, <1>6
  <1>8. c[i - 1] \notin G
    BY <1>5, <1>7 DEF in
  <1>9. c[i - 1] \in Shadows(c[i])
    BY <1>2, <1>7 DEF Shadows
  <1> QED
    BY <1>6, <1>8, <1>9

(* The object of a private area is in no other chain. *)
LEMMA PrivateTop ==
  ASSUME IInv, NEW p \in Proc, area[p].private,
         NEW o \in Object, o # area[p].obj
  PROVE  area[p].obj \notin Range(Chain(o))
  <1> DEFINE G == {area[p].obj}
  <1>1. \A g \in G : g \in Obj /\ Shadows(g) \subseteq G
    BY DEF IInv, Owners
  <1>2. o \notin G
    OBVIOUS
  <1> HIDE DEF G
  <1>3. \A i \in 1 .. Len(Chain(o)) : Chain(o)[i] \notin G
    BY <1>1, <1>2, ChainAvoids DEF IInv
  <1>4. DOMAIN Chain(o) = 1 .. Len(Chain(o))
    BY ChainType, LenProperties DEF IInv
  <1> QED
    BY <1>3, <1>4 DEF Range, G

(* Only areas with an object are areas, and only live processes have them. *)
LEMMA AreaFacts ==
  ASSUME IInv, NEW p \in Proc
  PROVE  /\ area[p].obj \in Object \cup {NULL} /\ area[p].private \in BOOLEAN
         /\ area[p].obj = NULL <=> area[p] = NoArea
         /\ area[p].obj # NULL => area[p].obj \in Object /\ p \in live
         /\ area[p].private => area[p].obj # NULL
         /\ area[p].obj = NULL => \A n \in Page : pt[p][n] = NULL
  <1>1. area[p] \in [obj : Object \cup {NULL}, private : BOOLEAN]
    BY DEF IInv, TypeOK, Object
  <1>2. area[p].private => area[p].obj # NULL
    BY MemoryAssumption DEF IInv, Owners
  <1>3. area[p].obj = NULL <=> area[p] = NoArea
    <2>1. area[p] = [obj |-> area[p].obj, private |-> area[p].private]
      BY <1>1
    <2>2. area[p].obj = NULL => area[p].private = FALSE
      BY <1>1, <1>2
    <2>3. NoArea.obj = NULL
      BY DEF NoArea
    <2> QED
      BY <2>1, <2>2, <2>3 DEF NoArea
  <1>4. p \notin live => area[p] = NoArea
    BY DEF IInv, Owners
  <1>5. area[p].obj = NULL => \A n \in Page : pt[p][n] = NULL
    BY DEF IInv, TranslationsFresh
  <1> QED
    BY <1>1, <1>2, <1>3, <1>4, <1>5

(* RefcountExact from the parts of the invariant.  If some used object     *)
(* were reached from no area, so would be its shadows, and of those with   *)
(* the longest chain there is none.                                        *)
LEMMA NothingLeaks ==
  ASSUME IInv
  PROVE  RefcountExact
  <1> DEFINE Reached(o) == \E p \in Proc : /\ area[p].obj # NULL
                                           /\ o \in Range(Chain(area[p].obj))
             lost == {o \in Obj : mmo[o].refs # 0 /\ ~ Reached(o)}
             bound == Cardinality(Object)
             short == {bound - Len(Chain(o)) : o \in lost}
  <1>1. TypeOK /\ ChainsOK /\ Counted /\ Referenced
    BY DEF IInv
  <1>2. IsFiniteSet(Object) /\ bound \in Nat
    BY MemoryAssumption, FS_AddElement, FS_CardinalityType DEF Object
  <1>3. \A o \in Object : /\ Len(Chain(o)) \in Nat /\ Len(Chain(o)) >= 1
                          /\ DOMAIN Chain(o) = 1 .. Len(Chain(o))
                          /\ Chain(o)[1] = o
    BY <1>1, ChainType, LenProperties
  <1>4. ASSUME NEW o \in Object PROVE Len(Chain(o)) <= bound
    <2>1. \A i, j \in 1 .. Len(Chain(o)) : Chain(o)[i] = Chain(o)[j] => i = j
      BY <1>1, ChainLinks
    <2>2. Chain(o) \in [1 .. Len(Chain(o)) -> Object]
      BY <1>1, ChainType, LenProperties
    <2>3. Chain(o) \in Injection(1 .. Len(Chain(o)), Object)
      BY <2>1, <2>2 DEF Injection, IsInjective
    <2>4. Cardinality(1 .. Len(Chain(o))) <= bound
      BY <2>3, <1>2, FS_Injection
    <2>5. Cardinality(1 .. Len(Chain(o))) = Len(Chain(o))
      BY <1>3, FS_Interval
    <2> QED
      BY <2>4, <2>5
  <1>5. ASSUME NEW o \in Object, NEW s \in Shadows(o)
        PROVE  /\ s \in Obj /\ mmo[s].refs # 0
               /\ Len(Chain(s)) = Len(Chain(o)) + 1
               /\ Reached(s) => Reached(o)
    <2>1. s \in Obj /\ s \in Object /\ mmo[s].below # <<>> /\ Head(mmo[s].below) = o
      BY DEF Shadows, Object
    <2>2. mmo[s].refs # 0
      BY <2>1, <1>1 DEF ChainsOK
    <2>3. Len(Chain(s)) = Len(Chain(o)) + 1
      BY <2>1, <1>1, ChainNext
    <2>4. ASSUME NEW p \in Proc, area[p].obj # NULL, s \in Range(Chain(area[p].obj))
          PROVE  o \in Range(Chain(area[p].obj))
      <3> DEFINE c == Chain(area[p].obj)
      <3>1. area[p].obj \in Object
        BY <2>4, AreaFacts
      <3>2. Len(c) \in Nat /\ DOMAIN c = 1 .. Len(c)
        BY <3>1, <1>3
      <3>3. \A i \in 1 .. Len(c) :
              /\ i < Len(c) => Head(mmo[c[i]].below) = c[i + 1]
              /\ c[i] \in Obj /\ mmo[c[i]].below # <<>> => i < Len(c)
        BY <3>1, <1>1, ChainLinks
      <3> HIDE DEF c
      <3>4. PICK i \in 1 .. Len(c) : c[i] = s
        BY <2>4, <3>2 DEF Range, c
      <3>5. i < Len(c) /\ c[i + 1] = o
        BY <3>3, <3>4, <2>1
      <3>6. i + 1 \in DOMAIN c
        BY <3>2, <3>5
      <3> QED
        BY <3>5, <3>6 DEF Range, c
    <2> QED
      BY <2>1, <2>2, <2>3, <2>4
  <1>6. lost = {}
    <2> SUFFICES ASSUME lost # {} PROVE FALSE
      OBVIOUS
    <2>1. short \in SUBSET Nat /\ short # {}
      <3>1. \A o \in lost : o \in Object
        BY DEF Object
      <3>2. \A o \in lost : bound - Len(Chain(o)) \in Nat
        BY <3>1, <1>2, <1>3, <1>4
      <3> QED
        BY <3>2
    <2> HIDE DEF short
    <2>2. PICK k \in short : \A j \in short : k <= j
      BY <2>1, LeastNumber
    <2>3. PICK o \in lost : k = bound - Len(Chain(o))
      BY DEF short
    <2>4. o \in Obj /\ o \in Object /\ mmo[o].refs # 0 /\ ~ Reached(o)
      BY DEF Object
    <2>5. Areas(o) = {}
      <3>1. ASSUME NEW p \in Areas(o) PROVE FALSE
        <4>1. p \in Proc /\ area[p].obj = o
          BY DEF Areas
        <4>2. o \in Range(Chain(o)) /\ o # NULL
          <5>1. 1 \in DOMAIN Chain(o) /\ Chain(o)[1] = o
            BY <1>3, <2>4
          <5>2. o # NULL
            BY <2>4, MemoryAssumption
          <5> QED
            BY <5>1, <5>2 DEF Range
        <4> QED
          BY <4>1, <4>2, <2>4
      <3> QED
        BY <3>1
    <2>6. PICK s \in Shadows(o) : TRUE
      BY <2>4, <2>5, <1>1 DEF Referenced
    <2>7. s \in lost /\ Len(Chain(s)) = Len(Chain(o)) + 1 /\ s \in Object
      BY <2>4, <2>6, <1>5 DEF Object
    <2>8. bound - Len(Chain(s)) \in short
      BY <2>7 DEF short
    <2>9. k <= bound - Len(Chain(s))
      BY <2>2, <2>8
    <2>10. Len(Chain(o)) \in Nat /\ bound \in Nat
      BY <1>2, <1>3, <2>4
    <2> QED
      BY <2>3, <2>7, <2>9, <2>10
  <1>7. ASSUME NEW o \in Obj, Reached(o) PROVE mmo[o].refs # 0
    <2>1. PICK p \in Proc : area[p].obj # NULL /\ o \in Range(Chain(area[p].obj))
      BY <1>7
    <2> DEFINE c == Chain(area[p].obj)
               G == {g \in Obj : mmo[g].refs = 0}
    <2>2. area[p].obj \in Object
      BY <2>1, AreaFacts
    <2>3. DOMAIN c = 1 .. Len(c)
      BY <2>2, <1>3
    <2>4. \A g \in G : g \in Obj /\ Shadows(g) \subseteq G
      BY FreeUnused
    <2>5. area[p].obj \notin G
      BY FreeUnused DEF Areas
    <2> HIDE DEF G
    <2>6. \A i \in 1 .. Len(c) : c[i] \notin G
      BY <2>2, <2>4, <2>5, <1>1, ChainAvoids
    <2>7. o \notin G
      BY <2>1, <2>3, <2>6 DEF Range
    <2> QED
      BY <2>7 DEF G
  <1>8. \A o \in Obj : mmo[o].refs # 0 <=> Reached(o)
    BY <1>6, <1>7
  <1> HIDE DEF Reached, lost
  <1>9. Obj \ FreeObjs = {o \in Obj : Reached(o)}
    BY <1>8 DEF FreeObjs
  <1>10. {o \in Obj : Reached(o)} =
           Obj \cap UNION {Range(Chain(area[p].obj)) : p \in Proc \ Areas(NULL)}
    BY DEF Reached, Areas
  <1> QED
    BY <1>1, <1>9, <1>10 DEF RefcountExact, Counted

(* An object in the chain of an area is not free. *)
LEMMA ReachedInUse ==
  ASSUME IInv, NEW p \in Proc, area[p].obj # NULL,
         NEW o \in Obj, o \in Range(Chain(area[p].obj))
  PROVE  mmo[o].refs # 0
  <1>1. o \in Obj \ FreeObjs
    BY NothingLeaks DEF RefcountExact, Areas
  <1> QED
    BY <1>1 DEF FreeObjs

-----------------------------------------------------------------------------
(* A translation stays fresh when shadows keep the pages they have, lack   *)
(* those they lack, and no page goes.                                      *)
LEMMA FreshKept ==
  ASSUME IInv, NEW q \in Proc, NEW n \in Page,
         NEW e, e = NULL \/ e = pt[q][n], NEW d,
         \A s \in Obj : mmo[s].below # <<>> /\ s \in Range(Chain(area[q].obj))
           => (d[s][n] # NULL <=> data[s][n] # NULL),
         \A x \in Object : x \in Range(Chain(area[q].obj)) /\ data[x][n] # NULL
           => d[x][n] # NULL
  PROVE  Fresh(e, area[q].obj, Chain(area[q].obj), d, n)
  <1> DEFINE c == Chain(area[q].obj)
  <1> SUFFICES ASSUME e # NULL PROVE Fresh(e, area[q].obj, c, d, n)
    BY DEF Fresh
  <1>1. Fresh(e, area[q].obj, c, data, n)
    BY FreshIs DEF IInv
  <1>2. area[q].obj # NULL /\ area[q].obj \in Object
    BY <1>1, AreaFacts DEF Fresh
  <1>3. /\ c \in Seq(Object) /\ c # <<>> /\ Len(c) \in Nat
        /\ DOMAIN c = 1 .. Len(c)
    BY <1>2, ChainType, LenProperties DEF IInv
  <1>4. \A i \in 1 .. Len(c) :
          c[i] \in Object
          /\ (i < Len(c) => c[i] \in Obj /\ mmo[c[i]].below # <<>>)
    BY <1>2, ChainLinks DEF IInv
  <1>5. \A i \in 1 .. Len(c) : c[i] \in Range(c)
    BY <1>3 DEF Range
  <1>6. \A s \in Obj : mmo[s].below # <<>> /\ s \in Range(c)
          => (d[s][n] # NULL <=> data[s][n] # NULL)
    OBVIOUS
  <1>7. \A x \in Object : x \in Range(c) /\ data[x][n] # NULL => d[x][n] # NULL
    OBVIOUS
  <1> HIDE DEF c
  <1>8. \A i \in 1 .. Len(c) - 1 : data[c[i]][n] # NULL <=> d[c[i]][n] # NULL
    <2>1. \A i \in 1 .. Len(c) - 1 : i \in 1 .. Len(c) /\ i < Len(c)
      BY <1>3
    <2> QED
      BY <2>1, <1>4, <1>5, <1>6
  <1>9. First(c, d, n) = First(c, data, n)
    BY <1>3, <1>8, FirstKept
  <1>10. PICK k : Finds(c, data, n, k) /\ First(c, data, n) = c[k]
    BY <1>3, FirstHas
  <1>11. k \in 1 .. Len(c)
    BY <1>10 DEF Finds
  <1>12. d[First(c, data, n)][n] # NULL
    BY <1>1, <1>4, <1>5, <1>7, <1>10, <1>11 DEF Fresh
  <1> QED
    BY <1>1, <1>9, <1>12 DEF Fresh

(* Only the process itself has the object of its private area in its       *)
(* chain, and the object of a shared area is no shadow.                    *)
LEMMA OwnShadow ==
  ASSUME IInv, NEW p \in Proc, NEW q \in Proc, p # q, area[q].obj # NULL,
         NEW s \in Obj, mmo[s].below # <<>>, s \in Range(Chain(area[q].obj))
  PROVE  s # area[p].obj
  <1> SUFFICES ASSUME s = area[p].obj PROVE FALSE
    OBVIOUS
  <1>1. area[p].private
    BY DEF IInv, Owners
  <1>2. area[q].obj # area[p].obj
    BY <1>1 DEF IInv, Owners, Areas
  <1>3. area[q].obj \in Object
    BY AreaFacts
  <1> QED
    BY <1>1, <1>2, <1>3, PrivateTop

(* A step that only makes pages resident, in objects that are in use. *)
LEMMA PageStep ==
  ASSUME IInv, NEW n \in Page, NEW new \in SUBSET Obj,
         UNCHANGED <<live, area>>, mmo' \in [Obj -> [refs : Nat, below : Seq(Object)]],
         \A o \in Obj :
           /\ mmo'[o].below = mmo[o].below
           /\ mmo'[o].refs = IF o \in new THEN mmo[o].refs + 1 ELSE mmo[o].refs
           /\ Resident(o)' = IF o \in new THEN Resident(o) \cup {n} ELSE Resident(o)
           /\ o \in new => mmo[o].refs # 0 /\ n \notin Resident(o)
  PROVE  /\ ChainsOK' /\ Owners' /\ Counted' /\ Referenced'
         /\ \A o : Chain(o)' = Chain(o)
         /\ \A p \in Proc : Chain(area[p].obj)' = Chain(area[p].obj)
  <1>1. \A o : Chain(o)' = Chain(o)
    BY DEF Chain
  <1>2. ASSUME NEW o \in Obj
        PROVE  mmo[o].refs \in Nat /\ (mmo'[o].refs = 0 <=> mmo[o].refs = 0)
    <2>1. mmo[o].refs \in Nat
      BY DEF IInv, TypeOK
    <2>2. /\ mmo'[o].refs = IF o \in new THEN mmo[o].refs + 1 ELSE mmo[o].refs
          /\ o \in new => mmo[o].refs # 0
      OBVIOUS
    <2> QED
      BY <2>1, <2>2
  <1>3. \A p \in Proc : Chain(area[p].obj)' = Chain(area[p].obj)
    BY DEF Chain
  <1>4. ChainsOK'
    BY <1>1, <1>2 DEF IInv, ChainsOK, Chain
  <1>5. /\ \A o : Areas(o)' = Areas(o)
        /\ \A o : Shadows(o)' = Shadows(o)
    BY DEF Areas, Shadows
  <1>6. Owners'
    BY <1>5 DEF IInv, Owners, Areas, Shadows
  <1>7. Referenced'
    BY <1>2, <1>5 DEF IInv, Referenced
  <1>8. Counted'
    <2> SUFFICES ASSUME NEW o \in Obj
                 PROVE  mmo'[o].refs = Cardinality(Areas(o)') + nrespages(o)'
                                         + Cardinality(Shadows(o)')
      BY DEF Counted
    <2>1. nrespages(o)' = IF o \in new THEN nrespages(o) + 1 ELSE nrespages(o)
      <3>1. o \in new => Cardinality(Resident(o) \cup {n}) = nrespages(o) + 1
        BY Counts, FS_AddElement DEF nrespages
      <3> QED
        BY <3>1 DEF nrespages
    <2>2. mmo[o].refs = Cardinality(Areas(o)) + nrespages(o) + Cardinality(Shadows(o))
      BY DEF IInv, Counted
    <2> QED
      BY <2>1, <2>2, <1>5, Counts
  <1> QED
    BY <1>1, <1>3, <1>4, <1>6, <1>7, <1>8


(* The objects a fault finds and fills. *)
LEMMA FaultFacts ==
  ASSUME IInv, NEW p \in Proc, NEW n \in Page, area[p].obj # NULL,
         NEW o, o = area[p].obj, NEW h, h = Holder(o, n)
  PROVE  /\ o \in Object /\ h \in Object
         /\ o \in Obj => mmo[o].refs # 0
         /\ h \in Obj => mmo[h].refs # 0
         /\ data[h][n] = NULL /\ h \in Obj => mmo[h].below = <<>>
         /\ o \in Obj /\ mmo[o].below # <<>> => area[p].private
         /\ o \notin Obj \/ mmo[o].below = <<>> => h = o
         /\ h = First(Chain(o), data, n)
         /\ Chain(o) \in Seq(Object) /\ Chain(o) # <<>> /\ Chain(o)[1] = o
         /\ Len(Chain(o)) \in Nat /\ Len(Chain(o)) >= 1
  <1>1. TypeOK /\ ChainsOK /\ o \in Object
    BY AreaFacts DEF IInv
  <1>2. /\ Chain(o) \in Seq(Object) /\ Chain(o) # <<>> /\ Chain(o)[1] = o
        /\ Len(Chain(o)) \in Nat /\ Len(Chain(o)) >= 1
        /\ DOMAIN Chain(o) = 1 .. Len(Chain(o))
    BY <1>1, ChainType, LenProperties
  <1>3. h = First(Chain(o), data, n)
    BY HolderIs
  <1>4. PICK k : Finds(Chain(o), data, n, k) /\ h = Chain(o)[k]
    BY <1>2, <1>3, FirstHas
  <1>5. k \in 1 .. Len(Chain(o))
    BY <1>4 DEF Finds
  <1>6. h \in Range(Chain(o)) /\ o \in Range(Chain(o))
    <2>1. 1 \in DOMAIN Chain(o)
      BY <1>2
    <2> QED
      BY <2>1, <1>2, <1>4, <1>5 DEF Range
  <1>7. (o \in Obj => mmo[o].refs # 0) /\ (h \in Obj => mmo[h].refs # 0)
    BY <1>6, ReachedInUse
  <1>8. /\ h \in Object
        /\ data[h][n] = NULL /\ h \in Obj => mmo[h].below = <<>>
        /\ o \notin Obj \/ mmo[o].below = <<>> => h = o
    BY <1>1, HolderFacts
  <1>9. o \in Obj /\ mmo[o].below # <<>> => area[p].private
    BY DEF IInv, Owners
  <1> QED
    BY <1>1, <1>2, <1>3, <1>7, <1>8, <1>9

(* One more reference to each object of a set. *)
Counting(new) ==
  [x \in Obj |->
     IF x \in new THEN [mmo[x] EXCEPT !.refs = @ + 1] ELSE mmo[x]]

(* Page n of every object of a set that lacks it becomes resident. *)
LEMMA FilledStep ==
  ASSUME IInv, NEW p \in Proc, NEW n \in Page, area[p].obj # NULL,
         NEW new \in SUBSET Object,
         \A x \in new : /\ x \in {area[p].obj, Holder(area[p].obj, n)}
                        /\ data[x][n] = NULL,
         UNCHANGED <<live, area>>,
         mmo' = Counting(new),
         data' \in [Object -> [Page -> Value \cup {NULL}]],
         \A x \in Object, m \in Page :
           data'[x][m] # NULL <=> (data[x][m] # NULL \/ (x \in new /\ m = n))
  PROVE  /\ mmo' \in [Obj -> [refs : Nat, below : Seq(Object)]]
         /\ ChainsOK' /\ Owners' /\ Counted' /\ Referenced'
         /\ \A x : Chain(x)' = Chain(x)
         /\ \A q \in Proc : Chain(area[q].obj)' = Chain(area[q].obj)
  <1>1. \A x \in Obj : /\ mmo[x] \in [refs : Nat, below : Seq(Object)]
                       /\ mmo[x].refs \in Nat
    BY DEF IInv, TypeOK, Object
  <1>2. ASSUME NEW x \in Obj
        PROVE  /\ mmo'[x] \in [refs : Nat, below : Seq(Object)]
               /\ mmo'[x].below = mmo[x].below
               /\ mmo'[x].refs = IF x \in new THEN mmo[x].refs + 1 ELSE mmo[x].refs
    <2>1. CASE x \in new
      <3>1. mmo'[x] = [mmo[x] EXCEPT !.refs = @ + 1]
        BY <2>1 DEF Counting
      <3>2. mmo[x].refs + 1 \in Nat
        BY <1>1
      <3>3. mmo[x] \in [refs : Nat, below : Seq(Object)]
        BY <1>1
      <3> QED
        BY <2>1, <3>1, <3>2, <3>3
    <2>2. CASE x \notin new
      BY <2>2, <1>1 DEF Counting
    <2> QED
      BY <2>1, <2>2
  <1>3. mmo' \in [Obj -> [refs : Nat, below : Seq(Object)]]
    BY <1>2 DEF Counting
  <1>4. ASSUME NEW x \in Obj
        PROVE  /\ Resident(x)' = IF x \in new THEN Resident(x) \cup {n}
                                 ELSE Resident(x)
               /\ x \in new => mmo[x].refs # 0 /\ n \notin Resident(x)
    <2>1. x \in Object
      BY DEF Object
    <2>2. x \in new => mmo[x].refs # 0
      BY FaultFacts
    <2> QED
      BY <2>1, <2>2 DEF Resident
  <1>5. new \cap Obj \in SUBSET Obj
    OBVIOUS
  <1> DEFINE N == new \cap Obj
  <1>6. \A x \in Obj :
           /\ mmo'[x].below = mmo[x].below
           /\ mmo'[x].refs = IF x \in N THEN mmo[x].refs + 1 ELSE mmo[x].refs
           /\ Resident(x)' = IF x \in N THEN Resident(x) \cup {n} ELSE Resident(x)
           /\ x \in N => mmo[x].refs # 0 /\ n \notin Resident(x)
    BY <1>2, <1>4
  <1> HIDE DEF N
  <1>7. N \in SUBSET Obj
    BY DEF N
  <1> QED
    BY <1>3, <1>6, <1>7, PageStep


-----------------------------------------------------------------------------
(* Private memory as the processes see it: what the refinement maps to. *)
Mem ==
  [p \in Proc |-> IF area[p].private THEN [n \in Page |-> Private(p, n)] ELSE NULL]

LEMMA MemSame ==
  ASSUME UNCHANGED area,
         \A q \in Proc, n \in Page : area[q].private => Private(q, n)' = Private(q, n)
  PROVE  Mem' = Mem
  <1>1. ASSUME NEW q \in Proc, area[q].private
        PROVE  [n \in Page |-> Private(q, n)'] = [n \in Page |-> Private(q, n)]
    BY <1>1
  <1> QED
    BY <1>1 DEF Mem

(* handle_pagefault for a read fills at most the bottom object. *)
LEMMA ReadFaultStep ==
  ASSUME IInv, NEW p \in Proc, NEW n \in Page, ReadFault(p, n)
  PROVE  IInv' /\ Mem' = Mem
  <1> DEFINE o == area[p].obj
             h == Holder(o, n)
             new == IF data[h][n] = NULL THEN {h} ELSE {}
  <1>1. /\ p \in live /\ o # NULL /\ pt[p][n] = NULL
        /\ Fill(h, n, 0)
        /\ pt' = [pt EXCEPT ![p][n] = [obj |-> h, w |-> FALSE]]
        /\ UNCHANGED <<live, area, vmas, dirty>>
    BY DEF ReadFault
  <1>2. /\ o \in Object /\ h \in Object
        /\ data[h][n] = NULL /\ h \in Obj => mmo[h].below = <<>>
        /\ h = First(Chain(o), data, n)
        /\ Chain(o) \in Seq(Object) /\ Chain(o) # <<>>
    BY <1>1, FaultFacts
  <1>3. /\ TypeOK /\ data \in [Object -> [Page -> Value \cup {NULL}]]
        /\ mmo \in [Obj -> [refs : Nat, below : Seq(Object)]]
        /\ 0 \in Value /\ 0 # NULL
    BY MemoryAssumption DEF IInv, TypeOK, Object
  <1> HIDE DEF h
  <1>4. /\ data' \in [Object -> [Page -> Value \cup {NULL}]]
        /\ \A x \in Object, m \in Page :
             /\ data'[x][m] # NULL <=> (data[x][m] # NULL \/ (x \in new /\ m = n))
             /\ ~ (x \in new /\ m = n) => data'[x][m] = data[x][m]
        /\ mmo' = Counting(new)
    <2>1. CASE data[h][n] # NULL
      <3>1. data' = data /\ mmo' = mmo /\ new = {}
        BY <2>1, <1>1 DEF Fill
      <3>2. Counting({}) = mmo
        BY <1>3 DEF Counting
      <3> QED
        BY <3>1, <3>2, <1>3
    <2>2. CASE data[h][n] = NULL
      <3>1. /\ data' = [data EXCEPT ![h][n] = 0] /\ new = {h}
            /\ mmo' = [mmo EXCEPT ![h].refs = @ + 1]
        BY <2>2, <1>1 DEF Fill
      <3>2. mmo' = Counting(new)
        BY <3>1, <1>3 DEF Counting
      <3>3. data' \in [Object -> [Page -> Value \cup {NULL}]]
        BY <3>1, <1>2, <1>3
      <3>4. ASSUME NEW x \in Object, NEW m \in Page
            PROVE  data'[x][m] = IF x = h /\ m = n THEN 0 ELSE data[x][m]
        BY <3>1, <1>2, <1>3
      <3> QED
        BY <3>1, <3>2, <3>3, <3>4, <2>2, <1>3
    <2> QED
      BY <2>1, <2>2
  <1>5. /\ new \in SUBSET Object
        /\ \A x \in new : x \in {o, Holder(o, n)} /\ data[x][n] = NULL
    BY <1>2 DEF h
  <1> HIDE DEF new, o
  <1>6. /\ mmo' \in [Obj -> [refs : Nat, below : Seq(Object)]]
        /\ ChainsOK' /\ Owners' /\ Counted' /\ Referenced'
        /\ \A q \in Proc : Chain(area[q].obj)' = Chain(area[q].obj)
    <2>1. \A x \in Object, m \in Page :
            data'[x][m] # NULL <=> (data[x][m] # NULL \/ (x \in new /\ m = n))
      BY <1>4
    <2>2. /\ new \in SUBSET Object /\ area[p].obj # NULL
          /\ \A x \in new : /\ x \in {area[p].obj, Holder(area[p].obj, n)}
                            /\ data[x][n] = NULL
      BY <1>1, <1>5 DEF o
    <2>3. data' \in [Object -> [Page -> Value \cup {NULL}]]
      BY <1>4
    <2>4. mmo' = Counting(new)
      BY <1>4
    <2>5. UNCHANGED <<live, area>>
      BY <1>1
    <2> QED
      BY <2>1, <2>2, <2>3, <2>4, <2>5, FilledStep
  <1>7. TypeOK'
    <2>1. pt' \in [Proc -> [Page -> [obj : Object, w : BOOLEAN] \cup {NULL}]]
      <3>1. pt \in [Proc -> [Page -> [obj : Object, w : BOOLEAN] \cup {NULL}]]
        BY <1>3 DEF TypeOK, Object
      <3>2. [obj |-> h, w |-> FALSE] \in [obj : Object, w : BOOLEAN]
        BY <1>2
      <3> QED
        BY <3>1, <3>2, <1>1
    <2> QED
      BY <2>1, <1>1, <1>3, <1>4, <1>6 DEF TypeOK, Object
  <1>8. ASSUME NEW s \in Obj, mmo[s].below # <<>>, NEW m \in Page
        PROVE  data'[s][m] = data[s][m]
    <2>1. s \in Object /\ (s \in new => data[h][n] = NULL /\ s = h)
      BY DEF Object, new
    <2>2. ~ (s \in new /\ m = n)
      BY <2>1, <1>2, <1>8
    <2> QED
      BY <2>1, <2>2, <1>4
  <1>9. ASSUME NEW q \in Proc, NEW m \in Page
        PROVE  Fresh(pt'[q][m], area'[q].obj, Chain(area[q].obj)', data', m)
    <2>0. area'[q].obj = area[q].obj /\ Chain(area[q].obj)' = Chain(area[q].obj)
      BY <1>1, <1>6
    <2>1. CASE q = p /\ m = n
      <3>1. pt'[p][n] = [obj |-> h, w |-> FALSE]
        BY <1>1, <1>3 DEF TypeOK
      <3>2. data'[h][n] # NULL
        BY <1>2, <1>4 DEF new
      <3>3. First(Chain(o), data', n) = First(Chain(o), data, n)
        <4>1. \A i \in 1 .. Len(Chain(o)) - 1 :
                data[Chain(o)[i]][n] # NULL <=> data'[Chain(o)[i]][n] # NULL
          <5>1. \A i \in 1 .. Len(Chain(o)) :
                  i < Len(Chain(o)) => /\ Chain(o)[i] \in Obj
                                       /\ mmo[Chain(o)[i]].below # <<>>
            BY <1>2, ChainLinks DEF IInv
          <5>2. Len(Chain(o)) \in Nat
            BY <1>2, <1>3, ChainType
          <5>3. \A i \in 1 .. Len(Chain(o)) - 1 :
                  i \in 1 .. Len(Chain(o)) /\ i < Len(Chain(o))
            BY <5>2
          <5> QED
            BY <5>1, <5>3, <1>8
        <4> QED
          BY <4>1, <1>2, FirstKept
      <3> QED
        BY <3>1, <3>2, <3>3, <2>0, <2>1, <1>1, <1>2 DEF Fresh, o
    <2>2. CASE ~ (q = p /\ m = n)
      <3>1. pt'[q][m] = pt[q][m]
        BY <2>2, <1>1, <1>3 DEF TypeOK
      <3>2. \A x \in Object : data[x][m] # NULL => data'[x][m] # NULL
        BY <1>4
      <3> QED
        BY <3>1, <3>2, <2>0, <1>8, FreshKept
    <2> QED
      BY <2>1, <2>2
  <1>10. IInv'
    BY <1>6, <1>7, <1>9, FreshIsPrime DEF IInv
  <1>11. ASSUME NEW q \in Proc, NEW m \in Page, area[q].private
         PROVE  Private(q, m)' = Private(q, m)
    <2>1. area[q].obj \in Object
      BY <1>11, AreaFacts
    <2>2. ViewOf(Chain(area[q].obj), data', m) = ViewOf(Chain(area[q].obj), data, m)
      BY <2>1, <1>8, ViewKept DEF IInv
    <2> QED
      BY <2>2, <1>6, PrivateIs, PrivateIsPrime
  <1>12. Mem' = Mem
    BY <1>1, <1>11, MemSame
  <1> QED
    BY <1>10, <1>12


(* The process has private memory if its area is private, and none         *)
(* otherwise.                                                              *)
LEMMA MemDefined ==
  ASSUME IInv, NEW p \in Proc
  PROVE  /\ area[p].private => Mem[p] = [n \in Page |-> Private(p, n)]
         /\ ~ area[p].private => Mem[p] = NULL
         /\ area[p].private => Mem[p] # NULL
  <1>1. ASSUME area[p].private, NEW n \in Page
        PROVE  Private(p, n) \in Value \cup {NULL}
    <2>1. area[p].obj \in Object
      BY <1>1, AreaFacts
    <2>2. Holder(area[p].obj, n) \in Object
      BY <2>1, HolderFacts DEF IInv
    <2>3. data \in [Object -> [Page -> Value \cup {NULL}]]
      BY DEF IInv, TypeOK, Object
    <2> QED
      BY <2>2, <2>3 DEF Private
  <1>2. area[p].private => Mem[p] = [n \in Page |-> Private(p, n)]
    BY DEF Mem
  <1>3. area[p].private => Mem[p] \in [Page -> Value \cup {NULL}]
    BY <1>1, <1>2
  <1>4. ~ area[p].private => Mem[p] = NULL
    BY DEF Mem
  <1> QED
    BY <1>2, <1>3, <1>4, MemoryAssumption

(* One page changes for one process. *)
LEMMA MemStored ==
  ASSUME IInv, UNCHANGED area, NEW p \in Proc, area[p].private,
         NEW n \in Page, NEW v, Private(p, n)' = v,
         \A q \in Proc, m \in Page :
           area[q].private /\ ~ (q = p /\ m = n) => Private(q, m)' = Private(q, m)
  PROVE  Mem[p] # NULL /\ Mem' = [Mem EXCEPT ![p][n] = v]
  <1>1. Mem[p] # NULL /\ Mem[p] = [m \in Page |-> Private(p, m)]
    BY MemDefined
  <1>2. Mem' = [q \in Proc |-> IF area[q].private THEN [m \in Page |-> Private(q, m)']
                               ELSE NULL]
    BY DEF Mem
  <1>3. ASSUME NEW q \in Proc, q # p, area[q].private
        PROVE  [m \in Page |-> Private(q, m)'] = [m \in Page |-> Private(q, m)]
    BY <1>3
  <1>4. ASSUME NEW q \in Proc, q # p PROVE Mem'[q] = Mem[q]
    BY <1>2, <1>3, <1>4 DEF Mem
  <1>5. [m \in Page |-> Private(p, m)'] = [Mem[p] EXCEPT ![n] = v]
    BY <1>1
  <1>6. Mem'[p] = [Mem[p] EXCEPT ![n] = v]
    BY <1>2, <1>5
  <1>7. Mem' = [Mem EXCEPT ![p] = [Mem[p] EXCEPT ![n] = v]]
    BY <1>2, <1>4, <1>6 DEF Mem
  <1> QED
    BY <1>1, <1>7

(* What others see when p writes to page n of its own object: only the     *)
(* object itself and bottom objects change.                                *)
LEMMA OthersUntouched ==
  ASSUME IInv, NEW p \in Proc, NEW n \in Page, area[p].obj # NULL,
         \A s \in Obj, m \in Page :
           mmo[s].below # <<>> /\ ~ (s = area[p].obj /\ m = n)
             => data'[s][m] = data[s][m],
         \A x \in Object, m \in Page : data[x][m] # NULL => data'[x][m] # NULL,
         \A q \in Proc : Chain(area[q].obj)' = Chain(area[q].obj),
         UNCHANGED area,
         NEW q \in Proc, NEW m \in Page, ~ (q = p /\ m = n)
  PROVE  /\ pt'[q][m] = pt[q][m] =>
              Fresh(pt'[q][m], area'[q].obj, Chain(area[q].obj)', data', m)
         /\ area[q].private => Private(q, m)' = Private(q, m)
  <1>1. ASSUME NEW s \in Obj, mmo[s].below # <<>>, area[q].obj # NULL,
               s \in Range(Chain(area[q].obj))
        PROVE  data'[s][m] = data[s][m]
    <2>1. ~ (s = area[p].obj /\ m = n)
      BY <1>1, OwnShadow
    <2> QED
      BY <2>1, <1>1
  <1>2. ASSUME pt'[q][m] = pt[q][m]
        PROVE  Fresh(pt'[q][m], area'[q].obj, Chain(area[q].obj)', data', m)
    <2>1. CASE area[q].obj = NULL
      <3>1. pt'[q][m] = NULL
        BY <2>1, <1>2, AreaFacts
      <3> QED
        BY <3>1 DEF Fresh
    <2>2. CASE area[q].obj # NULL
      <3>1. Fresh(pt[q][m], area[q].obj, Chain(area[q].obj), data', m)
        BY <2>2, <1>1, FreshKept
      <3> QED
        BY <3>1, <1>2
    <2> QED
      BY <2>1, <2>2
  <1>3. ASSUME area[q].private
        PROVE  Private(q, m)' = Private(q, m)
    <2>1. area[q].obj \in Object /\ area[q].obj # NULL
      BY <1>3, AreaFacts
    <2>2. ViewOf(Chain(area[q].obj), data', m) = ViewOf(Chain(area[q].obj), data, m)
      BY <2>1, <1>1, ViewKept DEF IInv
    <2> QED
      BY <2>2, PrivateIs, PrivateIsPrime
  <1> QED
    BY <1>2, <1>3

(* What is written to a process's own object is what it sees there. *)
LEMMA OwnWritten ==
  ASSUME IInv, NEW p \in Proc, NEW n \in Page, NEW d, area[p].obj # NULL,
         d[area[p].obj][n] # NULL
  PROVE  /\ First(Chain(area[p].obj), d, n) = area[p].obj
         /\ area[p].private =>
              ViewOf(Chain(area[p].obj), d, n) = d[area[p].obj][n]
  <1> DEFINE c == Chain(area[p].obj)
  <1>1. /\ c \in Seq(Object) /\ c[1] = area[p].obj /\ area[p].obj \in Object
        /\ Len(c) \in Nat /\ Len(c) >= 1
    BY FaultFacts
  <1>2. area[p].private => Last(c) # area[p].obj
    BY <1>1, HolderFacts DEF IInv, Owners, Bottom
  <1> HIDE DEF c
  <1>3. Finds(c, d, n, 1)
    BY <1>1 DEF Finds
  <1>4. First(c, d, n) = area[p].obj
    BY <1>1, <1>3, FirstIs
  <1>5. area[p].private => ViewOf(c, d, n) = d[area[p].obj][n]
    BY <1>2, <1>4 DEF ViewOf
  <1> QED
    BY <1>4, <1>5 DEF c


(* A step of PrivateMemory that stores. *)
Stores(p, n, v) == Mem[p] # NULL /\ Mem' = [Mem EXCEPT ![p][n] = v]

(* handle_pagefault for a write: the process's own object gets the page.   *)
LEMMA WriteFaultStep ==
  ASSUME IInv, NEW p \in Proc, NEW n \in Page, NEW v \in Value,
         WriteFault(p, n, v)
  PROVE  IInv' /\ (Mem' = Mem \/ Stores(p, n, v))
  <1> DEFINE o == area[p].obj
             h == Holder(o, n)
             new == {x \in {o, h} : data[x][n] = NULL}
  <1>1. /\ p \in live /\ area[p] # NoArea
        /\ data' = [x \in Obj \cup {File} |->
                      IF x = o THEN [data[x] EXCEPT ![n] = v]
                      ELSE IF x \in new THEN [data[x] EXCEPT ![n] = 0]
                      ELSE data[x]]
        /\ mmo' = Counting(new)
        /\ dirty' = IF o = File THEN dirty \cup {n} ELSE dirty
        /\ pt' = [pt EXCEPT ![p][n] = [obj |-> o, w |-> TRUE]]
        /\ UNCHANGED <<live, area, vmas>>
    BY DEF WriteFault, WriteTo, Counting
  <1>2. o # NULL
    BY <1>1, AreaFacts
  <1>3. /\ o \in Object /\ h \in Object
        /\ data[h][n] = NULL /\ h \in Obj => mmo[h].below = <<>>
        /\ o \in Obj /\ mmo[o].below # <<>> => area[p].private
    BY <1>2, FaultFacts
  <1>4. /\ TypeOK /\ data \in [Object -> [Page -> Value \cup {NULL}]]
        /\ v # NULL /\ 0 \in Value /\ 0 # NULL
    BY MemoryAssumption DEF IInv, TypeOK, Object
  <1> HIDE DEF h, o
  <1>5. \A x \in Object, m \in Page :
          data'[x][m] = IF m # n THEN data[x][m]
                        ELSE IF x = o THEN v
                        ELSE IF x \in new THEN 0 ELSE data[x][m]
    BY <1>1, <1>4 DEF Object
  <1>6. data' \in [Object -> [Page -> Value \cup {NULL}]]
    <2>1. ASSUME NEW x \in Object
          PROVE  data'[x] \in [Page -> Value \cup {NULL}]
      BY <2>1, <1>1, <1>4 DEF Object
    <2> QED
      BY <2>1, <1>1 DEF Object
  <1>7. \A x \in new : x \in {o, h} /\ data[x][n] = NULL
    OBVIOUS
  <1>8. \A x \in {o, h} : data[x][n] = NULL => x \in new
    OBVIOUS
  <1>9. new \in SUBSET Object
    BY <1>3
  <1> HIDE DEF new
  <1>10. \A x \in Object, m \in Page :
           data'[x][m] # NULL <=> (data[x][m] # NULL \/ (x \in new /\ m = n))
    BY <1>4, <1>5, <1>7, <1>8
  <1>11. /\ mmo' \in [Obj -> [refs : Nat, below : Seq(Object)]]
         /\ ChainsOK' /\ Owners' /\ Counted' /\ Referenced'
         /\ \A q \in Proc : Chain(area[q].obj)' = Chain(area[q].obj)
    <2>1. /\ area[p].obj # NULL
          /\ \A x \in new : /\ x \in {area[p].obj, Holder(area[p].obj, n)}
                            /\ data[x][n] = NULL
      BY <1>2, <1>7 DEF o, h
    <2>2. UNCHANGED <<live, area>> /\ mmo' = Counting(new)
      BY <1>1
    <2> QED
      BY <2>1, <2>2, <1>6, <1>9, <1>10, FilledStep
  <1>12. TypeOK'
    <2>1. pt' \in [Proc -> [Page -> [obj : Object, w : BOOLEAN] \cup {NULL}]]
      <3>1. pt \in [Proc -> [Page -> [obj : Object, w : BOOLEAN] \cup {NULL}]]
        BY <1>4 DEF TypeOK, Object
      <3>2. [obj |-> o, w |-> TRUE] \in [obj : Object, w : BOOLEAN]
        BY <1>3
      <3> QED
        BY <3>1, <3>2, <1>1
    <2>2. dirty' \subseteq Page
      BY <1>1, <1>4 DEF TypeOK
    <2> QED
      BY <2>1, <2>2, <1>1, <1>4, <1>6, <1>11 DEF TypeOK, Object
  <1>13. /\ \A s \in Obj, m \in Page :
              mmo[s].below # <<>> /\ ~ (s = area[p].obj /\ m = n)
                => data'[s][m] = data[s][m]
         /\ \A x \in Object, m \in Page : data[x][m] # NULL => data'[x][m] # NULL
         /\ area[p].obj # NULL /\ area' = area
    <2>1. ASSUME NEW s \in Obj, NEW m \in Page, mmo[s].below # <<>>, s # o \/ m # n
          PROVE  data'[s][m] = data[s][m]
      <3>1. s \in Object
        BY DEF Object
      <3>2. s \notin new \/ s = o
        BY <2>1, <1>3, <1>7
      <3> QED
        BY <2>1, <3>1, <3>2, <1>5
    <2>2. \A x \in Object, m \in Page : data[x][m] # NULL => data'[x][m] # NULL
      BY <1>10
    <2> QED
      BY <2>1, <2>2, <1>1, <1>2 DEF o
  <1>14. data'[o][n] = v /\ o = area[p].obj
    BY <1>3, <1>5 DEF o
  <1>15. ASSUME NEW q \in Proc, NEW m \in Page
         PROVE  Fresh(pt'[q][m], area'[q].obj, Chain(area[q].obj)', data', m)
    <2>1. CASE q = p /\ m = n
      <3>1. pt'[p][n] = [obj |-> o, w |-> TRUE]
        BY <1>1, <1>4 DEF TypeOK
      <3>2. First(Chain(o), data', n) = o
        BY <1>4, <1>13, <1>14, OwnWritten
      <3>3. area'[p].obj = o /\ Chain(area[p].obj)' = Chain(o)
        BY <1>1, <1>11, <1>14
      <3> QED
        BY <3>1, <3>2, <3>3, <2>1, <1>2, <1>4, <1>14 DEF Fresh
    <2>2. CASE ~ (q = p /\ m = n)
      <3>1. pt'[q][m] = pt[q][m]
        BY <2>2, <1>1, <1>4 DEF TypeOK
      <3> QED
        BY <3>1, <2>2, <1>11, <1>13, OthersUntouched
    <2> QED
      BY <2>1, <2>2
  <1>16. IInv'
    BY <1>11, <1>12, <1>15, FreshIsPrime DEF IInv
  <1>17. ASSUME NEW q \in Proc, NEW m \in Page, area[q].private, ~ (q = p /\ m = n)
         PROVE  Private(q, m)' = Private(q, m)
    BY <1>17, <1>11, <1>13, OthersUntouched
  <1>18. CASE area[p].private
    <2>1. ViewOf(Chain(area[p].obj), data', n) = v
      BY ZenonT(40), <1>4, <1>13, <1>14, <1>18, OwnWritten
    <2>2. Private(p, n)' = v
      BY <2>1, <1>11, PrivateIsPrime
    <2>3. Stores(p, n, v)
      BY <2>2, <1>13, <1>17, <1>18, MemStored DEF Stores
    <2> QED
      BY <2>3, <1>16
  <1>19. CASE ~ area[p].private
    BY <1>13, <1>16, <1>17, <1>19, MemSame
  <1> QED
    BY <1>18, <1>19

(* A write through a writable translation. *)
LEMMA StoreStep ==
  ASSUME IInv, NEW p \in Proc, NEW n \in Page, NEW v \in Value, Store(p, n, v)
  PROVE  IInv' /\ (Mem' = Mem \/ Stores(p, n, v))
  <1> DEFINE o == area[p].obj
  <1>1. /\ pt[p][n] # NULL /\ pt[p][n].w
        /\ data' = [data EXCEPT ![pt[p][n].obj][n] = v]
        /\ UNCHANGED <<live, mmo, area, vmas, pt, dirty>>
    BY DEF Store, Writable
  <1>2. Fresh(pt[p][n], o, Chain(o), data, n)
    BY FreshIs DEF IInv
  <1>3. o # NULL /\ pt[p][n].obj = o /\ data[o][n] # NULL
    BY <1>1, <1>2 DEF Fresh
  <1>4. o \in Object
    BY <1>3, FaultFacts
  <1>5. /\ TypeOK /\ data \in [Object -> [Page -> Value \cup {NULL}]] /\ v # NULL
    BY MemoryAssumption DEF IInv, TypeOK, Object
  <1> HIDE DEF o
  <1>6. /\ data' \in [Object -> [Page -> Value \cup {NULL}]]
        /\ \A x \in Object, m \in Page :
             data'[x][m] = IF x = o /\ m = n THEN v ELSE data[x][m]
    BY <1>1, <1>3, <1>4, <1>5
  <1>7. /\ \A s \in Obj, m \in Page :
             mmo[s].below # <<>> /\ ~ (s = area[p].obj /\ m = n)
               => data'[s][m] = data[s][m]
        /\ \A x \in Object, m \in Page : data[x][m] # NULL <=> data'[x][m] # NULL
        /\ area[p].obj # NULL /\ area' = area /\ o = area[p].obj
    BY <1>1, <1>3, <1>5, <1>6 DEF o, Object
  <1>8. /\ mmo' \in [Obj -> [refs : Nat, below : Seq(Object)]]
        /\ ChainsOK' /\ Owners' /\ Counted' /\ Referenced'
        /\ \A q \in Proc : Chain(area[q].obj)' = Chain(area[q].obj)
    <2>1. mmo' = Counting({})
      BY <1>1, <1>5 DEF Counting, TypeOK
    <2>2. \A x \in Object, m \in Page :
            data'[x][m] # NULL <=> (data[x][m] # NULL \/ (x \in {} /\ m = n))
      BY <1>7
    <2>3. UNCHANGED <<live, area>> /\ area[p].obj # NULL
      BY <1>1, <1>7
    <2> QED
      BY <2>1, <2>2, <2>3, <1>6, FilledStep
  <1>9. TypeOK'
    BY <1>1, <1>5, <1>6 DEF TypeOK, Object
  <1>10. data'[o][n] = v
    BY <1>4, <1>6
  <1>11. ASSUME NEW q \in Proc, NEW m \in Page
         PROVE  Fresh(pt'[q][m], area'[q].obj, Chain(area[q].obj)', data', m)
    <2>1. CASE q = p /\ m = n
      <3>1. First(Chain(o), data', n) = o
        BY <1>5, <1>7, <1>10, OwnWritten
      <3>2. area'[p].obj = o /\ Chain(area[p].obj)' = Chain(o)
        BY <1>7, <1>8
      <3> QED
        BY <3>1, <3>2, <2>1, <1>1, <1>3, <1>5, <1>10 DEF Fresh
    <2>2. CASE ~ (q = p /\ m = n)
      <3>1. pt'[q][m] = pt[q][m]
        BY <1>1
      <3> QED
        BY <3>1, <2>2, <1>7, <1>8, OthersUntouched
    <2> QED
      BY <2>1, <2>2
  <1>12. IInv'
    BY <1>8, <1>9, <1>11, FreshIsPrime DEF IInv
  <1>13. ASSUME NEW q \in Proc, NEW m \in Page, area[q].private, ~ (q = p /\ m = n)
         PROVE  Private(q, m)' = Private(q, m)
    BY <1>13, <1>7, <1>8, OthersUntouched
  <1>14. CASE area[p].private
    <2>1. ViewOf(Chain(area[p].obj), data', n) = v
      BY ZenonT(40), <1>5, <1>7, <1>10, <1>14, OwnWritten
    <2>2. Private(p, n)' = v
      BY <2>1, <1>8, PrivateIsPrime
    <2>3. Stores(p, n, v)
      BY <2>2, <1>7, <1>13, <1>14, MemStored DEF Stores
    <2> QED
      BY <2>3, <1>12
  <1>15. CASE ~ area[p].private
    BY <1>7, <1>12, <1>13, <1>15, MemSame
  <1> QED
    BY <1>14, <1>15


(* pframe_clean takes translations away and does nothing else to memory. *)
LEMMA CleanStep ==
  ASSUME IInv, NEW n \in Page, Clean(n)
  PROVE  IInv' /\ Mem' = Mem
  <1>1. /\ pt' = [p \in Proc |-> IF p \in vmas THEN [pt[p] EXCEPT ![n] = NULL]
                                 ELSE pt[p]]
        /\ dirty' = dirty \ {n}
        /\ UNCHANGED <<live, mmo, data, area, vmas>>
    BY DEF Clean
  <1>2. pt \in [Proc -> [Page -> [obj : Object, w : BOOLEAN] \cup {NULL}]]
    BY DEF IInv, TypeOK, Object
  <1>3. ASSUME NEW q \in Proc
        PROVE  /\ pt'[q] \in [Page -> [obj : Object, w : BOOLEAN] \cup {NULL}]
               /\ \A m \in Page : pt'[q][m] = NULL \/ pt'[q][m] = pt[q][m]
    BY <1>1, <1>2
  <1>4. pt' \in [Proc -> [Page -> [obj : Object, w : BOOLEAN] \cup {NULL}]]
    BY <1>1, <1>3
  <1>5. TypeOK'
    BY <1>1, <1>4 DEF IInv, TypeOK, Object
  <1>6. ChainsOK' /\ Owners' /\ Counted' /\ Referenced'
    BY <1>1 DEF IInv, ChainsOK, Owners, Counted, Referenced, Chain, Areas, Shadows,
                nrespages, Resident
  <1>7. \A q \in Proc : Chain(area[q].obj)' = Chain(area[q].obj)
    BY <1>1 DEF Chain
  <1>8. TranslationsFresh'
    BY <1>1, <1>3, <1>7, FreshIs, FreshIsPrime DEF IInv, Fresh
  <1>9. \A q \in Proc, m \in Page : Private(q, m)' = Private(q, m)
    BY <1>1, <1>7, PrivateIs, PrivateIsPrime
  <1>10. Mem' = Mem
    BY <1>1, <1>9, MemSame
  <1> QED
    BY <1>5, <1>6, <1>8, <1>10 DEF IInv

-----------------------------------------------------------------------------
(* The objects that putting a process's object frees: each has no          *)
(* reference but the one that goes, and they are followed by at most one   *)
(* object that stays.                                                      *)
LEMMA DoomedFacts ==
  ASSUME IInv, NEW o \in Object, NEW G, G = Doomed(o)
  PROVE  /\ \A g \in G : g \in Obj /\ mmo[g].refs - 1 = nrespages(g)
         /\ o \notin G => G = {} /\ (o \in Obj => mmo[o].refs - 1 # nrespages(o))
         /\ \A g \in G : g # o => \E s \in G : s \in Shadows(g)
         /\ \A x \in Obj : x \notin G =>
              \A g, k \in G : g \in Shadows(x) /\ k \in Shadows(x)
                => g = k /\ mmo[x].refs - 1 # nrespages(x)
  <1> DEFINE c == Chain(o)
             Goes(x) == x \in Obj /\ mmo[x].refs - 1 = nrespages(x)
             I == {i \in DOMAIN c : \A j \in 1 .. i : Goes(c[j])}
  <1>1. Len(c) \in Nat /\ Len(c) >= 1 /\ c[1] = o /\ DOMAIN c = 1 .. Len(c)
    BY ChainType, LenProperties DEF IInv
  <1>2. \A i \in 1 .. Len(c) :
          /\ i < Len(c) => /\ c[i] \in Obj /\ mmo[c[i]].below # <<>>
                           /\ Head(mmo[c[i]].below) = c[i + 1]
          /\ c[i] \in Obj /\ mmo[c[i]].below # <<>> => i < Len(c)
    BY ChainLinks DEF IInv
  <1>3. \A i, j \in 1 .. Len(c) : c[i] = c[j] => i = j
    BY ChainLinks DEF IInv
  <1>4. G = {c[i] : i \in I}
    BY DEF Doomed
  <1> HIDE DEF c, Goes
  <1>5. \A i \in I : i \in 1 .. Len(c) /\ i \in Nat /\ \A j \in 1 .. i : Goes(c[j])
    BY <1>1
  <1>6. \A i \in 1 .. Len(c) : (\A j \in 1 .. i : Goes(c[j])) => i \in I
    BY <1>1
  <1> HIDE DEF I
  <1>7. \A g \in G : Goes(g)
    BY <1>4, <1>5
  <1>8. ASSUME o \notin G
        PROVE  G = {} /\ ~ Goes(o)
    <2>1. 1 \in 1 .. Len(c) /\ 1 \notin I
      BY <1>1, <1>4, <1>8
    <2>2. ~ Goes(o)
      <3>1. Goes(o) => \A j \in 1 .. 1 : Goes(c[j])
        BY <1>1
      <3> QED
        BY <3>1, <2>1, <1>6
    <2>3. I = {}
      <3>1. ASSUME NEW i \in I PROVE FALSE
        <4>1. 1 \in 1 .. i
          BY <1>5
        <4> QED
          BY <4>1, <1>1, <1>5, <2>2
      <3> QED
        BY <3>1
    <2> QED
      BY <2>2, <2>3, <1>4
  <1>9. ASSUME NEW g \in G, g # o
        PROVE  \E s \in G : s \in Shadows(g)
    <2>1. PICK i \in I : g = c[i]
      BY <1>4
    <2>2. i \in 1 .. Len(c) /\ i \in Nat /\ i # 1
      BY <2>1, <1>1, <1>5, <1>9
    <2>3. i - 1 \in 1 .. Len(c) /\ i - 1 < Len(c) /\ (i - 1) + 1 = i
      BY <2>2, <1>1
    <2>4. \A j \in 1 .. i - 1 : j \in 1 .. i
      BY <2>2
    <2>5. i - 1 \in I
      BY <2>1, <2>3, <2>4, <1>5, <1>6
    <2>6. c[i - 1] \in G /\ c[i - 1] \in Shadows(c[i])
      BY <2>3, <2>5, <1>2, <1>4 DEF Shadows
    <2> QED
      BY <2>1, <2>6
  <1>10. ASSUME NEW x \in Obj, x \notin G, NEW g \in G, NEW k \in G,
                g \in Shadows(x), k \in Shadows(x)
         PROVE  g = k /\ ~ Goes(x)
    <2>1. PICK i \in I : g = c[i]
      BY <1>4
    <2>2. PICK j \in I : k = c[j]
      BY <1>4
    <2>3. /\ i < Len(c) /\ i \in Nat /\ c[i + 1] = x
          /\ j < Len(c) /\ j \in Nat /\ c[j + 1] = x
      BY <2>1, <2>2, <1>2, <1>5, <1>10 DEF Shadows
    <2>4. i + 1 \in 1 .. Len(c) /\ j + 1 \in 1 .. Len(c)
      BY <2>3, <1>1
    <2>5. i + 1 = j + 1
      BY <2>3, <2>4, <1>3
    <2>6. i = j
      BY <2>3, <2>5
    <2>7. ASSUME Goes(x) PROVE FALSE
      <3>1. \A l \in 1 .. i + 1 : l \in 1 .. i \/ l = i + 1
        BY <2>3
      <3>2. \A l \in 1 .. i + 1 : Goes(c[l])
        BY <3>1, <2>3, <2>7, <1>5
      <3>3. i + 1 \in I
        BY <3>2, <2>4, <1>6
      <3> QED
        BY <3>3, <2>3, <1>4, <1>10
    <2> QED
      BY <2>1, <2>2, <2>6, <2>7
  <1> QED
    BY <1>7, <1>8, <1>9, <1>10 DEF Goes

(* What remains refers to nothing that is freed. *)
LEMMA DoomedClosed ==
  ASSUME IInv, NEW p \in Proc, area[p].obj # NULL, NEW G, G = Doomed(area[p].obj)
  PROVE  /\ G \subseteq Obj
         /\ \A g \in G : Areas(g) \subseteq {p} /\ Shadows(g) \subseteq G
         /\ area[p].obj \notin G => G = {}
  <1> DEFINE o == area[p].obj
  <1>1. o \in Object /\ p \in Areas(o)
    BY AreaFacts DEF Areas
  <1>2. /\ \A g \in G : g \in Obj /\ mmo[g].refs - 1 = nrespages(g)
        /\ o \notin G => G = {}
        /\ \A g \in G : g # o => \E s \in G : s \in Shadows(g)
    BY <1>1, DoomedFacts
  <1>3. ASSUME NEW g \in G
        PROVE  Areas(g) \subseteq {p} /\ Shadows(g) \subseteq G
    <2>1. \/ Shadows(g) = {} /\ \E q : Areas(g) = {q}
          \/ Areas(g) = {} /\ \E s : Shadows(g) = {s}
      BY <1>2, OneReference
    <2>2. CASE g = o
      BY <2>1, <2>2, <1>1
    <2>3. CASE g # o
      BY <2>1, <2>3, <1>2
    <2> QED
      BY <2>2, <2>3
  <1> QED
    BY <1>2, <1>3

(* What a put does to each object: the doomed ones go, the object after    *)
(* them loses the reference that they held, or else the first loses that   *)
(* of the area.                                                            *)
LEMMA PutObject ==
  ASSUME IInv, NEW p \in Proc, NEW o, o = area[p].obj, o # NULL, Put(o),
         area' = [area EXCEPT ![p] = NoArea], NEW G, G = Doomed(o),
         NEW x \in Obj
  PROVE  /\ x \in G => /\ mmo'[x] = Free /\ data'[x] = NoPages
                       /\ Areas(x)' = {} /\ Shadows(x)' = {}
         /\ x \notin G =>
              /\ mmo'[x].below = mmo[x].below /\ mmo'[x].refs \in Nat
              /\ data'[x] = data[x]
              /\ mmo'[x].refs = Cardinality(Areas(x)') + nrespages(x)
                                  + Cardinality(Shadows(x)')
              /\ mmo'[x].refs = 0 => mmo[x].refs = 0
              /\ mmo'[x].refs # 0 => Areas(x)' \cup Shadows(x)' # {}
  <1> DEFINE K == ({o} \cup {Head(mmo[g].below) : g \in {g \in G : mmo[g].below # <<>>}})
                  \ G
  <1>1. /\ mmo' = [y \in Obj |-> IF y \in G THEN Free
                                 ELSE IF y \in K THEN [mmo[y] EXCEPT !.refs = @ - 1]
                                 ELSE mmo[y]]
        /\ data' = [y \in Obj \cup {File} |-> IF y \in G THEN NoPages ELSE data[y]]
    BY DEF Put
  <1>2. /\ o \in Object /\ o # NULL
        /\ area \in [Proc -> [obj : Object \cup {NULL}, private : BOOLEAN]]
    BY AreaFacts DEF IInv, TypeOK, Object
  <1>3. /\ G \subseteq Obj
        /\ \A g \in G : Areas(g) \subseteq {p} /\ Shadows(g) \subseteq G
        /\ o \notin G => G = {}
    BY DoomedClosed
  <1>4. /\ o \notin G => (o \in Obj => mmo[o].refs - 1 # nrespages(o))
        /\ \A y \in Obj : y \notin G =>
             \A g, k \in G : g \in Shadows(y) /\ k \in Shadows(y)
               => g = k /\ mmo[y].refs - 1 # nrespages(y)
    BY <1>2, DoomedFacts
  <1>5. /\ mmo[x] \in [refs : Nat, below : Seq(Object)]
        /\ mmo[x].refs = Cardinality(Areas(x)) + nrespages(x) + Cardinality(Shadows(x))
        /\ mmo[x].refs # 0 => Areas(x) \cup Shadows(x) # {}
    BY DEF IInv, TypeOK, Counted, Referenced, Object
  <1>6. x # NULL
    BY MemoryAssumption
  <1>7. Areas(x)' = Areas(x) \ {p}
    <2>1. area'[p].obj = NULL /\ \A q \in Proc : q # p => area'[q] = area[q]
      BY <1>2 DEF NoArea
    <2> QED
      BY <2>1, <1>6 DEF Areas
  <1>8. ASSUME NEW y \in Obj
        PROVE  /\ y \in G => mmo'[y].below = <<>>
               /\ y \notin G => mmo'[y].below = mmo[y].below
    <2>1. mmo[y] \in [refs : Nat, below : Seq(Object)]
      BY DEF IInv, TypeOK, Object
    <2>2. [mmo[y] EXCEPT !.refs = @ - 1].below = mmo[y].below
      BY <2>1
    <2> HIDE DEF K
    <2> QED
      BY <1>1, <2>2 DEF Free
  <1>9. Shadows(x)' = Shadows(x) \ G
    BY <1>8 DEF Shadows
  <1>10. CASE x \in G
    <2>1. mmo'[x] = Free /\ data'[x] = NoPages
      BY <1>1, <1>10
    <2>2. Areas(x)' = {} /\ Shadows(x)' = {}
      BY <1>3, <1>7, <1>9, <1>10
    <2> QED
      BY <2>1, <2>2, <1>10
  <1>11. CASE x \notin G
    <2>1. data'[x] = data[x] /\ mmo'[x].below = mmo[x].below
      BY <1>1, <1>8, <1>11
    <2>2. mmo'[x].refs = IF x \in K THEN mmo[x].refs - 1 ELSE mmo[x].refs
      <3>1. [mmo[x] EXCEPT !.refs = @ - 1].refs = mmo[x].refs - 1
        BY <1>5
      <3> HIDE DEF K
      <3> QED
        BY <3>1, <1>1, <1>11
    <2>3. x \in K => x = o \/ \E g \in G : g \in Shadows(x)
      BY <1>3 DEF Shadows
    <2>4. x = o => x \in K
      BY <1>11
    <2>5. \A g \in G : g \in Shadows(x) => x \in K
      BY <1>11 DEF Shadows
    <2> HIDE DEF K
    <2>6. CASE x = o
      <3>1. x \in K /\ G = {} /\ p \in Areas(x) /\ mmo[x].refs - 1 # nrespages(x)
        BY <2>4, <2>6, <1>3, <1>4, <1>11 DEF Areas
      <3>2. Cardinality(Areas(x)') = Cardinality(Areas(x)) - 1
        BY <3>1, <1>7, Counts, FS_RemoveElement
      <3>3. Shadows(x)' = Shadows(x)
        BY <3>1, <1>9
      <3>4. Cardinality(Areas(x)') \in Nat
        <4>1. IsFiniteSet(Areas(x) \ {p})
          BY Counts, FS_RemoveElement
        <4>2. Cardinality(Areas(x) \ {p}) \in Nat
          BY <4>1, FS_CardinalityType
        <4> QED
          BY <4>2, <1>7
      <3>5. /\ mmo'[x].refs = Cardinality(Areas(x)') + nrespages(x) + Cardinality(Shadows(x))
            /\ Cardinality(Areas(x)') + Cardinality(Shadows(x)) # 0
            /\ mmo'[x].refs \in Nat /\ mmo'[x].refs # 0
        BY <3>1, <3>2, <3>4, <2>2, <1>5, Counts
      <3>6. Areas(x)' \cup Shadows(x) # {}
        <4>1. Areas(x)' = {} => Cardinality(Areas(x)') = 0
          BY FS_EmptySet
        <4>2. Shadows(x) = {} => Cardinality(Shadows(x)) = 0
          BY FS_EmptySet
        <4> QED
          BY <4>1, <4>2, <3>5
      <3> QED
        BY <3>3, <3>5, <3>6, <2>1, <1>11
    <2>7. CASE x # o /\ \E g \in G : g \in Shadows(x)
      <3>1. PICK g \in G : g \in Shadows(x)
        BY <2>7
      <3>2. x \in K /\ mmo[x].refs - 1 # nrespages(x) /\ Shadows(x) \ G = Shadows(x) \ {g}
        BY <3>1, <2>5, <1>4, <1>11
      <3>3. Cardinality(Shadows(x)') = Cardinality(Shadows(x)) - 1
        <4>1. Shadows(x)' = Shadows(x) \ {g}
          BY <3>2, <1>9
        <4>2. IsFiniteSet(Shadows(x))
          BY Counts
        <4>3. Cardinality(Shadows(x) \ {g}) = Cardinality(Shadows(x)) - 1
          BY <4>2, <3>1, FS_RemoveElement, Zenon
        <4> QED
          BY <4>1, <4>3
      <3>4. Areas(x)' = Areas(x)
        BY <2>7, <1>7 DEF Areas
      <3>5. Cardinality(Shadows(x)') \in Nat
        <4>1. IsFiniteSet(Shadows(x) \ {g})
          BY Counts, FS_RemoveElement
        <4>2. Cardinality(Shadows(x) \ {g}) \in Nat
          BY <4>1, FS_CardinalityType
        <4> QED
          BY <4>2, <3>2, <1>9
      <3>6. /\ mmo'[x].refs = Cardinality(Areas(x)) + nrespages(x) + Cardinality(Shadows(x)')
            /\ Cardinality(Areas(x)) + Cardinality(Shadows(x)') # 0
            /\ mmo'[x].refs \in Nat /\ mmo'[x].refs # 0
        BY <3>2, <3>3, <3>5, <2>2, <1>5, Counts
      <3>7. Areas(x) \cup Shadows(x)' # {}
        <4>1. Areas(x) = {} => Cardinality(Areas(x)) = 0
          BY FS_EmptySet
        <4>2. Shadows(x)' = {} => Cardinality(Shadows(x)') = 0
          BY FS_EmptySet
        <4> QED
          BY <4>1, <4>2, <3>6
      <3> QED
        BY <3>4, <3>6, <3>7, <2>1, <1>11
    <2>8. CASE x # o /\ ~ \E g \in G : g \in Shadows(x)
      <3>1. x \notin K /\ Shadows(x) \ G = Shadows(x)
        BY <2>3, <2>8
      <3>2. Areas(x)' = Areas(x) /\ Shadows(x)' = Shadows(x)
        BY <3>1, <2>8, <1>7, <1>9 DEF Areas
      <3>3. mmo'[x].refs = mmo[x].refs
        BY <3>1, <2>2
      <3> QED
        BY <3>2, <3>3, <2>1, <1>5, <1>11
    <2> QED
      BY <2>6, <2>7, <2>8
  <1> QED
    BY <1>10, <1>11

(* Unmap: the area goes. *)
Unmaps(p) == Mem[p] # NULL /\ Mem' = [Mem EXCEPT ![p] = NULL]

LEMMA UnmapStep ==
  ASSUME IInv, NEW p \in Proc, Unmap(p), live' = live \/ live' = live \ {p}
  PROVE  IInv' /\ (Mem' = Mem \/ Unmaps(p))
  <1> DEFINE o == area[p].obj
             G == IF o = NULL THEN {} ELSE Doomed(o)
  <1>1. /\ IF area[p] = NoArea THEN UNCHANGED <<mmo, data>> ELSE Put(o)
        /\ area' = [area EXCEPT ![p] = NoArea]
        /\ vmas' = vmas \ {p}
        /\ pt' = [pt EXCEPT ![p] = NoPages]
        /\ UNCHANGED dirty
    BY DEF Unmap
  <1>2. /\ TypeOK /\ ChainsOK
        /\ area \in [Proc -> [obj : Object \cup {NULL}, private : BOOLEAN]]
        /\ mmo \in [Obj -> [refs : Nat, below : Seq(Object)]]
        /\ data \in [Object -> [Page -> Value \cup {NULL}]]
        /\ pt \in [Proc -> [Page -> [obj : Object, w : BOOLEAN] \cup {NULL}]]
    BY DEF IInv, TypeOK, Object
  <1>3. (o = NULL <=> area[p] = NoArea) /\ (o # NULL => o \in Object)
    BY AreaFacts
  <1>4. /\ G \subseteq Obj
        /\ \A g \in G : Areas(g) \subseteq {p} /\ Shadows(g) \subseteq G
    BY DoomedClosed
  <1>5. /\ area'[p] = NoArea /\ \A q \in Proc : q # p => area'[q] = area[q]
        /\ NoArea.obj = NULL /\ ~ NoArea.private
        /\ pt'[p] = NoPages /\ \A q \in Proc : q # p => pt'[q] = pt[q]
        /\ area' \in [Proc -> [obj : Object \cup {NULL}, private : BOOLEAN]]
        /\ pt' \in [Proc -> [Page -> [obj : Object, w : BOOLEAN] \cup {NULL}]]
    <2>1. NoArea \in [obj : Object \cup {NULL}, private : BOOLEAN]
      BY DEF NoArea
    <2>2. NoPages \in [Page -> [obj : Object, w : BOOLEAN] \cup {NULL}]
      BY DEF NoPages
    <2>3. NoArea.obj = NULL /\ ~ NoArea.private
      BY DEF NoArea
    <2> QED
      BY <2>1, <2>2, <2>3, <1>1, <1>2
  <1>6. ASSUME NEW x \in Obj
        PROVE  /\ x \in G => /\ mmo'[x] = Free /\ data'[x] = NoPages
                             /\ Areas(x)' = {} /\ Shadows(x)' = {}
               /\ x \notin G =>
                    /\ mmo'[x].below = mmo[x].below /\ mmo'[x].refs \in Nat
                    /\ data'[x] = data[x]
                    /\ mmo'[x].refs = Cardinality(Areas(x)') + nrespages(x)
                                        + Cardinality(Shadows(x)')
                    /\ mmo'[x].refs = 0 => mmo[x].refs = 0
                    /\ mmo'[x].refs # 0 => Areas(x)' \cup Shadows(x)' # {}
    <2>1. CASE o # NULL
      BY ZenonT(40), <2>1, <1>1, <1>3, PutObject
    <2>2. CASE o = NULL
      <3>1. UNCHANGED <<mmo, data>> /\ G = {}
        BY <2>2, <1>1, <1>3
      <3>2. Areas(x)' = Areas(x) /\ Shadows(x)' = Shadows(x)
        <4>1. x # NULL
          BY MemoryAssumption
        <4> QED
          BY <4>1, <2>2, <3>1, <1>5 DEF Areas, Shadows
      <3> QED
        BY <3>1, <3>2 DEF IInv, TypeOK, Counted, Referenced
    <2> QED
      BY <2>1, <2>2
  <1>7. data'[File] = data[File] /\ DOMAIN mmo' = Obj /\ DOMAIN data' = Object
        /\ mmo' = [x \in Obj |-> mmo'[x]] /\ data' = [x \in Object |-> data'[x]]
    <2>1. File \notin G
      BY <1>4, MemoryAssumption
    <2>2. CASE o # NULL
      BY <2>1, <2>2, <1>1, <1>3 DEF Put, Object
    <2>3. CASE o = NULL
      BY <2>3, <1>1, <1>2, <1>3
    <2> QED
      BY <2>2, <2>3
  <1> HIDE DEF G
  <1>8. TypeOK'
    <2>1. ASSUME NEW x \in Obj
          PROVE  /\ mmo'[x] \in [refs : Nat, below : Seq(Object)]
                 /\ data'[x] \in [Page -> Value \cup {NULL}]
      <3>1. CASE x \in G
        <4>1. Free \in [refs : Nat, below : Seq(Object)]
          BY EmptySeq DEF Free
        <4> QED
          BY <4>1, <3>1, <1>6 DEF NoPages
      <3>2. CASE x \notin G
        <4>1. x \in Object
          BY DEF Object
        <4>2. data'[x] \in [Page -> Value \cup {NULL}]
          BY <4>1, <3>2, <1>2, <1>6
        <4>3. mmo'[x].below \in Seq(Object) /\ mmo'[x].refs \in Nat
          BY <3>2, <1>2, <1>6
        <4>4. mmo'[x] = [mmo[x] EXCEPT !.refs = mmo'[x].refs]
          <5>1. CASE o # NULL
            <6> DEFINE K == ({o} \cup {Head(mmo[g].below) :
                                         g \in {g \in G : mmo[g].below # <<>>}}) \ G
            <6>1. mmo' = [y \in Obj |-> IF y \in G THEN Free
                                  ELSE IF y \in K THEN [mmo[y] EXCEPT !.refs = @ - 1]
                                  ELSE mmo[y]]
              BY <5>1, <1>1, <1>3 DEF Put, G
            <6> HIDE DEF K
            <6>2. mmo'[x] = mmo[x] \/ mmo'[x] = [mmo[x] EXCEPT !.refs = @ - 1]
              BY <6>1, <3>2
            <6>3. mmo[x] \in [refs : Nat, below : Seq(Object)]
              BY <1>2
            <6> QED
              BY <6>2, <6>3
          <5>2. CASE o = NULL
            <6>1. mmo'[x] = mmo[x]
              BY <5>2, <1>1, <1>3
            <6>2. mmo[x] \in [refs : Nat, below : Seq(Object)]
              BY <1>2
            <6> QED
              BY <6>1, <6>2
          <5> QED
            BY <5>1, <5>2
        <4>5. mmo[x] \in [refs : Nat, below : Seq(Object)]
          BY <1>2
        <4> QED
          BY <4>2, <4>3, <4>4, <4>5
      <3> QED
        BY <3>1, <3>2
    <2>2. mmo' \in [Obj -> [refs : Nat, below : Seq(Object)]]
      BY <2>1, <1>7
    <2>3. data' \in [Object -> [Page -> Value \cup {NULL}]]
      <3>1. \A x \in Object : data'[x] \in [Page -> Value \cup {NULL}]
        BY <2>1, <1>2, <1>7 DEF Object
      <3> QED
        BY <3>1, <1>7
    <2> QED
      BY <2>2, <2>3, <1>1, <1>2, <1>5 DEF TypeOK, Object
  <1>9. ASSUME NEW x \in Obj, mmo'[x].below # <<>>
        PROVE  /\ x \notin G /\ mmo[x].below # <<>> /\ mmo'[x].below = mmo[x].below
               /\ Head(mmo[x].below) \notin G
    <2>1. x \notin G /\ mmo'[x].below = mmo[x].below
      BY <1>6, <1>9 DEF Free
    <2>2. x \in Shadows(Head(mmo[x].below))
      BY <2>1, <1>9 DEF Shadows
    <2> QED
      BY <2>1, <2>2, <1>4, <1>9
  <1>10. \A x : x \notin G => Chain(x)' = Chain(x)
    BY <1>6 DEF Chain
  <1>11. ChainsOK'
    <2>1. ASSUME NEW x \in Obj, mmo'[x].refs = 0
          PROVE  mmo'[x].below = <<>>
      BY <2>1, <1>2, <1>6, <1>9 DEF ChainsOK
    <2>2. ASSUME NEW x \in Obj, mmo'[x].below # <<>>
          PROVE  mmo'[x].below = Chain(Head(mmo[x].below))'
      BY <2>2, <1>2, <1>9, <1>10 DEF ChainsOK
    <2> QED
      BY <2>1, <2>2 DEF ChainsOK, Chain
  <1>12. ASSUME NEW q \in Proc, q # p, area[q].obj \in Obj
         PROVE  area[q].obj \notin G
    <2>1. q \in Areas(area[q].obj)
      BY DEF Areas
    <2> QED
      BY <2>1, <1>4, <1>12
  <1>13. Owners'
    <2>1. ASSUME NEW q \in Proc, q \notin live' PROVE area'[q] = NoArea
      BY <2>1, <1>5 DEF IInv, Owners
    <2>2. ASSUME NEW q \in Proc, area'[q].private
          PROVE  /\ area'[q].obj \in Obj /\ mmo'[area'[q].obj].below # <<>>
                 /\ Areas(area[q].obj)' = {q} /\ Shadows(area[q].obj)' = {}
      <3>1. q # p /\ area'[q] = area[q]
        BY <2>2, <1>5
      <3> DEFINE x == area[q].obj
      <3>2. x \in Obj /\ mmo[x].below # <<>> /\ Areas(x) = {q} /\ Shadows(x) = {}
        BY <3>1, <2>2 DEF IInv, Owners
      <3>3. x \notin G /\ mmo'[x].below = mmo[x].below
        BY <3>1, <3>2, <1>6, <1>12
      <3>4. Shadows(x)' = {}
        <4> SUFFICES ASSUME NEW s \in Shadows(x)' PROVE FALSE
          BY <3>1
        <4>1. s \in Obj /\ mmo'[s].below # <<>> /\ Head(mmo'[s].below) = x
          BY <3>1 DEF Shadows
        <4>2. s \in Shadows(x)
          BY <4>1, <1>9 DEF Shadows
        <4> QED
          BY <4>2, <3>2
      <3>5. Areas(x)' = {q}
        <4>1. x # NULL
          BY <3>2, MemoryAssumption
        <4> QED
          BY <4>1, <3>1, <3>2, <1>5 DEF Areas
      <3> QED
        BY <3>1, <3>2, <3>3, <3>4, <3>5
    <2>3. ASSUME NEW q \in Proc, ~ area'[q].private, area'[q].obj \in Obj
          PROVE  mmo'[area'[q].obj].below = <<>>
      <3>1. q # p /\ area'[q] = area[q]
        BY <2>3, <1>5, MemoryAssumption
      <3>2. mmo[area[q].obj].below = <<>>
        BY <3>1, <2>3 DEF IInv, Owners
      <3> QED
        BY <3>1, <3>2, <2>3, <1>9
    <2> QED
      BY <2>1, <2>2, <2>3 DEF Owners, Areas, Shadows
  <1>14. Counted' /\ Referenced'
    <2>1. ASSUME NEW x \in Obj
          PROVE  /\ mmo'[x].refs = Cardinality(Areas(x)') + nrespages(x)'
                                     + Cardinality(Shadows(x)')
                 /\ mmo'[x].refs # 0 => Areas(x)' \cup Shadows(x)' # {}
      <3>1. CASE x \in G
        <4>1. /\ mmo'[x].refs = 0 /\ Areas(x)' = {} /\ Shadows(x)' = {}
              /\ Resident(x)' = {}
          BY <3>1, <1>6 DEF Free, NoPages, Resident
        <4> QED
          BY <4>1, FS_EmptySet DEF nrespages
      <3>2. CASE x \notin G
        <4>1. nrespages(x)' = nrespages(x)
          BY <3>2, <1>6 DEF nrespages, Resident
        <4> QED
          BY <4>1, <3>2, <1>6
      <3> QED
        BY <3>1, <3>2
    <2> QED
      BY <2>1 DEF Counted, Referenced
  <1>15. ASSUME NEW q \in Proc, q # p, area[q].obj # NULL
         PROVE  /\ area'[q] = area[q] /\ area[q].obj \in Object
                /\ Chain(area[q].obj)' = Chain(area[q].obj)
                /\ \A x \in Object : x \in Range(Chain(area[q].obj))
                     => data'[x] = data[x]
    <2>1. area[q].obj \in Object
      BY <1>15, AreaFacts
    <2>2. area[q].obj \notin G
      BY <1>4, <1>12, <1>15
    <2>3. \A i \in 1 .. Len(Chain(area[q].obj)) : Chain(area[q].obj)[i] \notin G
      BY <2>1, <2>2, <1>2, <1>4, ChainAvoids
    <2>4. DOMAIN Chain(area[q].obj) = 1 .. Len(Chain(area[q].obj))
      BY <2>1, <1>2, ChainType, LenProperties
    <2>5. \A x \in Range(Chain(area[q].obj)) : x \notin G
      BY <2>3, <2>4 DEF Range
    <2>6. \A x \in Object : x \notin G => data'[x] = data[x]
      BY <1>6, <1>7 DEF Object
    <2>7. area'[q] = area[q]
      BY <1>5, <1>15
    <2>8. Chain(area[q].obj)' = Chain(area[q].obj)
      BY <2>2, <2>7, <1>6 DEF Chain
    <2> QED
      BY <2>1, <2>5, <2>6, <2>7, <2>8
  <1>16. ASSUME NEW q \in Proc, NEW m \in Page
         PROVE  Fresh(pt'[q][m], area'[q].obj, Chain(area[q].obj)', data', m)
    <2>1. CASE q = p \/ area[q].obj = NULL
      <3>1. pt'[q][m] = NULL
        BY <2>1, <1>5, AreaFacts DEF NoPages
      <3> QED
        BY <3>1 DEF Fresh
    <2>2. CASE q # p /\ area[q].obj # NULL
      <3>1. pt'[q][m] = pt[q][m] /\ area'[q].obj = area[q].obj
        BY <2>2, <1>5
      <3>2. \A s \in Obj : mmo[s].below # <<>> /\ s \in Range(Chain(area[q].obj))
              => (data'[s][m] # NULL <=> data[s][m] # NULL)
        BY <2>2, <1>15 DEF Object
      <3>3. \A x \in Object : x \in Range(Chain(area[q].obj)) /\ data[x][m] # NULL
              => data'[x][m] # NULL
        BY <2>2, <1>15
      <3>4. Fresh(pt[q][m], area[q].obj, Chain(area[q].obj), data', m)
        BY <3>2, <3>3, FreshKept
      <3> QED
        BY <3>1, <3>4, <2>2, <1>15
    <2> QED
      BY <2>1, <2>2
  <1>17. IInv'
    BY <1>8, <1>11, <1>13, <1>14, <1>16, FreshIsPrime DEF IInv
  <1>18. ASSUME NEW q \in Proc, q # p PROVE Mem'[q] = Mem[q]
    <2>1. area'[q] = area[q]
      BY <1>5, <1>18
    <2>2. CASE area[q].private
      <3>1. area[q].obj # NULL /\ area[q].obj \in Object
        BY <2>2, AreaFacts
      <3>2. ASSUME NEW n \in Page PROVE Private(q, n)' = Private(q, n)
        <4>1. ViewOf(Chain(area[q].obj), data', n) = ViewOf(Chain(area[q].obj), data, n)
          <5>1. \A s \in Obj : mmo[s].below # <<>> /\ s \in Range(Chain(area[q].obj))
                  => data'[s][n] = data[s][n]
            BY <3>1, <1>15, <1>18 DEF Object
          <5> QED
            BY <5>1, <3>1, <1>2, ViewKept
        <4> QED
          BY <4>1, <3>1, <1>15, <1>18, PrivateIs, PrivateIsPrime
      <3> QED
        BY <3>2, <2>1, <2>2 DEF Mem
    <2>3. CASE ~ area[q].private
      BY <2>1, <2>3 DEF Mem
    <2> QED
      BY <2>2, <2>3
  <1>19. Mem'[p] = NULL
    BY <1>5 DEF Mem
  <1>20. Mem' = [Mem EXCEPT ![p] = NULL]
    BY <1>18, <1>19 DEF Mem
  <1>21. CASE Mem[p] = NULL
    <2>1. [Mem EXCEPT ![p] = NULL] = Mem
      BY <1>21 DEF Mem
    <2> QED
      BY <2>1, <1>17, <1>20
  <1>22. CASE Mem[p] # NULL
    BY <1>17, <1>20, <1>22 DEF Unmaps
  <1> QED
    BY <1>21, <1>22

-----------------------------------------------------------------------------
(* The objects that the slab allocator hands out are free, and different.  *)
LEMMA NthIs ==
  /\ FreeObjs # {} => Nth(1) \in FreeObjs
  /\ Cardinality(FreeObjs) >= 2 =>
       FreeObjs # {} /\ Nth(2) \in FreeObjs /\ Nth(1) # Nth(2)
  <1> DEFINE F == FreeObjs
             UpTo(k) == {x \in F : x <= k}
  <1>1. F \in SUBSET Nat /\ IsFiniteSet(F) /\ Cardinality(F) \in Nat
    BY Finite, MemoryAssumption DEF FreeObjs
  <1>2. Nth(1) = (CHOOSE o \in F : Cardinality(UpTo(o)) = 1)
        /\ Nth(2) = (CHOOSE o \in F : Cardinality(UpTo(o)) = 2)
    BY DEF Nth
  <1> HIDE DEF F
  <1>3. ASSUME F # {}
        PROVE  \E k \in F : UpTo(k) = {k} /\ \A x \in F : k <= x
    <2>1. PICK k \in F : \A x \in F : k <= x
      BY <1>1, <1>3, LeastNumber
    <2>2. k \in Nat /\ \A x \in F : x \in Nat /\ (x <= k <=> x = k)
      BY <2>1, <1>1
    <2>3. UpTo(k) = {k}
      BY <2>2
    <2> QED
      BY <2>1, <2>3
  <1>4. ASSUME F # {}
        PROVE  Nth(1) \in F /\ Cardinality(UpTo(Nth(1))) = 1
    <2>1. \E k \in F : Cardinality(UpTo(k)) = 1
      BY <1>3, <1>4, FS_Singleton
    <2> HIDE DEF UpTo
    <2> QED
      BY <2>1, <1>2
  <1>5. ASSUME Cardinality(F) >= 2
        PROVE  F # {} /\ Nth(2) \in F /\ Nth(1) # Nth(2)
    <2>1. F # {}
      BY <1>5, FS_EmptySet
    <2>2. PICK k \in F : UpTo(k) = {k} /\ \A x \in F : k <= x
      BY <2>1, <1>3
    <2>3. Cardinality(F \ {k}) = Cardinality(F) - 1
      BY <2>2, <1>1, FS_RemoveElement
    <2>4. F \ {k} # {}
      BY <2>3, <1>1, <1>5, FS_EmptySet
    <2>5. F \ {k} \in SUBSET Nat
      BY <1>1
    <2>6. PICK l \in F \ {k} : \A x \in F \ {k} : l <= x
      BY <2>4, <2>5, LeastNumber
    <2>7. UpTo(l) = {k} \cup {l}
      <3>1. \A x \in F : x <= l <=> x = k \/ x = l
        <4>1. k \in Nat /\ l \in Nat /\ \A x \in F : x \in Nat
          BY <2>2, <2>6, <1>1
        <4>2. \A x \in F : k <= x /\ (x = k \/ l <= x)
          BY <2>2, <2>6
        <4>3. k <= l
          BY <2>2, <2>6
        <4> HIDE DEF UpTo
        <4> QED
          BY <4>1, <4>2, <4>3
      <3> QED
        BY <3>1, <2>2, <2>6
    <2>8. Cardinality({k} \cup {l}) = 1 + 1
      <3>1. IsFiniteSet({k}) /\ Cardinality({k}) = 1 /\ l \notin {k}
        BY <2>6, FS_Singleton
      <3> QED
        BY <3>1, FS_AddElement
    <2> HIDE DEF UpTo
    <2>9. \E x \in F : Cardinality(UpTo(x)) = 2
      <3>1. 1 + 1 = 2
        OBVIOUS
      <3>2. Cardinality(UpTo(l)) = 2
        BY <2>7, <2>8, <3>1, Zenon
      <3> QED
        BY <2>6, <3>2
    <2>10. Nth(2) \in F /\ Cardinality(UpTo(Nth(2))) = 2
      BY <2>9, <1>2
    <2> QED
      BY <2>1, <2>10, <1>4
  <1> QED
    BY <1>4, <1>5 DEF F

(* A step that takes the free objects N for the areas of the processes D,  *)
(* which had none or shared the object t, and makes no page resident.      *)
Grows(N, t, D) ==
  /\ N \subseteq FreeObjs /\ t \notin N /\ t \in Object \cup {NULL}
  /\ D \subseteq Proc
  /\ TypeOK' /\ live \subseteq live' /\ data' = data
  /\ \A o \in Obj \ N : /\ mmo'[o].below = mmo[o].below
                        /\ o # t => mmo'[o].refs = mmo[o].refs
  /\ \A x \in N : mmo'[x].below # <<>> =>
       /\ Head(mmo'[x].below) \in N \cup {t}
       /\ mmo'[x].below = Chain(Head(mmo[x].below))'
  /\ \A q \in Proc \ D : area'[q] = area[q]
  /\ \A q \in D : area[q].obj \in {NULL, t} /\ area'[q].obj \in N \cup {NULL, t}
  /\ \A q \in Proc, m \in Page :
       pt'[q][m] = NULL \/ (q \notin D /\ pt'[q][m] = pt[q][m])

(* Who refers to what after such a step. *)
LEMMA GrowsParts ==
  ASSUME IInv, NEW N, NEW t, NEW D, Grows(N, t, D)
  PROVE  /\ \A x \in N : /\ x \in Obj /\ Resident(x)' = {}
                         /\ Areas(x)' = {q \in D : area'[q].obj = x}
                         /\ Shadows(x)' = {s \in N : mmo'[s].below # <<>>
                                                       /\ Head(mmo'[s].below) = x}
         /\ \A o \in Obj \ N : /\ Resident(o)' = Resident(o)
                               /\ Areas(o)' = (Areas(o) \ D) \cup {q \in D : area'[q].obj = o}
                               /\ Shadows(o)' = Shadows(o) \cup
                                    {s \in N : mmo'[s].below # <<>>
                                                 /\ Head(mmo'[s].below) = o}
         /\ \A o \in Obj \ N : o # t =>
              Areas(o)' = Areas(o) /\ Shadows(o)' = Shadows(o)
         /\ \A o : o \notin N => Chain(o)' = Chain(o)
  <1>1. /\ N \subseteq FreeObjs /\ t \notin N /\ D \subseteq Proc /\ data' = data
        /\ \A o \in Obj \ N : mmo'[o].below = mmo[o].below
        /\ \A x \in N : mmo'[x].below # <<>> => Head(mmo'[x].below) \in N \cup {t}
        /\ \A q \in Proc \ D : area'[q] = area[q]
        /\ \A q \in D : area[q].obj \in {NULL, t} /\ area'[q].obj \in N \cup {NULL, t}
    BY DEF Grows
  <1>2. N \subseteq Obj /\ \A o \in Obj : o # NULL
    BY <1>1, MemoryAssumption DEF FreeObjs
  <1>3. ASSUME NEW x \in N
        PROVE  /\ Areas(x) = {} /\ Shadows(x) = {} /\ Resident(x) = {}
               /\ mmo[x].below = <<>>
    BY <1>1, FreeUnused DEF FreeObjs
  <1>4. \A o : Resident(o)' = Resident(o)
    BY <1>1 DEF Resident
  <1>5. ASSUME NEW o \in Obj
        PROVE  /\ Areas(o)' = (Areas(o) \ D) \cup {q \in D : area'[q].obj = o}
               /\ Shadows(o)' = Shadows(o) \cup
                    {s \in N : mmo'[s].below # <<>> /\ Head(mmo'[s].below) = o}
    BY <1>1, <1>2, <1>3 DEF Areas, Shadows
  <1>6. ASSUME NEW o \in Obj, o \notin N, o # t
        PROVE  Areas(o)' = Areas(o) /\ Shadows(o)' = Shadows(o)
    <2>1. {q \in D : area'[q].obj = o} = {} /\ Areas(o) \ D = Areas(o)
      BY <1>1, <1>2, <1>6 DEF Areas
    <2>2. {s \in N : mmo'[s].below # <<>> /\ Head(mmo'[s].below) = o} = {}
      BY <1>1, <1>6
    <2> QED
      BY <2>1, <2>2, <1>5
  <1>7. \A o : o \notin N => Chain(o)' = Chain(o)
    BY <1>1 DEF Chain
  <1> QED
    BY <1>2, <1>3, <1>4, <1>5, <1>6, <1>7

(* The objects that such a step touches are counted, and the areas that it *)
(* changes are private where they should be.                               *)
Accounted(N, t, D) ==
  /\ \A o \in N \cup ({t} \cap Obj) :
       /\ mmo'[o].refs = Cardinality(Areas(o)') + nrespages(o)'
                           + Cardinality(Shadows(o)')
       /\ mmo'[o].refs # 0 /\ Areas(o)' \cup Shadows(o)' # {}
  /\ \A q \in Proc : q \notin live' => area'[q] = NoArea
  /\ \A q \in D :
       /\ area'[q].private =>
            /\ area'[q].obj \in N /\ mmo'[area'[q].obj].below # <<>>
            /\ Areas(area[q].obj)' = {q} /\ Shadows(area[q].obj)' = {}
       /\ ~area'[q].private /\ area'[q].obj \in Obj
            => mmo'[area'[q].obj].below = <<>>
  /\ \A q \in Proc \ D : area[q].private => area[q].obj # t

(* Then it keeps the invariant, and the other processes see what they saw. *)
LEMMA GrowStep ==
  ASSUME IInv, NEW N, NEW t, NEW D, Grows(N, t, D), Accounted(N, t, D)
  PROVE  IInv' /\ \A q \in Proc \ D : Mem'[q] = Mem[q]
  <1>1. /\ N \subseteq FreeObjs /\ N \subseteq Obj /\ D \subseteq Proc
        /\ TypeOK' /\ live \subseteq live' /\ data' = data
        /\ \A o \in Obj \ N : /\ mmo'[o].below = mmo[o].below
                              /\ o # t => mmo'[o].refs = mmo[o].refs
        /\ \A x \in N : mmo'[x].below # <<>> => mmo'[x].below = Chain(Head(mmo[x].below))'
        /\ \A q \in Proc \ D : area'[q] = area[q]
        /\ \A q \in Proc, m \in Page :
             pt'[q][m] = NULL \/ (q \notin D /\ pt'[q][m] = pt[q][m])
    BY DEF Grows, FreeObjs
  <1>2. /\ \A o \in Obj \ N : Resident(o)' = Resident(o)
        /\ \A o \in Obj \ N : o # t =>
             Areas(o)' = Areas(o) /\ Shadows(o)' = Shadows(o)
        /\ \A o : o \notin N => Chain(o)' = Chain(o)
    BY GrowsParts
  <1>3. /\ TypeOK /\ ChainsOK /\ Owners /\ Counted /\ Referenced
        /\ \A o \in Obj : mmo[o].below \in Seq(Object)
    BY DEF IInv, TypeOK, Object
  <1>4. ASSUME NEW o \in Obj
        PROVE  /\ mmo'[o].refs = 0 => o \notin N /\ mmo[o].refs = 0
               /\ mmo'[o].refs = Cardinality(Areas(o)') + nrespages(o)'
                                   + Cardinality(Shadows(o)')
               /\ mmo'[o].refs # 0 => Areas(o)' \cup Shadows(o)' # {}
    <2>1. CASE o \in N \/ o = t
      BY <2>1 DEF Accounted
    <2>2. CASE o \notin N /\ o # t
      BY <2>2, <1>1, <1>2, <1>3 DEF Counted, Referenced, nrespages
    <2> QED
      BY <2>1, <2>2
  <1>5. Counted' /\ Referenced'
    BY <1>4 DEF Counted, Referenced
  <1>6. \A x \in N : Areas(x) = {} /\ Shadows(x) = {}
    BY <1>1, FreeUnused DEF FreeObjs
  <1>7. ASSUME NEW o \in Obj, o \notin N, mmo[o].below # <<>>
        PROVE  Head(mmo[o].below) \notin N /\ Chain(Head(mmo[o].below)) = mmo[o].below
    <2>1. o \in Shadows(Head(mmo[o].below))
      BY <1>7 DEF Shadows
    <2> QED
      BY <2>1, <1>3, <1>6, <1>7 DEF ChainsOK
  <1>8. ChainsOK'
    <2>1. ASSUME NEW o \in Obj, mmo'[o].refs = 0 PROVE mmo'[o].below = <<>>
      BY <2>1, <1>1, <1>3, <1>4 DEF ChainsOK
    <2>2. ASSUME NEW o \in Obj, mmo'[o].below # <<>>
          PROVE  mmo'[o].below = Chain(Head(mmo[o].below))'
      <3>1. CASE o \in N
        BY <2>2, <3>1, <1>1
      <3>2. CASE o \notin N
        <4>1. mmo'[o].below = mmo[o].below
          BY <3>2, <1>1
        <4>2. \A b : b \notin N => Chain(b)' = Chain(b)
          BY <1>2
        <4>3. Chain(Head(mmo[o].below)) = mmo[o].below /\ Head(mmo[o].below) \notin N
          BY <2>2, <3>2, <4>1, <1>7
        <4> QED
          BY <4>1, <4>2, <4>3 DEF Chain
      <3> QED
        BY <3>1, <3>2
    <2> QED
      BY <2>1, <2>2 DEF ChainsOK, Chain
  <1>9. ASSUME NEW q \in Proc, q \notin D, area[q].obj # NULL
        PROVE  area'[q] = area[q] /\ area[q].obj \notin N
               /\ Chain(area[q].obj)' = Chain(area[q].obj)
    <2>1. q \in Areas(area[q].obj) /\ area'[q] = area[q]
      BY <1>1, <1>9 DEF Areas
    <2>2. area[q].obj \notin N
      BY <2>1, <1>6
    <2>3. Chain(area[q].obj)' = Chain(area[q].obj)
      <3>1. area'[q].obj = area[q].obj
        BY <2>1
      <3>2. area[q].obj \in Obj => mmo'[area[q].obj].below = mmo[area[q].obj].below
        BY <2>2, <1>1
      <3> QED
        BY <3>1, <3>2, ChainSame
    <2> QED
      BY <2>1, <2>2, <2>3
  <1>10. Owners'
    <2>1. ASSUME NEW q \in Proc, area'[q].private
          PROVE  /\ area'[q].obj \in Obj /\ mmo'[area'[q].obj].below # <<>>
                 /\ Areas(area[q].obj)' = {q} /\ Shadows(area[q].obj)' = {}
      <3>1. CASE q \in D
        BY <2>1, <3>1, <1>1 DEF Accounted
      <3>2. CASE q \notin D
        <4> DEFINE x == area[q].obj
        <4>1. area'[q] = area[q] /\ area[q].private
          BY <2>1, <3>2, <1>1
        <4>2. x \in Obj /\ mmo[x].below # <<>> /\ Areas(x) = {q} /\ Shadows(x) = {}
          BY <4>1, <1>3 DEF Owners
        <4>3. x # NULL
          BY <4>2, MemoryAssumption
        <4>4. x \notin N /\ x # t
          BY <4>1, <4>3, <3>2, <1>9 DEF Accounted
        <4>5. \A y : y \in Obj \ N /\ y # t => Areas(y)' = Areas(y) /\ Shadows(y)' = Shadows(y)
          BY <1>2
        <4>6. Areas(area[q].obj)' = {q} /\ Shadows(area[q].obj)' = {}
          BY <4>1, <4>2, <4>4, <4>5 DEF Areas, Shadows
        <4> QED
          BY <4>1, <4>2, <4>4, <4>6, <1>1
      <3> QED
        BY <3>1, <3>2
    <2>2. ASSUME NEW q \in Proc, ~ area'[q].private, area'[q].obj \in Obj
          PROVE  mmo'[area'[q].obj].below = <<>>
      <3>1. CASE q \in D
        BY <2>2, <3>1 DEF Accounted
      <3>2. CASE q \notin D
        <4>1. area'[q] = area[q] /\ area[q].obj # NULL
          BY <2>2, <3>2, <1>1, MemoryAssumption
        <4>2. area[q].obj \notin N /\ mmo[area[q].obj].below = <<>>
          BY <4>1, <2>2, <3>2, <1>3, <1>9 DEF Owners
        <4> QED
          BY <4>1, <4>2, <2>2, <1>1
      <3> QED
        BY <3>1, <3>2
    <2>3. \A q \in Proc : q \notin live' => area'[q] = NoArea
      BY DEF Accounted
    <2> QED
      BY <2>1, <2>2, <2>3 DEF Owners, Areas, Shadows
  <1>11. ASSUME NEW q \in Proc, NEW m \in Page
         PROVE  Fresh(pt'[q][m], area'[q].obj, Chain(area[q].obj)', data', m)
    <2>1. CASE pt'[q][m] = NULL
      BY <2>1 DEF Fresh
    <2>2. CASE pt'[q][m] # NULL
      <3>1. q \notin D /\ pt'[q][m] = pt[q][m]
        BY <2>2, <1>1
      <3>2. area[q].obj # NULL
        BY <2>2, <3>1, AreaFacts
      <3>3. Fresh(pt[q][m], area[q].obj, Chain(area[q].obj), data, m)
        BY FreshIs DEF IInv
      <3> QED
        BY <3>1, <3>2, <3>3, <1>1, <1>9
    <2> QED
      BY <2>1, <2>2
  <1>12. ASSUME NEW q \in Proc, q \notin D PROVE Mem'[q] = Mem[q]
    <2>1. area'[q] = area[q]
      BY <1>1, <1>12
    <2>2. ASSUME area[q].private, NEW n \in Page PROVE Private(q, n)' = Private(q, n)
      <3>1. area[q].obj # NULL
        BY <2>2, AreaFacts
      <3> QED
        BY <3>1, <1>1, <1>9, <1>12, PrivateIs, PrivateIsPrime
    <2> QED
      BY <2>1, <2>2 DEF Mem
  <1>13. IInv'
    BY <1>1, <1>5, <1>8, <1>10, <1>11, FreshIsPrime DEF IInv
  <1> QED
    BY <1>12, <1>13

(* The counts of an object with no pages. *)
LEMMA EmptyObject ==
  ASSUME NEW o, Resident(o)' = {}
  PROVE  nrespages(o)' = 0
  BY FS_EmptySet DEF nrespages

(* The sets of areas and shadows that a new object starts with. *)
LEMMA Sizes ==
  /\ Cardinality({}) = 0 /\ IsFiniteSet({})
  /\ \A x : Cardinality({x}) = 1 /\ IsFiniteSet({x})
  /\ \A x, y : x # y => Cardinality({x, y}) = 2
  <1>1. /\ Cardinality({}) = 0 /\ IsFiniteSet({})
        /\ \A x : Cardinality({x}) = 1 /\ IsFiniteSet({x})
    BY FS_EmptySet, FS_Singleton
  <1>2. ASSUME NEW x, NEW y, x # y PROVE Cardinality({x, y}) = 2
    <2>1. {x, y} = {x} \cup {y} /\ y \notin {x}
      BY <1>2
    <2>2. IsFiniteSet({x}) /\ Cardinality({x}) = 1
      BY <1>1
    <2>3. Cardinality({x} \cup {y}) = 1 + 1
      BY <2>1, <2>2, FS_AddElement
    <2> QED
      BY <2>1, <2>3
  <1> QED
    BY <1>1, <1>2

(* A process without an area has no translations and no private memory. *)
LEMMA NoAreaFacts ==
  ASSUME IInv, NEW p \in Proc, area[p] = NoArea
  PROVE  /\ area[p].obj = NULL /\ ~ area[p].private /\ Mem[p] = NULL
         /\ \A n \in Page : pt[p][n] = NULL
  <1>1. area[p].obj = NULL /\ ~ area[p].private
    BY DEF NoArea
  <1> QED
    BY <1>1, MemDefined, AreaFacts

(* vmmap_map of a shared area. *)
LEMMA MapSharedStep ==
  ASSUME IInv, NEW p \in Proc, NEW base \in {File, NULL}, MapShared(p, base)
  PROVE  IInv' /\ Mem' = Mem
  <1> DEFINE N == IF base = File THEN {} ELSE {Nth(1)}
             t == IF base = File THEN File ELSE NULL
             x == IF base = File THEN File ELSE Nth(1)
  <1>1. /\ p \in live /\ area[p] = NoArea
        /\ IF base = File THEN UNCHANGED mmo
           ELSE FreeObjs # {} /\ mmo' = [mmo EXCEPT ![Nth(1)].refs = 1]
        /\ area' = [area EXCEPT ![p].obj = x]
        /\ UNCHANGED <<live, data, vmas, pt, dirty>>
    BY DEF MapShared
  <1>2. /\ TypeOK
        /\ area \in [Proc -> [obj : Object \cup {NULL}, private : BOOLEAN]]
        /\ mmo \in [Obj -> [refs : Nat, below : Seq(Object)]]
    BY DEF IInv, TypeOK, Object
  <1>3. /\ area[p].obj = NULL /\ ~ area[p].private /\ Mem[p] = NULL
        /\ \A n \in Page : pt[p][n] = NULL
    BY <1>1, NoAreaFacts
  <1>4. /\ N \subseteq FreeObjs /\ (base # File => Nth(1) \in Obj)
        /\ t \notin N /\ t \in Object \cup {NULL} /\ x \in Object /\ x \in N \cup {t}
        /\ x \in Obj => x \in N
        /\ t \notin Obj
    <2>1. base # File => Nth(1) \in FreeObjs
      BY <1>1, NthIs
    <2> QED
      BY <2>1, MemoryAssumption DEF FreeObjs, Object
  <1>5. ASSUME base # File
        PROVE  mmo[Nth(1)].below = <<>> /\ mmo[Nth(1)].refs = 0
    BY <1>4, <1>5, FreeUnused DEF FreeObjs
  <1>6. ASSUME NEW y \in Obj
        PROVE  /\ mmo'[y].below = mmo[y].below
               /\ y \notin N => mmo'[y].refs = mmo[y].refs
               /\ y \in N => mmo'[y].refs = 1 /\ mmo'[y].below = <<>>
    <2>1. CASE base = File
      BY <2>1, <1>1
    <2>2. CASE base # File
      <3>1. mmo' = [mmo EXCEPT ![Nth(1)].refs = 1] /\ N = {Nth(1)}
        BY <2>2, <1>1
      <3> QED
        BY <3>1, <2>2, <1>2, <1>4, <1>5
    <2> QED
      BY <2>1, <2>2
  <1>7. mmo' \in [Obj -> [refs : Nat, below : Seq(Object)]]
    <2>1. CASE base = File
      BY <2>1, <1>1, <1>2
    <2>2. CASE base # File
      <3>1. mmo' = [mmo EXCEPT ![Nth(1)].refs = 1] /\ Nth(1) \in Obj
        BY <2>2, <1>1, <1>4
      <3>2. mmo[Nth(1)] \in [refs : Nat, below : Seq(Object)]
        BY <3>1, <1>2
      <3>3. [mmo[Nth(1)] EXCEPT !.refs = 1] \in [refs : Nat, below : Seq(Object)]
        BY <3>2
      <3> QED
        BY <3>1, <3>3, <1>2
    <2> QED
      BY <2>1, <2>2
  <1> HIDE DEF N, t, x
  <1>8. /\ area' \in [Proc -> [obj : Object \cup {NULL}, private : BOOLEAN]]
        /\ area'[p].obj = x /\ area'[p].private = area[p].private
        /\ \A q \in Proc : q # p => area'[q] = area[q]
    BY <1>1, <1>2, <1>4
  <1>9. TypeOK'
    BY <1>1, <1>2, <1>7, <1>8 DEF TypeOK, Object
  <1>10. Grows(N, t, {p})
    <2>1. \A o \in Obj \ N : /\ mmo'[o].below = mmo[o].below
                             /\ o # t => mmo'[o].refs = mmo[o].refs
      BY <1>6
    <2>2. N \subseteq Obj /\ \A y \in N : mmo'[y].below = <<>>
      BY <1>4, <1>6 DEF FreeObjs
    <2>3. \A q \in Proc, m \in Page :
            pt'[q][m] = NULL \/ (q \notin {p} /\ pt'[q][m] = pt[q][m])
      BY <1>1, <1>3
    <2> QED
      BY <2>1, <2>2, <2>3, <1>1, <1>3, <1>4, <1>8, <1>9 DEF Grows
  <1>11. ASSUME NEW o \in N \cup ({t} \cap Obj)
         PROVE  /\ mmo'[o].refs = Cardinality(Areas(o)') + nrespages(o)'
                                    + Cardinality(Shadows(o)')
                /\ mmo'[o].refs # 0 /\ Areas(o)' \cup Shadows(o)' # {}
    <2>1. o \in N /\ o \in Obj /\ o = x
      BY <1>4 DEF N, x, FreeObjs
    <2>2. \A y \in N : mmo'[y].below = <<>>
      BY <1>4, <1>6 DEF FreeObjs
    <2>3. Areas(o)' = {p} /\ Shadows(o)' = {} /\ Resident(o)' = {}
      <3>1. /\ Resident(o)' = {}
            /\ Areas(o)' = {q \in {p} : area'[q].obj = o}
            /\ Shadows(o)' = {s \in N : mmo'[s].below # <<>>
                                          /\ Head(mmo'[s].below) = o}
        BY <2>1, <1>10, GrowsParts
      <3> QED
        BY <3>1, <2>1, <2>2, <1>8
    <2>4. mmo'[o].refs = 1
      BY <2>1, <1>6
    <2> QED
      BY SMTT(30), <2>3, <2>4, Sizes, EmptyObject
  <1>12. \A q \in Proc : q \notin live' => area'[q] = NoArea
    BY <1>1, <1>8 DEF IInv, Owners
  <1>13. \A q \in {p} :
           /\ area'[q].private =>
                /\ area'[q].obj \in N /\ mmo'[area'[q].obj].below # <<>>
                /\ Areas(area[q].obj)' = {q} /\ Shadows(area[q].obj)' = {}
           /\ ~area'[q].private /\ area'[q].obj \in Obj
                => mmo'[area'[q].obj].below = <<>>
    BY <1>3, <1>4, <1>6, <1>8
  <1>14. \A q \in Proc \ {p} : area[q].private => area[q].obj # t
    BY <1>4 DEF IInv, Owners
  <1>15. IInv' /\ \A q \in Proc \ {p} : Mem'[q] = Mem[q]
    <2>1. Accounted(N, t, {p})
      BY <1>11, <1>12, <1>13, <1>14 DEF Accounted
    <2> QED
      BY <2>1, <1>10, GrowStep
  <1>16. Mem'[p] = NULL
    BY <1>3, <1>8 DEF Mem
  <1>17. Mem' = Mem
    BY <1>3, <1>15, <1>16 DEF Mem
  <1> QED
    BY <1>15, <1>17

(* A chain of one object. *)
LEMMA OneObject ==
  ASSUME NEW S, NEW u \in S
  PROVE  /\ <<u>> \in Seq(S) /\ <<u>> # <<>> /\ Head(<<u>>) = u
         /\ <<u>> \o <<>> = <<u>> /\ Last(<<u>>) = u
         /\ \A d, n : First(<<u>>, d, n) = u
  <1>1. <<u>> \in Seq(S) /\ <<u>> # <<>> /\ Len(<<u>>) = 1 /\ <<u>>[1] = u
        /\ Head(<<u>>) = u
    OBVIOUS
  <1>2. <<u>> \o <<>> = <<u>>
    BY <1>1, ConcatEmptySeq
  <1>3. Last(<<u>>) = u
    BY <1>1 DEF Last
  <1>4. ASSUME NEW d, NEW n PROVE First(<<u>>, d, n) = u
    <2> DEFINE c == <<u>>
    <2>1. c \in Seq(S) /\ c # <<>> /\ Len(c) = 1 /\ c[1] = u
      BY <1>1
    <2> HIDE DEF c
    <2>2. PICK k : Finds(c, d, n, k) /\ First(c, d, n) = c[k]
      BY <2>1, FirstHas
    <2>3. k = 1
      BY <2>1, <2>2 DEF Finds
    <2> QED
      BY <2>1, <2>2, <2>3 DEF c
  <1> QED
    BY <1>1, <1>2, <1>3, <1>4

(* A step of PrivateMemory that maps. *)
Maps(p) == Mem[p] = NULL /\ Mem' = [Mem EXCEPT ![p] = NoPages]

(* A new area with a shadow x over the object u, the file or a new object. *)
ShadowedArea(p, N, x, u) ==
  /\ p \in live /\ area[p] = NoArea
  /\ N \subseteq FreeObjs /\ x \in N /\ u # x
  /\ N = {x, u} \/ (N = {x} /\ u = File)
  /\ mmo' \in [Obj -> [refs : Nat, below : Seq(Object)]]
  /\ mmo'[x].refs = 1 /\ mmo'[x].below = <<u>>
  /\ \A y \in N : y # x => mmo'[y].refs = 1 /\ mmo'[y].below = <<>>
  /\ \A y \in Obj \ N : mmo'[y] = mmo[y]
  /\ area' = [area EXCEPT ![p] = [obj |-> x, private |-> TRUE]]
  /\ vmas' \subseteq Proc /\ UNCHANGED <<live, data, pt, dirty>>

LEMMA ShadowedAreaStep ==
  ASSUME IInv, NEW p \in Proc, NEW N, NEW x, NEW u, ShadowedArea(p, N, x, u)
  PROVE  IInv' /\ Maps(p)
  <1> USE DEF ShadowedArea
  <1> DEFINE t == IF u = File THEN File ELSE NULL
  <1>1. /\ TypeOK /\ p \in Proc /\ x \in Obj /\ N \subseteq Obj
        /\ area \in [Proc -> [obj : Object \cup {NULL}, private : BOOLEAN]]
        /\ File \notin Obj /\ NULL \notin Object
    BY MemoryAssumption DEF IInv, TypeOK, Object, FreeObjs
  <1>2. /\ area[p].obj = NULL /\ ~ area[p].private /\ Mem[p] = NULL
        /\ \A n \in Page : pt[p][n] = NULL
    BY <1>1, NoAreaFacts
  <1>3. /\ u \in Object /\ t \notin N /\ t \in Object \cup {NULL} /\ t \notin Obj
        /\ u \in N \cup {t} /\ (u \in Obj => u \in N /\ u # x)
    BY <1>1 DEF Object
  <1>4. N \cap Obj = N /\ \A y \in N : y = x \/ y = u
    BY <1>1
  <1>5. /\ area' \in [Proc -> [obj : Object \cup {NULL}, private : BOOLEAN]]
        /\ area'[p].obj = x /\ area'[p].private
        /\ \A q \in Proc : q # p => area'[q] = area[q]
    <2>1. [obj |-> x, private |-> TRUE] \in [obj : Object \cup {NULL}, private : BOOLEAN]
      BY <1>1 DEF Object
    <2> QED
      BY <2>1, <1>1
  <1>6. TypeOK'
    BY <1>1, <1>5 DEF TypeOK, Object
  <1>7. /\ <<u>> \in Seq(Object) /\ <<u>> # <<>> /\ Head(<<u>>) = u
        /\ <<u>> \o <<>> = <<u>> /\ Last(<<u>>) = u
        /\ \A d, n : First(<<u>>, d, n) = u
    BY <1>3, OneObject
  <1>8. u \in Obj => mmo'[u].below = <<>>
    BY <1>3
  <1>9. mmo'[x].below = Chain(Head(mmo[x].below))' /\ Head(mmo'[x].below) = u
        /\ mmo'[x].below # <<>>
    <2>1. Head(mmo'[x].below) = u /\ mmo'[x].below # <<>>
      BY <1>7
    <2>2. <<u>> \o (IF u \in Obj THEN mmo'[u].below ELSE <<>>) = <<u>>
      BY <1>7, <1>8
    <2> QED
      BY <2>1, <2>2 DEF Chain
  <1> HIDE DEF t
  <1>10. Grows(N, t, {p})
    <2>1. \A o \in Obj \ N : /\ mmo'[o].below = mmo[o].below
                             /\ o # t => mmo'[o].refs = mmo[o].refs
      OBVIOUS
    <2>2. ASSUME NEW y \in N, mmo'[y].below # <<>>
          PROVE  /\ Head(mmo'[y].below) \in N \cup {t}
                 /\ mmo'[y].below = Chain(Head(mmo[y].below))'
      <3>1. y = x
        BY <2>2
      <3> QED
        BY <3>1, <1>3, <1>9
    <2>3. \A q \in Proc, m \in Page :
            pt'[q][m] = NULL \/ (q \notin {p} /\ pt'[q][m] = pt[q][m])
      BY <1>2
    <2>4. data' = data /\ live \subseteq live'
      OBVIOUS
    <2> QED
      BY <2>1, <2>2, <2>3, <2>4, <1>1, <1>2, <1>3, <1>5, <1>6 DEF Grows
  <1>11. ASSUME NEW y \in N
         PROVE  /\ Resident(y)' = {}
                /\ y = x => Areas(y)' = {p} /\ Shadows(y)' = {}
                /\ y # x => Areas(y)' = {} /\ Shadows(y)' = {x}
    <2>1. /\ Resident(y)' = {}
          /\ Areas(y)' = {q \in {p} : area'[q].obj = y}
          /\ Shadows(y)' = {s \in N : mmo'[s].below # <<>>
                                        /\ Head(mmo'[s].below) = y}
      BY <1>10, GrowsParts
    <2>2. \A s \in N : mmo'[s].below # <<>> <=> s = x
      BY <1>9
    <2>3. Shadows(y)' = IF y = u THEN {x} ELSE {}
      BY <2>1, <2>2, <1>9
    <2> QED
      BY <2>1, <2>3, <1>4, <1>5
  <1>12. ASSUME NEW o \in N \cup ({t} \cap Obj)
         PROVE  /\ mmo'[o].refs = Cardinality(Areas(o)') + nrespages(o)'
                                    + Cardinality(Shadows(o)')
                /\ mmo'[o].refs # 0 /\ Areas(o)' \cup Shadows(o)' # {}
    <2>1. o \in N
      BY <1>3
    <2>2. mmo'[o].refs = 1
      BY <2>1
    <2>3. nrespages(o)' = 0
      BY <2>1, <1>11, EmptyObject
    <2>4. /\ Cardinality({}) = 0 /\ Cardinality({p}) = 1 /\ Cardinality({x}) = 1
      BY Sizes
    <2>5. \/ Areas(o)' = {p} /\ Shadows(o)' = {}
          \/ Areas(o)' = {} /\ Shadows(o)' = {x}
      BY <2>1, <1>11
    <2>6. \/ Cardinality(Areas(o)') = 1 /\ Cardinality(Shadows(o)') = 0
          \/ Cardinality(Areas(o)') = 0 /\ Cardinality(Shadows(o)') = 1
      BY <2>4, <2>5, Zenon
    <2>7. Areas(o)' \cup Shadows(o)' # {}
      BY <2>5, Zenon
    <2> HIDE DEF ShadowedArea
    <2>8. mmo'[o].refs = Cardinality(Areas(o)') + nrespages(o)'
                           + Cardinality(Shadows(o)')
      BY <2>2, <2>3, <2>6
    <2> QED
      BY <2>2, <2>7, <2>8
  <1>13. \A q \in Proc : q \notin live' => area'[q] = NoArea
    BY <1>5 DEF IInv, Owners
  <1>14. Areas(area[p].obj)' = {p} /\ Shadows(area[p].obj)' = {}
    <2>1. Areas(x)' = {p} /\ Shadows(x)' = {}
      BY <1>11
    <2> QED
      BY <2>1, <1>5 DEF Areas, Shadows
  <1>15. \A q \in {p} :
           /\ area'[q].private =>
                /\ area'[q].obj \in N /\ mmo'[area'[q].obj].below # <<>>
                /\ Areas(area[q].obj)' = {q} /\ Shadows(area[q].obj)' = {}
           /\ ~area'[q].private /\ area'[q].obj \in Obj
                => mmo'[area'[q].obj].below = <<>>
    BY <1>5, <1>9, <1>14
  <1>16. \A q \in Proc \ {p} : area[q].private => area[q].obj # t
    BY <1>3 DEF IInv, Owners
  <1>17. IInv' /\ \A q \in Proc \ {p} : Mem'[q] = Mem[q]
    <2>1. Accounted(N, t, {p})
      BY <1>12, <1>13, <1>15, <1>16 DEF Accounted
    <2> QED
      BY <2>1, <1>10, GrowStep
  <1>18. ASSUME NEW n \in Page PROVE Private(p, n)' = NULL
    <2>1. data'[x][n] = NULL
      <3>1. data[x][n] = NULL
        BY <1>1, FreeUnused DEF FreeObjs
      <3> QED
        BY <3>1
    <2>2. Chain(area[p].obj)' = <<x>> \o <<u>>
      BY <1>1, <1>5 DEF Chain
    <2>3. x \in Object
      BY <1>1 DEF Object
    <2>4. /\ First(<<x>> \o <<u>>, data', n) = First(<<u>>, data', n)
          /\ Last(<<x>> \o <<u>>) = Last(<<u>>)
      <3> DEFINE b == <<u>>
      <3>1. b \in Seq(Object) /\ b # <<>>
        BY <1>7
      <3> HIDE DEF b
      <3>2. First(<<x>> \o b, data', n) = First(b, data', n) /\ Last(<<x>> \o b) = Last(b)
        BY <3>1, <2>1, <2>3, FirstCons
      <3> QED
        BY <3>2 DEF b
    <2>5. ViewOf(<<x>> \o <<u>>, data', n) = NULL
      BY <2>4, <1>7 DEF ViewOf
    <2> QED
      BY <2>2, <2>5, PrivateIsPrime
  <1>19. Mem'[p] = NoPages
    <2>1. Mem'[p] = [n \in Page |-> Private(p, n)']
      BY <1>1, <1>5 DEF Mem
    <2> QED
      BY <2>1, <1>18 DEF NoPages
  <1>20. Maps(p)
    BY <1>2, <1>17, <1>19 DEF Mem, Maps
  <1> QED
    BY <1>17, <1>20

(* vmmap_map of a private area. *)
LEMMA MapPrivateStep ==
  ASSUME IInv, NEW p \in Proc, NEW base \in {File, NULL}, MapPrivate(p, base)
  PROVE  IInv' /\ Maps(p)
  <1>1. /\ p \in live /\ area[p] = NoArea /\ UNCHANGED <<live, data, pt, dirty>>
        /\ vmas \subseteq Proc
    BY DEF MapPrivate, IInv, TypeOK
  <1>2. mmo \in [Obj -> [refs : Nat, below : Seq(Object)]] /\ File \notin Obj
    BY MemoryAssumption DEF IInv, TypeOK, Object
  <1>3. CASE base = File
    <2> DEFINE x == Nth(1)
    <2>1. /\ FreeObjs # {}
          /\ mmo' = [mmo EXCEPT ![x] = [refs |-> 1, below |-> <<File>>]]
          /\ area' = [area EXCEPT ![p] = [obj |-> x, private |-> TRUE]]
          /\ vmas' = vmas \cup {p}
      BY <1>3 DEF MapPrivate
    <2>2. x \in FreeObjs /\ x \in Obj
      BY <2>1, NthIs DEF FreeObjs
    <2> HIDE DEF x
    <2>3. File \in Object /\ File # x
      BY <2>2, <1>2 DEF Object
    <2>4. [refs |-> 1, below |-> <<File>>] \in [refs : Nat, below : Seq(Object)]
      BY <2>3, OneObject
    <2>5. /\ mmo' \in [Obj -> [refs : Nat, below : Seq(Object)]]
          /\ mmo'[x].refs = 1 /\ mmo'[x].below = <<File>>
          /\ \A y \in Obj \ {x} : mmo'[y] = mmo[y]
      BY <2>1, <2>2, <2>4, <1>2
    <2>6. {x} \subseteq FreeObjs /\ x \in {x} /\ \A y \in {x} : y = x
      BY <2>2
    <2>7. vmas' \subseteq Proc
      BY <2>1, <1>1
    <2>8. /\ File # x
          /\ \A y \in {x} : y # x => mmo'[y].refs = 1 /\ mmo'[y].below = <<>>
          /\ UNCHANGED <<live, data, pt, dirty>>
      BY <2>3, <1>1
    <2>9. ShadowedArea(p, {x}, x, File)
      BY <2>1, <2>5, <2>6, <2>7, <2>8, <1>1 DEF ShadowedArea
    <2> QED
      BY <2>9, ShadowedAreaStep
  <1>4. CASE base # File
    <2> DEFINE u == Nth(1)
               x == Nth(2)
    <2>1. /\ Cardinality(FreeObjs) >= 2
          /\ mmo' = [mmo EXCEPT ![u].refs = 1, ![x] = [refs |-> 1, below |-> <<u>>]]
          /\ area' = [area EXCEPT ![p] = [obj |-> x, private |-> TRUE]]
          /\ vmas' = vmas
      BY <1>4 DEF MapPrivate
    <2>2. u \in FreeObjs /\ x \in FreeObjs /\ u # x /\ u \in Obj /\ x \in Obj
      BY <2>1, NthIs DEF FreeObjs
    <2> HIDE DEF u, x
    <2>3. mmo[u].below = <<>> /\ u \in Object
      BY <2>2, FreeUnused DEF FreeObjs, Object
    <2>4. [refs |-> 1, below |-> <<u>>] \in [refs : Nat, below : Seq(Object)]
      BY <2>3, OneObject
    <2>5. mmo[u] \in [refs : Nat, below : Seq(Object)]
      BY <2>2, <1>2
    <2>6. /\ [mmo[u] EXCEPT !.refs = 1] \in [refs : Nat, below : Seq(Object)]
          /\ [mmo[u] EXCEPT !.refs = 1].refs = 1
          /\ [mmo[u] EXCEPT !.refs = 1].below = <<>>
      BY <2>3, <2>5
    <2>7. /\ mmo'[x] = [refs |-> 1, below |-> <<u>>]
          /\ mmo'[u] = [mmo[u] EXCEPT !.refs = 1]
          /\ \A y \in Obj \ {x, u} : mmo'[y] = mmo[y]
          /\ DOMAIN mmo' = Obj /\ mmo' = [y \in Obj |-> mmo'[y]]
      BY <2>1, <2>2, <1>2
    <2>8. /\ mmo' \in [Obj -> [refs : Nat, below : Seq(Object)]]
          /\ mmo'[x].refs = 1 /\ mmo'[x].below = <<u>>
          /\ \A y \in {x, u} : y # x => mmo'[y].refs = 1 /\ mmo'[y].below = <<>>
      <3>1. \A y \in Obj : mmo'[y] \in [refs : Nat, below : Seq(Object)]
        <4>1. mmo'[x] \in [refs : Nat, below : Seq(Object)]
          BY <2>4, <2>7
        <4>2. mmo'[u] \in [refs : Nat, below : Seq(Object)]
          BY <2>6, <2>7
        <4>3. \A y \in Obj \ {x, u} : mmo'[y] \in [refs : Nat, below : Seq(Object)]
          BY <2>7, <1>2
        <4> QED
          BY <4>1, <4>2, <4>3
      <3>2. mmo' \in [Obj -> [refs : Nat, below : Seq(Object)]]
        BY <3>1, <2>7
      <3>3. mmo'[x].refs = 1 /\ mmo'[x].below = <<u>>
        BY <2>7
      <3>4. \A y \in {x, u} : y # x => mmo'[y].refs = 1 /\ mmo'[y].below = <<>>
        BY <2>6, <2>7
      <3> QED
        BY <3>2, <3>3, <3>4
    <2>9. /\ {x, u} \subseteq FreeObjs /\ x \in {x, u} /\ u # x
          /\ \A y \in Obj \ {x, u} : mmo'[y] = mmo[y]
          /\ UNCHANGED <<live, data, pt, dirty>> /\ vmas' \subseteq Proc
      BY <2>1, <2>2, <2>7, <1>1
    <2>10. ShadowedArea(p, {x, u}, x, u)
      BY <2>1, <2>8, <2>9, <1>1 DEF ShadowedArea
    <2> QED
      BY <2>10, ShadowedAreaStep
  <1> QED
    BY <1>3, <1>4

(* A step of PrivateMemory that forks. *)
Forks(p, c) ==
  Mem[p] # NULL /\ Mem[c] = NULL /\ Mem' = [Mem EXCEPT ![c] = Mem[p]]

(* fork of a process whose area is shared, or that has none. *)
LEMMA ForkSharedStep ==
  ASSUME IInv, NEW p \in Proc, NEW c \in Proc, do_fork(p, c), ~ area[p].private
  PROVE  IInv' /\ Mem' = Mem
  <1>1. PICK t : t = area[p].obj
    OBVIOUS
  <1>2. /\ p \in live /\ c \notin live
        /\ mmo' = [o \in Obj |-> IF o = t THEN [mmo[o] EXCEPT !.refs = @ + 1]
                                 ELSE mmo[o]]
        /\ area' = [area EXCEPT ![c] = area[p]]
        /\ pt' = [pt EXCEPT ![p] = NoPages]
        /\ live' = live \cup {c}
        /\ vmas' = vmas /\ data' = data /\ dirty' = dirty
    BY <1>1 DEF do_fork, Clone
  <1>3. /\ TypeOK /\ Counted /\ Owners /\ Referenced
        /\ area \in [Proc -> [obj : Object \cup {NULL}, private : BOOLEAN]]
        /\ mmo \in [Obj -> [refs : Nat, below : Seq(Object)]]
        /\ pt \in [Proc -> [Page -> [obj : Object, w : BOOLEAN] \cup {NULL}]]
        /\ t \in Object \cup {NULL} /\ NULL \notin Obj
    BY <1>1, MemoryAssumption DEF IInv, TypeOK, Object
  <1>4. /\ area[c] = NoArea /\ area[c].obj = NULL /\ ~ area[c].private /\ c # p
        /\ Mem[c] = NULL /\ \A n \in Page : pt[c][n] = NULL
    <2>1. area[c] = NoArea
      BY <1>2, <1>3 DEF Owners
    <2> QED
      BY <2>1, <1>2, NoAreaFacts
  <1>5. t \in Obj => mmo[t].below = <<>>
    BY <1>1, <1>3 DEF Owners
  <1>6. ASSUME NEW o \in Obj
        PROVE  /\ mmo'[o] \in [refs : Nat, below : Seq(Object)]
               /\ mmo'[o].below = mmo[o].below
               /\ mmo'[o].refs = IF o = t THEN mmo[o].refs + 1 ELSE mmo[o].refs
    <2>1. mmo[o] \in [refs : Nat, below : Seq(Object)] /\ mmo[o].refs + 1 \in Nat
      BY <1>3
    <2>2. /\ [mmo[o] EXCEPT !.refs = @ + 1] \in [refs : Nat, below : Seq(Object)]
          /\ [mmo[o] EXCEPT !.refs = @ + 1].refs = mmo[o].refs + 1
          /\ [mmo[o] EXCEPT !.refs = @ + 1].below = mmo[o].below
      BY <2>1
    <2>3. mmo'[o] = IF o = t THEN [mmo[o] EXCEPT !.refs = @ + 1] ELSE mmo[o]
      BY <1>2
    <2> QED
      BY <2>1, <2>2, <2>3
  <1>7. /\ area'[c] = area[p] /\ \A q \in Proc : q # c => area'[q] = area[q]
        /\ area' \in [Proc -> [obj : Object \cup {NULL}, private : BOOLEAN]]
    BY <1>2, <1>3
  <1>8. /\ pt' \in [Proc -> [Page -> [obj : Object, w : BOOLEAN] \cup {NULL}]]
        /\ \A q \in Proc, m \in Page :
             pt'[q][m] = NULL \/ (q \notin {c} /\ pt'[q][m] = pt[q][m])
    <2>1. NoPages \in [Page -> [obj : Object, w : BOOLEAN] \cup {NULL}]
          /\ \A m \in Page : NoPages[m] = NULL
      BY DEF NoPages
    <2> QED
      BY <2>1, <1>2, <1>3, <1>4
  <1>9. TypeOK'
    <2>1. mmo' \in [Obj -> [refs : Nat, below : Seq(Object)]]
      BY <1>2, <1>6
    <2> QED
      BY <2>1, <1>2, <1>3, <1>7, <1>8 DEF TypeOK, Object
  <1>10. Grows({}, t, {c})
    <2>1. \A q \in {c} : area[q].obj \in {NULL, t} /\ area'[q].obj \in {} \cup {NULL, t}
      BY <1>1, <1>4, <1>7
    <2>2. \A q \in Proc \ {c} : area'[q] = area[q]
      BY <1>7
    <2> QED
      BY <2>1, <2>2, <1>2, <1>3, <1>6, <1>8, <1>9 DEF Grows
  <1>11. ASSUME t \in Obj
         PROVE  /\ mmo'[t].refs = Cardinality(Areas(t)') + nrespages(t)'
                                    + Cardinality(Shadows(t)')
                /\ mmo'[t].refs # 0 /\ Areas(t)' \cup Shadows(t)' # {}
    <2>1. /\ Resident(t)' = Resident(t)
          /\ Areas(t)' = (Areas(t) \ {c}) \cup {q \in {c} : area'[q].obj = t}
          /\ Shadows(t)' = Shadows(t)
      <3> DEFINE N == {}
      <3>1. Grows(N, t, {c}) /\ t \in Obj \ N /\ \A s : s \notin N
        BY <1>10, <1>11
      <3> HIDE DEF N
      <3>2. /\ Resident(t)' = Resident(t)
            /\ Areas(t)' = (Areas(t) \ {c}) \cup {q \in {c} : area'[q].obj = t}
            /\ Shadows(t)' = Shadows(t) \cup {s \in N : mmo'[s].below # <<>>
                                                           /\ Head(mmo'[s].below) = t}
        BY <3>1, GrowsParts
      <3>3. {s \in N : mmo'[s].below # <<>> /\ Head(mmo'[s].below) = t} = {}
        BY <3>1
      <3> QED
        BY <3>2, <3>3
    <2>2. /\ Areas(t)' = Areas(t) \cup {c} /\ Shadows(t)' = Shadows(t)
          /\ c \notin Areas(t)
      BY <2>1, <1>1, <1>3, <1>4, <1>7, <1>11 DEF Areas
    <2>3. Cardinality(Areas(t) \cup {c}) = Cardinality(Areas(t)) + 1
      BY <2>2, Counts, FS_AddElement
    <2>4. mmo[t].refs = Cardinality(Areas(t)) + nrespages(t) + Cardinality(Shadows(t))
      BY <1>3, <1>11 DEF Counted
    <2>5. nrespages(t)' = nrespages(t)
      BY <2>1 DEF nrespages
    <2>6. /\ Cardinality(Areas(t)) \in Nat /\ nrespages(t) \in Nat
          /\ Cardinality(Shadows(t)) \in Nat
      BY Counts
    <2>7. mmo'[t].refs = mmo[t].refs + 1
      BY <1>6, <1>11
    <2>8. Areas(t)' \cup Shadows(t)' # {}
      BY <2>2
    <2>9. /\ mmo'[t].refs = Cardinality(Areas(t) \cup {c}) + nrespages(t)
                              + Cardinality(Shadows(t))
          /\ mmo'[t].refs # 0
      BY <2>3, <2>4, <2>6, <2>7
    <2> QED
      BY <2>2, <2>5, <2>8, <2>9
  <1>12. Accounted({}, t, {c})
    <2>1. \A q \in Proc : q \notin live' => area'[q] = NoArea
      BY <1>2, <1>3, <1>7 DEF Owners
    <2>2. /\ ~ area'[c].private
          /\ area'[c].obj \in Obj => mmo'[area'[c].obj].below = <<>>
      BY <1>1, <1>5, <1>6, <1>7
    <2>3. \A q \in Proc \ {c} : area[q].private => area[q].obj # t
      BY <1>5, <1>3 DEF Owners
    <2>4. \A o \in {} \cup ({t} \cap Obj) : o = t /\ t \in Obj
      OBVIOUS
    <2> QED
      BY <2>1, <2>2, <2>3, <2>4, <1>11 DEF Accounted
  <1>13. IInv' /\ \A q \in Proc \ {c} : Mem'[q] = Mem[q]
    BY <1>10, <1>12, GrowStep
  <1>14. Mem'[c] = Mem[c]
    BY <1>4, <1>7 DEF Mem
  <1>15. Mem' = Mem
    BY <1>13, <1>14 DEF Mem
  <1> QED
    BY <1>13, <1>15

(* fork of a process with a private area: what it had is now below two new *)
(* objects, one for each, and no other refers to it.                       *)
LEMMA ForkPrivateStep ==
  ASSUME IInv, NEW p \in Proc, NEW c \in Proc, do_fork(p, c), area[p].private
  PROVE  IInv' /\ Forks(p, c)
  <1>1. PICK t, a, b : t = area[p].obj /\ a = Nth(1) /\ b = Nth(2)
    OBVIOUS
  <1> DEFINE twin == [refs |-> 1, below |-> Chain(t)]
             N == {a, b}
             D == {p, c}
  <1>2. /\ p \in live /\ c \notin live /\ Cardinality(FreeObjs) >= 2
        /\ mmo' = [o \in Obj |-> IF o \in N THEN twin
                                 ELSE IF o = t THEN [mmo[o] EXCEPT !.refs = @ + 1]
                                 ELSE mmo[o]]
        /\ area' = [area EXCEPT ![p].obj = b, ![c] = [obj |-> a, private |-> TRUE]]
        /\ vmas' \subseteq vmas \cup {c}
        /\ pt' = [pt EXCEPT ![p] = NoPages]
        /\ live' = live \cup {c}
        /\ data' = data /\ dirty' = dirty
    BY <1>1 DEF do_fork, Clone
  <1>3. /\ TypeOK /\ ChainsOK /\ Counted /\ Owners
        /\ area \in [Proc -> [obj : Object \cup {NULL}, private : BOOLEAN]]
        /\ mmo \in [Obj -> [refs : Nat, below : Seq(Object)]]
        /\ pt \in [Proc -> [Page -> [obj : Object, w : BOOLEAN] \cup {NULL}]]
        /\ NULL \notin Object
    BY MemoryAssumption DEF IInv, TypeOK, Object
  <1>4. /\ t \in Obj /\ t \in Object /\ mmo[t].below # <<>>
        /\ Areas(t) = {p} /\ Shadows(t) = {} /\ Mem[p] # NULL
        /\ Mem[p] = [n \in Page |-> Private(p, n)]
    BY <1>1, <1>3, MemDefined DEF Owners, Object
  <1>5. /\ area[c] = NoArea /\ area[c].obj = NULL /\ ~ area[c].private /\ c # p
        /\ Mem[c] = NULL /\ \A n \in Page : pt[c][n] = NULL
    <2>1. area[c] = NoArea
      BY <1>2, <1>3 DEF Owners
    <2> QED
      BY <2>1, <1>2, NoAreaFacts
  <1>6. /\ a \in FreeObjs /\ b \in FreeObjs /\ a # b /\ a \in Obj /\ b \in Obj
        /\ a \in Object /\ b \in Object
    BY <1>1, <1>2, NthIs DEF FreeObjs, Object
  <1>7. t # a /\ t # b /\ \A n \in Page : data[a][n] = NULL /\ data[b][n] = NULL
    <2>1. /\ Areas(a) = {} /\ \A n \in Page : data[a][n] = NULL
          /\ Areas(b) = {} /\ \A n \in Page : data[b][n] = NULL
      BY <1>6, FreeUnused DEF FreeObjs
    <2> QED
      BY <2>1, <1>4
  <1>8. /\ Chain(t) \in Seq(Object) /\ Chain(t) # <<>> /\ Head(Chain(t)) = t
    <2>1. Chain(t) \in Seq(Object) /\ Chain(t) # <<>> /\ Chain(t)[1] = t
      BY <1>3, <1>4, ChainType
    <2>2. Head(Chain(t)) = Chain(t)[1]
      BY <2>1, HeadTailProperties
    <2> QED
      BY <2>1, <2>2
  <1>9. /\ mmo'[a] = twin /\ mmo'[b] = twin
        /\ twin \in [refs : Nat, below : Seq(Object)]
        /\ twin.refs = 1 /\ twin.below = Chain(t)
    BY <1>2, <1>6, <1>8
  <1> HIDE DEF twin
  <1>10. ASSUME NEW o \in Obj, o \notin N
         PROVE  /\ mmo'[o] \in [refs : Nat, below : Seq(Object)]
                /\ mmo'[o].below = mmo[o].below
                /\ mmo'[o].refs = IF o = t THEN mmo[o].refs + 1 ELSE mmo[o].refs
    <2>1. mmo[o] \in [refs : Nat, below : Seq(Object)] /\ mmo[o].refs + 1 \in Nat
      BY <1>3
    <2>2. /\ [mmo[o] EXCEPT !.refs = @ + 1] \in [refs : Nat, below : Seq(Object)]
          /\ [mmo[o] EXCEPT !.refs = @ + 1].refs = mmo[o].refs + 1
          /\ [mmo[o] EXCEPT !.refs = @ + 1].below = mmo[o].below
      BY <2>1
    <2>3. mmo'[o] = IF o = t THEN [mmo[o] EXCEPT !.refs = @ + 1] ELSE mmo[o]
      BY <1>2, <1>10
    <2> QED
      BY <2>1, <2>2, <2>3
  <1>11. /\ area'[p].obj = b /\ area'[p].private
         /\ area'[c].obj = a /\ area'[c].private
         /\ \A q \in Proc : q # p /\ q # c => area'[q] = area[q]
         /\ area' \in [Proc -> [obj : Object \cup {NULL}, private : BOOLEAN]]
    <2>1. [obj |-> a, private |-> TRUE] \in [obj : Object \cup {NULL}, private : BOOLEAN]
      BY <1>6
    <2>2. area[p] \in [obj : Object \cup {NULL}, private : BOOLEAN]
      BY <1>3
    <2>3. /\ [area[p] EXCEPT !.obj = b] \in [obj : Object \cup {NULL}, private : BOOLEAN]
          /\ [area[p] EXCEPT !.obj = b].obj = b
          /\ [area[p] EXCEPT !.obj = b].private = area[p].private
      BY <2>2, <1>6
    <2>4. /\ area'[p] = [area[p] EXCEPT !.obj = b]
          /\ area'[c] = [obj |-> a, private |-> TRUE]
          /\ \A q \in Proc : q # p /\ q # c => area'[q] = area[q]
          /\ area' = [q \in Proc |-> area'[q]]
      BY <1>2, <1>3, <1>5
    <2>5. \A q \in Proc : area'[q] \in [obj : Object \cup {NULL}, private : BOOLEAN]
      BY <2>1, <2>3, <2>4, <1>3
    <2>6. area' \in [Proc -> [obj : Object \cup {NULL}, private : BOOLEAN]]
      BY <2>4, <2>5
    <2> QED
      BY <2>3, <2>4, <2>6
  <1>12. /\ pt' \in [Proc -> [Page -> [obj : Object, w : BOOLEAN] \cup {NULL}]]
         /\ \A q \in Proc, m \in Page :
              pt'[q][m] = NULL \/ (q \notin D /\ pt'[q][m] = pt[q][m])
    <2>1. NoPages \in [Page -> [obj : Object, w : BOOLEAN] \cup {NULL}]
          /\ \A m \in Page : NoPages[m] = NULL
      BY DEF NoPages
    <2> QED
      BY <2>1, <1>2, <1>3, <1>5
  <1>13. TypeOK'
    <2>1. \A o \in Obj : mmo'[o] \in [refs : Nat, below : Seq(Object)]
      BY <1>9, <1>10
    <2>2. mmo' \in [Obj -> [refs : Nat, below : Seq(Object)]]
      BY <2>1, <1>2
    <2> QED
      BY <2>2, <1>2, <1>3, <1>11, <1>12 DEF TypeOK, Object
  <1>14. Chain(t)' = Chain(t)
    <2>1. mmo'[t].below = mmo[t].below
      BY <1>4, <1>7, <1>10
    <2> QED
      BY <2>1 DEF Chain
  <1>15. \A x \in N : /\ mmo'[x].below = Chain(t) /\ mmo'[x].below # <<>>
                      /\ Head(mmo'[x].below) = t /\ mmo'[x].refs = 1
    BY <1>8, <1>9
  <1>16. Grows(N, t, D)
    <2>1. \A o \in Obj \ N : /\ mmo'[o].below = mmo[o].below
                             /\ o # t => mmo'[o].refs = mmo[o].refs
      BY <1>10
    <2>2. ASSUME NEW x \in N
          PROVE  /\ Head(mmo'[x].below) \in N \cup {t}
                 /\ mmo'[x].below = Chain(Head(mmo[x].below))'
      BY <1>14, <1>15 DEF Chain
    <2>3. \A q \in Proc \ D : area'[q] = area[q]
      BY <1>11
    <2>4. \A q \in D : area[q].obj \in {NULL, t} /\ area'[q].obj \in N \cup {NULL, t}
      BY <1>1, <1>5, <1>11
    <2>5. N \subseteq FreeObjs /\ t \notin N /\ D \subseteq Proc /\ live \subseteq live'
      BY <1>2, <1>6, <1>7
    <2> HIDE DEF N, D
    <2> QED
      BY <2>1, <2>2, <2>3, <2>4, <2>5, <1>2, <1>4, <1>12, <1>13 DEF Grows
  <1>17. /\ Areas(a)' = {c} /\ Areas(b)' = {p} /\ Areas(t)' = {}
         /\ Shadows(a)' = {} /\ Shadows(b)' = {} /\ Shadows(t)' = {a, b}
         /\ Resident(a)' = {} /\ Resident(b)' = {} /\ Resident(t)' = Resident(t)
    <2>1. ASSUME NEW x \in N
          PROVE  /\ Resident(x)' = {} /\ Shadows(x)' = {}
                 /\ Areas(x)' = {q \in D : area'[q].obj = x}
      <3>1. /\ Resident(x)' = {}
            /\ Areas(x)' = {q \in D : area'[q].obj = x}
            /\ Shadows(x)' = {s \in N : mmo'[s].below # <<>> /\ Head(mmo'[s].below) = x}
        BY <1>16, GrowsParts
      <3>2. x # t
        BY <1>7
      <3>3. {s \in N : mmo'[s].below # <<>> /\ Head(mmo'[s].below) = x} = {}
        BY <3>2, <1>15
      <3> QED
        BY <3>1, <3>3
    <2>2. t \in Obj \ N
      BY <1>4, <1>7
    <2>3. /\ Resident(t)' = Resident(t)
          /\ Areas(t)' = (Areas(t) \ D) \cup {q \in D : area'[q].obj = t}
          /\ Shadows(t)' = Shadows(t) \cup {s \in N : mmo'[s].below # <<>>
                                                        /\ Head(mmo'[s].below) = t}
      BY <2>2, <1>16, GrowsParts
    <2>4. {s \in N : mmo'[s].below # <<>> /\ Head(mmo'[s].below) = t} = {a, b}
      BY <1>15
    <2>5. {q \in D : area'[q].obj = t} = {} /\ Areas(t) \ D = {}
      BY <1>4, <1>7, <1>11
    <2>6. {q \in D : area'[q].obj = a} = {c} /\ {q \in D : area'[q].obj = b} = {p}
      BY <1>6, <1>11
    <2>7. Areas(t)' = {} /\ Shadows(t)' = {a, b}
      BY <2>3, <2>4, <2>5, <1>4
    <2> QED
      BY <2>1, <2>3, <2>6, <2>7
  <1>18. ASSUME NEW o \in N \cup ({t} \cap Obj)
         PROVE  /\ mmo'[o].refs = Cardinality(Areas(o)') + nrespages(o)'
                                    + Cardinality(Shadows(o)')
                /\ mmo'[o].refs # 0 /\ Areas(o)' \cup Shadows(o)' # {}
    <2>1. /\ Cardinality({}) = 0 /\ Cardinality({p}) = 1 /\ Cardinality({c}) = 1
          /\ Cardinality({a, b}) = 2
      BY <1>6, Sizes
    <2>2. ASSUME NEW x \in N
          PROVE  /\ mmo'[x].refs = Cardinality(Areas(x)') + nrespages(x)'
                                     + Cardinality(Shadows(x)')
                 /\ mmo'[x].refs # 0 /\ Areas(x)' \cup Shadows(x)' # {}
      <3>1. /\ Cardinality(Areas(x)') = 1 /\ Cardinality(Shadows(x)') = 0
            /\ Resident(x)' = {} /\ Areas(x)' # {}
        BY <2>1, <1>17
      <3>2. nrespages(x)' = 0
        BY <3>1, EmptyObject
      <3>3. mmo'[x].refs = 1
        BY <1>15
      <3>4. Areas(x)' \cup Shadows(x)' # {}
        BY <3>1
      <3> QED
        BY <3>1, <3>2, <3>3, <3>4
    <2>3. /\ mmo'[t].refs = Cardinality(Areas(t)') + nrespages(t)'
                              + Cardinality(Shadows(t)')
          /\ mmo'[t].refs # 0 /\ Areas(t)' \cup Shadows(t)' # {}
      <3>1. mmo'[t].refs = mmo[t].refs + 1
        BY <1>4, <1>7, <1>10
      <3>2. mmo[t].refs = 1 + nrespages(t) + 0
        <4>1. Cardinality(Areas(t)) = 1 /\ Cardinality(Shadows(t)) = 0
          BY <2>1, <1>4
        <4>2. mmo[t].refs = Cardinality(Areas(t)) + nrespages(t)
                              + Cardinality(Shadows(t))
          BY <1>3, <1>4 DEF Counted
        <4> QED
          BY <4>1, <4>2
      <3>3. nrespages(t)' = nrespages(t) /\ nrespages(t) \in Nat
        BY <1>17, Counts DEF nrespages
      <3>4. Cardinality(Areas(t)') = 0 /\ Cardinality(Shadows(t)') = 2
        BY <2>1, <1>17
      <3>5. Areas(t)' \cup Shadows(t)' # {}
        BY <1>17
      <3> QED
        BY <3>1, <3>2, <3>3, <3>4, <3>5
    <2>4. o \in N \/ o = t
      OBVIOUS
    <2> QED
      BY <2>2, <2>3, <2>4
  <1>19. Accounted(N, t, D)
    <2>1. \A q \in Proc : q \notin live' => area'[q] = NoArea
      BY <1>2, <1>3, <1>11 DEF Owners
    <2>2. ASSUME NEW q \in D
          PROVE  /\ area'[q].private
                 /\ area'[q].obj \in N /\ mmo'[area'[q].obj].below # <<>>
                 /\ Areas(area[q].obj)' = {q} /\ Shadows(area[q].obj)' = {}
      <3>1. \E x \in N : area'[q].obj = x /\ Areas(x)' = {q} /\ Shadows(x)' = {}
        BY <1>11, <1>17
      <3>2. area'[q].private
        BY <1>11
      <3> QED
        BY <3>1, <3>2, <1>15 DEF Areas, Shadows
    <2>3. \A q \in Proc \ D : area[q].private => area[q].obj # t
      BY <1>4 DEF Areas
    <2> HIDE DEF N, D
    <2> QED
      BY <2>1, <2>2, <2>3, <1>18 DEF Accounted
  <1>20. IInv' /\ \A q \in Proc \ D : Mem'[q] = Mem[q]
    BY <1>16, <1>19, GrowStep
  <1>21. ASSUME NEW q \in D
         PROVE  Mem'[q] = Mem[p]
    <2>1. PICK x \in N : area'[q].obj = x /\ area'[q].private
      BY <1>11
    <2>2. Chain(area[q].obj)' = <<x>> \o Chain(t)
      <3>1. x \in Obj /\ mmo'[x].below = Chain(t)
        BY <1>6, <1>15
      <3> QED
        BY <3>1, <2>1 DEF Chain
    <2>3. ASSUME NEW n \in Page PROVE Private(q, n)' = Private(p, n)
      <3>1. x \in Object /\ data[x][n] = NULL
        BY <1>6, <1>7
      <3>2. /\ First(<<x>> \o Chain(t), data, n) = First(Chain(t), data, n)
            /\ Last(<<x>> \o Chain(t)) = Last(Chain(t))
        BY <3>1, <1>8, FirstCons
      <3>3. ViewOf(<<x>> \o Chain(t), data, n) = ViewOf(Chain(t), data, n)
        BY <3>2 DEF ViewOf
      <3>4. Private(q, n)' = ViewOf(Chain(area[q].obj)', data', n)
        BY PrivateIsPrime
      <3>5. Private(p, n) = ViewOf(Chain(t), data, n)
        BY <1>1, PrivateIs
      <3> QED
        BY <3>3, <3>4, <3>5, <2>2, <1>2
    <2>4. q \in Proc
      OBVIOUS
    <2>5. Mem'[q] = [n \in Page |-> Private(q, n)']
      BY <2>1, <2>4 DEF Mem
    <2> QED
      BY <2>3, <2>5, <1>4
  <1>22. Mem' = [Mem EXCEPT ![c] = Mem[p]]
    <2>1. Mem'[p] = Mem[p] /\ Mem'[c] = Mem[p]
      BY <1>21
    <2>2. ASSUME NEW q \in Proc PROVE Mem'[q] = [Mem EXCEPT ![c] = Mem[p]][q]
      <3>1. q \in D \/ q \in Proc \ D
        OBVIOUS
      <3> QED
        BY <3>1, <2>1, <1>20 DEF Mem
    <2> QED
      BY <2>2 DEF Mem
  <1> QED
    BY <1>4, <1>5, <1>20, <1>22 DEF Forks

-----------------------------------------------------------------------------
(* The kernel starts with nothing mapped. *)
LEMMA InitStep ==
  ASSUME Init
  PROVE  IInv /\ Mem = [p \in Proc |-> NULL]
  <1>1. /\ 0 \in Value /\ NULL \notin Obj
    BY MemoryAssumption
  <1>2. /\ NoArea \in [obj : Object \cup {NULL}, private : BOOLEAN]
        /\ NoArea.obj = NULL /\ ~ NoArea.private
        /\ Free \in [refs : Nat, below : Seq(Object)] /\ Free.refs = 0
        /\ Free.below = <<>>
        /\ NoPages \in [Page -> Value \cup {NULL}]
        /\ NoPages \in [Page -> [obj : Object, w : BOOLEAN] \cup {NULL}]
        /\ \A n \in Page : NoPages[n] = NULL
    BY EmptySeq DEF NoArea, Free, NoPages
  <1>3. /\ live \subseteq Proc
        /\ mmo = [o \in Obj |-> Free]
        /\ data = [o \in Object |-> IF o = File THEN [n \in Page |-> 0] ELSE NoPages]
        /\ area = [p \in Proc |-> NoArea] /\ pt = [p \in Proc |-> NoPages]
        /\ vmas = {} /\ dirty = {}
    BY DEF Init, Object
  <1>4. TypeOK
    <2>1. data \in [Object -> [Page -> Value \cup {NULL}]]
      <3>1. [n \in Page |-> 0] \in [Page -> Value \cup {NULL}]
        BY <1>1
      <3> QED
        BY <3>1, <1>2, <1>3
    <2> QED
      BY <2>1, <1>2, <1>3 DEF TypeOK, Object
  <1>5. ChainsOK
    BY <1>2, <1>3 DEF ChainsOK
  <1>6. Owners
    BY <1>1, <1>2, <1>3 DEF Owners
  <1>7. ASSUME NEW o \in Obj
        PROVE  Areas(o) = {} /\ Shadows(o) = {} /\ Resident(o) = {} /\ mmo[o].refs = 0
    <2>1. o # File /\ o # NULL /\ o \in Object
      BY MemoryAssumption DEF Object
    <2> QED
      BY <2>1, <1>2, <1>3 DEF Areas, Shadows, Resident
  <1>8. Counted /\ Referenced
    BY <1>7, Sizes DEF Counted, Referenced, nrespages
  <1>9. TranslationsFresh
    BY <1>2, <1>3 DEF TranslationsFresh
  <1>10. Mem = [p \in Proc |-> NULL]
    BY <1>2, <1>3 DEF Mem
  <1> QED
    BY <1>4, <1>5, <1>6, <1>8, <1>9, <1>10 DEF IInv

(* What a step does to private memory. *)
MemStep ==
  \/ Mem' = Mem
  \/ \E p \in Proc : \/ Maps(p) \/ Unmaps(p)
                     \/ \E n \in Page, v \in Value : Stores(p, n, v)
                     \/ \E c \in Proc : Forks(p, c)

LEMMA NextStep ==
  ASSUME IInv, [Next]_vars
  PROVE  IInv' /\ MemStep
  <1>1. ASSUME NEW p \in Proc, NEW base \in {File, NULL}, MapShared(p, base)
        PROVE  IInv' /\ MemStep
    BY <1>1, MapSharedStep DEF MemStep
  <1>2. ASSUME NEW p \in Proc, NEW base \in {File, NULL}, MapPrivate(p, base)
        PROVE  IInv' /\ MemStep
    BY <1>2, MapPrivateStep DEF MemStep
  <1>3. ASSUME NEW p \in Proc, munmap(p) \/ vmmap_destroy(p)
        PROVE  IInv' /\ MemStep
    BY <1>3, UnmapStep DEF MemStep, munmap, vmmap_destroy
  <1>4. ASSUME NEW p \in Proc, NEW n \in Page, ReadFault(p, n)
        PROVE  IInv' /\ MemStep
    BY <1>4, ReadFaultStep DEF MemStep
  <1>5. ASSUME NEW p \in Proc, NEW n \in Page, NEW v \in Value, WriteFault(p, n, v)
        PROVE  IInv' /\ MemStep
    BY <1>5, WriteFaultStep DEF MemStep
  <1>6. ASSUME NEW p \in Proc, NEW n \in Page, NEW v \in Value, Store(p, n, v)
        PROVE  IInv' /\ MemStep
    BY <1>6, StoreStep DEF MemStep
  <1>7. ASSUME NEW p \in Proc, NEW c \in Proc, do_fork(p, c)
        PROVE  IInv' /\ MemStep
    <2>1. CASE area[p].private
      BY <1>7, <2>1, ForkPrivateStep DEF MemStep
    <2>2. CASE ~ area[p].private
      BY <1>7, <2>2, ForkSharedStep DEF MemStep
    <2> QED
      BY <2>1, <2>2
  <1>8. ASSUME NEW n \in Page, Clean(n)
        PROVE  IInv' /\ MemStep
    BY <1>8, CleanStep DEF MemStep
  <1>9. CASE UNCHANGED vars
    <2>1. /\ live' = live /\ mmo' = mmo /\ data' = data /\ area' = area /\ vmas' = vmas
          /\ pt' = pt /\ dirty' = dirty
      BY <1>9 DEF vars
    <2>2. IInv'
      <3>1. TypeOK'
        BY <2>1 DEF IInv, TypeOK
      <3>2. ChainsOK' /\ Owners' /\ Counted' /\ Referenced'
        BY <2>1 DEF IInv, ChainsOK, Owners, Counted, Referenced, Chain, Areas,
                    Shadows, nrespages, Resident
      <3>3. TranslationsFresh'
        <4>1. \A q \in Proc : Chain(area[q].obj)' = Chain(area[q].obj)
          BY <2>1 DEF Chain
        <4> QED
          BY <2>1, <4>1, FreshIs, FreshIsPrime DEF IInv
      <3> QED
        BY <3>1, <3>2, <3>3 DEF IInv
    <2>3. Mem' = Mem
      BY <2>1 DEF Mem, Private, Holder, Bottom, Chain
    <2> QED
      BY <2>2, <2>3 DEF MemStep
  <1> QED
    BY <1>1, <1>2, <1>3, <1>4, <1>5, <1>6, <1>7, <1>8, <1>9 DEF Next

(* The inductive invariant holds in every reachable state. *)
THEOREM MemoryInvariant == Spec => []IInv
  <1>1. Init => IInv
    BY InitStep
  <1>2. IInv /\ [Next]_vars => IInv'
    BY NextStep
  <1> QED
    BY <1>1, <1>2, PTL DEF Spec

(* Every variable has its type. *)
THEOREM TypeCorrect == Spec => []TypeOK
  <1>1. IInv => TypeOK
    BY DEF IInv
  <1> QED
    BY <1>1, MemoryInvariant, PTL

(* mmo_refcount is exact, nothing leaks and nothing in use is freed. *)
THEOREM CountsAreExact == Spec => []RefcountExact
  <1>1. IInv => RefcountExact
    BY NothingLeaks
  <1> QED
    BY <1>1, MemoryInvariant, PTL

(* A translation leads to the page that a lookup would find now, and a     *)
(* writable one to a page of the area's own object.                        *)
THEOREM NoStaleTranslation == Spec => []TranslationsFresh
  <1>1. IInv => TranslationsFresh
    BY DEF IInv
  <1> QED
    BY <1>1, MemoryInvariant, PTL

-----------------------------------------------------------------------------
(* The steps of PrivateMemory under the refinement mapping. *)
LEMMA AbstractInit ==
  Mem = [p \in Proc |-> NULL] => Abs!Init
  BY DEF Mem, Abs!Init

LEMMA AbstractStep ==
  MemStep => Abs!Step
  <1> SUFFICES ASSUME MemStep PROVE Abs!Step
    OBVIOUS
  <1>1. CASE Mem' = Mem
    BY <1>1 DEF Mem, Abs!Step
  <1>2. ASSUME NEW p \in Proc, Maps(p) PROVE Abs!Map(p)
    BY <1>2 DEF Maps, Mem, NoPages, Abs!Map
  <1>3. ASSUME NEW p \in Proc, Unmaps(p) PROVE Abs!Unmap(p)
    BY <1>3 DEF Unmaps, Mem, Abs!Unmap
  <1>4. ASSUME NEW p \in Proc, NEW n \in Page, NEW v \in Value, Stores(p, n, v)
        PROVE  Abs!Store(p, n, v)
    BY <1>4 DEF Stores, Mem, Abs!Store
  <1>5. ASSUME NEW p \in Proc, NEW c \in Proc, Forks(p, c) PROVE Abs!Fork(p, c)
    BY <1>5 DEF Forks, Mem, Abs!Fork
  <1> QED
    BY <1>1, <1>2, <1>3, <1>4, <1>5 DEF MemStep, Abs!Step, Abs!Next

(* Copy-on-write implements fork's promise of private memory: a process    *)
(* sees its own writes and those made before the fork, and no others.      *)
THEOREM Refinement == Spec => CopyOnWrite
  <1>1. Init => Abs!Init
    BY InitStep, AbstractInit
  <1>2. IInv /\ [Next]_vars => Abs!Step
    BY NextStep, AbstractStep
  <1> QED
    BY <1>1, <1>2, MemoryInvariant, PTL DEF Spec, CopyOnWrite, Abs!Spec, Abs!Step
=============================================================================
