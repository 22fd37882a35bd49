------------------------------ MODULE JsonProofs ------------------------------
(***************************************************************************)
(* Theorems about JsonTree, for any number of items and any limits of      *)
(* nesting and copying.                                                    *)
(*                                                                         *)
(* TreeIntact follows from one picture of memory, which every operation    *)
(* and every step of the parser keeps: the items are a forest (Forest).    *)
(* Its tops are the roots that the client holds, the root that is parsed,  *)
(* and the first item of every list that a call of the parser has not yet  *)
(* given to its item.  Between the pointers and the walks along them there *)
(* is no induction: what a walk meets is the least set that the pointers   *)
(* of its members do not leave, so each fact about it is one closed set.   *)
(***************************************************************************)
EXTENDS JsonTree, WellFoundedInduction, TLAPS

\* The items have their pointers among the items, and what is not allocated has
\* none: cJSON_New_Item zeroes its memory (cJSON.c:236-245).
Pointers(N, nx, pv, ch) ==
    /\ N \subseteq Node
    /\ nx \in [Node -> N \cup {Null}] /\ pv \in [Node -> N \cup {Null}]
    /\ ch \in [Node -> N \cup {Null}]
    /\ \A n \in Node \ N : nx[n] = Null /\ pv[n] = Null /\ ch[n] = Null

\* At most one pointer, a next or a child, leads to an item: so an item is freed
\* along one way only (cJSON.c:248-267).
OneWay(nx, ch) ==
    /\ \A m, k \in Node : nx[m] = nx[k] /\ nx[m] # Null => m = k
    /\ \A m, k \in Node : ch[m] = ch[k] /\ ch[m] # Null => m = k
    /\ \A m, k \in Node : nx[m] = ch[k] => nx[m] = Null

\* Nothing leads to a top: cJSON_Delete of it is up to who holds it.
NoWay(O, nx, ch) == \A o \in O : \A m \in Node : nx[m] # o /\ ch[m] # o

\* What is closed and has the tops has every item, so none is leaked.  Stated with
\* closed sets this needs no induction over the walk from a top.
Covered(N, O, nx, ch) ==
    \A S \in SUBSET Node : O \subseteq S /\ Closed(S, nx, ch) => N \subseteq S

\* prev leads back along next, and from the first item of a list to its last, which
\* add_item_to_array relies on (cJSON.c:1819-1846); what has just become a root has
\* no prev.
WaysBack(O, nx, pv, ch) ==
    /\ \A m \in Node : nx[m] # Null => pv[nx[m]] = m
    /\ \A p \in Node : ch[p] # Null =>
         pv[ch[p]] \in From(ch[p], nx, nx) /\ nx[pv[ch[p]]] = Null
    /\ \A o \in O : pv[o] = Null

\* The items N are the trees of the tops O, through the pointers nx, pv and ch.
Forest(N, O, nx, pv, ch) ==
    /\ Pointers(N, nx, pv, ch) /\ O \subseteq N
    /\ OneWay(nx, ch) /\ NoWay(O, nx, ch)
    /\ Covered(N, O, nx, ch) /\ WaysBack(O, nx, pv, ch)

\* The pointers of these items stay as they are.
Kept(S, f, f2) == \A m \in S : f2[m] = f[m]

\* The item whose value the i-th call of the parser has in hand.
ParsedBy(i) == IF i = 1 THEN parse[1].item ELSE parse[i].current

\* The roots of the client, and the one that is parsed (cJSON.c:1049).
Trees == roots \cup {parse[i].item : i \in {1} \cap (1 .. Len(parse))}
\* And the lists of the calls of parse_array and parse_object, which only those
\* calls hold until they are complete (cJSON.c:1356-1357, 1497-1498).
Tops == Trees \cup {parse[i].first : i \in 2 .. Len(parse)}

\* Each call fills the item that its caller has in hand, and which has no list yet;
\* its current item is the last of its own list (cJSON.c:1386-1411, 1524-1568).
Calls ==
    /\ \A i \in 1 .. Len(parse) : parse[1].item \notin roots
    /\ \A i \in 2 .. Len(parse) :
         /\ parse[i].item = ParsedBy(i - 1) /\ child[parse[i].item] = Null
         /\ parse[i].first \notin Trees
         /\ \A j \in 2 .. Len(parse) : parse[j].first = parse[i].first => j = i
         /\ parse[i].current \in List(parse[i].first) /\ next[parse[i].current] = Null
    /\ parsing("value") => child[Parsed] = Null

\* TreeIntact is stated for the owners that a reader sees.  What is inductive is that
\* the items are a forest of tops, with the lists of the parser among them.
JsonInv ==
    /\ JsonTypeOK
    /\ Forest(nodes, Tops, next, prev, child)
    /\ \A r \in Trees : next[r] = Null
    /\ Calls

-----------------------------------------------------------------------------
\* NULL is no item.
LEMMA NodesAreNotNull == Null \notin Node /\ Node \subseteq Nat
BY JsonAssumption DEF Null, Node

\* What From reaches is closed.
LEMMA FromClosed ==
    ASSUME NEW f \in [Node -> Link], NEW g \in [Node -> Link], NEW n \in Link
    PROVE  /\ From(n, f, g) \subseteq Node /\ Closed(From(n, f, g), f, g)
           /\ n # Null => n \in From(n, f, g)
<1> DEFINE F == From(n, f, g)
<1>1. F \subseteq Node
  BY DEF From
<1>2. ASSUME NEW m \in F, NEW S \in SUBSET Node, n \in S \cup {Null}, Closed(S, f, g)
      PROVE  {f[m], g[m]} \subseteq S \cup {Null}
  <2>1. m \in S
    BY <1>2 DEF From
  <2> QED
    BY <1>2, <2>1 DEF Closed
<1>3. ASSUME NEW m \in F, NEW l \in {f[m], g[m]}, l # Null
      PROVE  l \in F
  <2>1. l \in Node
    BY <1>1, <1>3 DEF Link
  <2>2. ASSUME NEW S \in SUBSET Node, n \in S \cup {Null}, Closed(S, f, g)
        PROVE  l \in S
    BY <1>2, <1>3, <2>2
  <2> QED
    BY <2>1, <2>2 DEF From
<1>4. Closed(F, f, g)
  BY <1>3 DEF Closed
<1>5. n # Null => n \in F
  BY DEF From, Link
<1> QED
  BY <1>1, <1>4, <1>5

\* ... and it is the least closed set.
LEMMA FromLeast ==
    ASSUME NEW f, NEW g, NEW n, NEW S \in SUBSET Node,
           n \in S \cup {Null}, Closed(S, f, g)
    PROVE  From(n, f, g) \subseteq S
BY DEF From

\* Nothing is met from NULL: cJSON_Delete(NULL) does nothing (cJSON.c:251).
LEMMA FromNull ==
    ASSUME NEW f, NEW g
    PROVE  From(Null, f, g) = {}
<1>1. Closed({}, f, g)
  BY DEF Closed
<1> QED
  BY <1>1, FromLeast

\* A walk comes to an item that it does not begin at from one it has met.
LEMMA FromEntered ==
    ASSUME NEW f \in [Node -> Link], NEW g \in [Node -> Link], NEW n \in Link,
           NEW x \in From(n, f, g), x # n
    PROVE  \E m \in From(n, f, g) : f[m] = x \/ g[m] = x
<1> DEFINE F == From(n, f, g)
<1>1. F \subseteq Node /\ Closed(F, f, g) /\ (n # Null => n \in F)
  BY FromClosed
<1>2. SUFFICES ASSUME \A m \in F : f[m] # x /\ g[m] # x
               PROVE  FALSE
  OBVIOUS
<1>3. Closed(F \ {x}, f, g)
  BY <1>1, <1>2 DEF Closed
<1>4. F \subseteq F \ {x}
  BY <1>1, <1>3, FromLeast
<1> QED
  BY <1>4

\* Where every item has one way in, and nothing leads to x and to y, their walks
\* have no item in common.
OneWayIn(f, g) ==
    \A m, k \in Node : \A l \in {f[m], g[m]} \cap {f[k], g[k]} : l # Null => m = k

\* Then the walks from two items that nothing leads to meet nothing in common.
LEMMA FromApart ==
    ASSUME NEW f \in [Node -> Link], NEW g \in [Node -> Link], OneWayIn(f, g),
           NEW x \in Node, NEW y \in Node, x # y,
           \A m \in Node : {f[m], g[m]} \cap {x, y} = {}
    PROVE  From(x, f, g) \cap From(y, f, g) = {}
<1> DEFINE X == From(x, f, g)  Y == From(y, f, g)
<1>1. X \subseteq Node /\ Closed(X, f, g) /\ Y \subseteq Node /\ Closed(Y, f, g)
  BY FromClosed, NodesAreNotNull DEF Link
<1>1a. x \in X /\ y \in Y /\ x # Null
  BY FromClosed, NodesAreNotNull DEF Link
<1>2. x \notin Y
  <2>1. SUFFICES ASSUME x \in Y
                 PROVE  FALSE
    OBVIOUS
  <2>2. PICK m \in Y : f[m] = x \/ g[m] = x
    BY <2>1, FromEntered DEF Link
  <2> QED
    BY <1>1, <2>2
<1>3. Closed(X \ Y, f, g)
  <2>1. SUFFICES ASSUME NEW m \in X \ Y, NEW l \in {f[m], g[m]}, l # Null, l \in Y
                 PROVE  FALSE
    BY <1>1 DEF Closed
  <2>2. m \in Node /\ l # y
    BY <1>1
  <2>3. PICK k \in Y : f[k] = l \/ g[k] = l
    BY <2>1, <2>2, FromEntered DEF Link
  <2>4. k = m
    BY <1>1, <2>1, <2>2, <2>3 DEF OneWayIn
  <2> QED
    BY <2>1, <2>4
<1>4. X \ Y \in SUBSET Node /\ x \in X \ Y
  BY <1>1, <1>1a, <1>2
<1>5. X \subseteq X \ Y
  BY <1>3, <1>4, FromLeast
<1> QED
  BY <1>5

\* A walk goes on from the next item.
LEMMA FromGoesOn ==
    ASSUME NEW f \in [Node -> Link], NEW n \in Node
    PROVE  From(n, f, f) \subseteq {n} \cup From(f[n], f, f)
<1> DEFINE F == From(f[n], f, f)
<1>1. f[n] \in Link
  OBVIOUS
<1>2. F \subseteq Node /\ Closed(F, f, f) /\ (f[n] # Null => f[n] \in F)
  BY <1>1, FromClosed
<1>3. Closed({n} \cup F, f, f)
  BY <1>2 DEF Closed
<1> QED
  BY <1>2, <1>3, FromLeast

\* A list ends at one item only.
LEMMA OneEnd ==
    ASSUME NEW f \in [Node -> Link], NEW n \in Link,
           NEW x \in From(n, f, f), f[x] = Null, NEW y \in From(n, f, f), f[y] = Null
    PROVE  x = y
<1> DEFINE F == From(n, f, f)  B == {m \in F : x \in From(m, f, f)}
<1>1. F \subseteq Node /\ Closed(F, f, f) /\ (n # Null => n \in F)
  BY FromClosed
<1>2. n # Null
  BY FromNull
<1>3. Closed(B, f, f)
  <2>1. SUFFICES ASSUME NEW m \in B, f[m] # Null
                 PROVE  f[m] \in B
    BY DEF Closed
  <2>2. f[m] \in F
    BY <1>1, <2>1 DEF Closed
  <2>3. x # m
    BY <2>1
  <2>4. x \in From(f[m], f, f)
    BY <1>1, <2>1, <2>3, FromGoesOn
  <2> QED
    BY <2>2, <2>4
<1>4. n \in B
  BY <1>1, <1>2
<1>5. y \in B
  BY <1>1, <1>3, <1>4, FromLeast
<1>6. From(y, f, f) \subseteq {y}
  BY <1>1, FromGoesOn, FromNull
<1> QED
  BY <1>5, <1>6

-----------------------------------------------------------------------------
\* What the walks through a forest need of it.
LEMMA ForestFacts ==
    ASSUME NEW N, NEW O, NEW nx, NEW pv, NEW ch, Forest(N, O, nx, pv, ch)
    PROVE  /\ N \subseteq Node /\ O \subseteq N /\ Null \notin N
           /\ nx \in [Node -> Link] /\ pv \in [Node -> Link] /\ ch \in [Node -> Link]
           /\ Closed(N, nx, ch)
           /\ OneWayIn(nx, ch) /\ OneWayIn(nx, nx)
<1>1. N \subseteq Node /\ O \subseteq N /\ Null \notin N
  BY NodesAreNotNull DEF Forest, Pointers
<1>2. nx \in [Node -> Link] /\ pv \in [Node -> Link] /\ ch \in [Node -> Link]
  BY DEF Forest, Pointers, Link
<1>3. Closed(N, nx, ch)
  BY DEF Forest, Pointers, Closed
<1>4. OneWayIn(nx, ch) /\ OneWayIn(nx, nx)
  BY DEF Forest, OneWay, OneWayIn
<1> QED
  BY <1>1, <1>2, <1>3, <1>4

\* A list is in every closed set that its first item is in.
LEMMA ListInClosed ==
    ASSUME NEW f, NEW g, NEW n, NEW S \in SUBSET Node, n \in S \cup {Null}, Closed(S, f, g)
    PROVE  From(n, f, f) \subseteq S
<1>1. Closed(S, f, f)
  BY DEF Closed
<1> QED
  BY <1>1, FromLeast

\* A walk meets no less when every set that the new pointers do not leave is one
\* that the old pointers do not leave.
LEMMA FromGrows ==
    ASSUME NEW f, NEW g, NEW f2, NEW g2, NEW n,
           \A S \in SUBSET Node : Closed(S, f2, g2) => Closed(S, f, g)
    PROVE  From(n, f, g) \subseteq From(n, f2, g2)
BY DEF From

\* The same walk, where the pointers on its way are the same.
LEMMA FromKept ==
    ASSUME NEW f \in [Node -> Link], NEW f2, NEW n \in Link,
           \A m \in From(n, f, f) : f2[m] = f[m]
    PROVE  From(n, f, f) \subseteq From(n, f2, f2)
<1> DEFINE F == From(n, f, f)
<1>1. F \subseteq Node /\ Closed(F, f, f) /\ (n # Null => n \in F)
  BY FromClosed
<1>2. ASSUME NEW S \in SUBSET Node, n \in S \cup {Null}, Closed(S, f2, f2)
      PROVE  F \subseteq S
  <2>1. \A m \in F \cap S : f2[m] = f[m] /\ f[m] \in F \cup {Null} /\ f2[m] \in S \cup {Null}
    BY <1>1, <1>2 DEF Closed
  <2>2. Closed(F \cap S, f, f)
    BY <2>1 DEF Closed
  <2>3. F \cap S \in SUBSET Node /\ n \in (F \cap S) \cup {Null}
    BY <1>1, <1>2
  <2>4. F \subseteq F \cap S
    BY <2>2, <2>3, FromLeast
  <2> QED
    BY <2>4
<1> QED
  BY <1>1, <1>2 DEF From

\* The lists of two owners have no item in common, nor has the list of a top with
\* the list of an array or object, or of another top.
LEMMA ListsApart ==
    ASSUME NEW N, NEW O, NEW nx, NEW pv, NEW ch, Forest(N, O, nx, pv, ch)
    PROVE  /\ \A p, q \in Node : p # q => From(ch[p], nx, nx) \cap From(ch[q], nx, nx) = {}
           /\ \A p \in Node, o \in O : From(ch[p], nx, nx) \cap From(o, nx, nx) = {}
           /\ \A o, q \in O : o # q => From(o, nx, nx) \cap From(q, nx, nx) = {}
<1>1. /\ O \subseteq Node /\ nx \in [Node -> Link] /\ ch \in [Node -> Link] /\ OneWayIn(nx, nx)
      /\ \A o \in O : o # Null
  BY ForestFacts
<1>2. OneWay(nx, ch) /\ NoWay(O, nx, ch)
  BY DEF Forest
<1>3. ASSUME NEW p \in Node, NEW q \in Node, p # q
      PROVE  From(ch[p], nx, nx) \cap From(ch[q], nx, nx) = {}
  <2>1. CASE ch[p] = Null \/ ch[q] = Null
    BY <2>1, FromNull
  <2>2. CASE ch[p] # Null /\ ch[q] # Null
    <3>1. ch[p] \in Node /\ ch[q] \in Node /\ ch[p] # ch[q]
      BY <1>1, <1>2, <1>3, <2>2 DEF Link, OneWay
    <3>2. \A m \in Node : {nx[m], nx[m]} \cap {ch[p], ch[q]} = {}
      BY <1>2, <2>2, <1>3 DEF OneWay
    <3> QED
      BY <1>1, <3>1, <3>2, FromApart
  <2> QED
    BY <2>1, <2>2
<1>4. ASSUME NEW p \in Node, NEW o \in O
      PROVE  From(ch[p], nx, nx) \cap From(o, nx, nx) = {}
  <2>1. CASE ch[p] = Null
    BY <2>1, FromNull
  <2>2. CASE ch[p] # Null
    <3>1. ch[p] \in Node /\ o \in Node /\ ch[p] # o
      BY <1>1, <1>2, <1>4, <2>2 DEF Link, NoWay
    <3>2. \A m \in Node : {nx[m], nx[m]} \cap {ch[p], o} = {}
      BY <1>2, <2>2, <1>4 DEF OneWay, NoWay
    <3> QED
      BY <1>1, <3>1, <3>2, FromApart
  <2> QED
    BY <2>1, <2>2
<1>5. ASSUME NEW o \in O, NEW q \in O, o # q
      PROVE  From(o, nx, nx) \cap From(q, nx, nx) = {}
  <2>1. \A m \in Node : {nx[m], nx[m]} \cap {o, q} = {}
    BY <1>2, <1>5 DEF NoWay
  <2> QED
    BY <1>1, <1>5, <2>1, FromApart
<1> QED
  BY <1>3, <1>4, <1>5

\* Neither have the trees of two tops.
LEMMA TreesApart ==
    ASSUME NEW N, NEW O, NEW nx, NEW pv, NEW ch, Forest(N, O, nx, pv, ch),
           NEW o \in O, NEW q \in O, o # q
    PROVE  From(o, nx, ch) \cap From(q, nx, ch) = {}
<1>1. o \in Node /\ q \in Node /\ nx \in [Node -> Link] /\ ch \in [Node -> Link]
      /\ OneWayIn(nx, ch)
  BY ForestFacts
<1>2. \A m \in Node : {nx[m], ch[m]} \cap {o, q} = {}
  BY DEF Forest, NoWay
<1> QED
  BY <1>1, <1>2, FromApart

\* Every item is in the tree of a top.
LEMMA InSomeTree ==
    ASSUME NEW N, NEW O, NEW nx, NEW pv, NEW ch, Forest(N, O, nx, pv, ch)
    PROVE  N = UNION {From(o, nx, ch) : o \in O}
<1> DEFINE S == UNION {From(o, nx, ch) : o \in O}
<1>1. /\ N \subseteq Node /\ O \subseteq N /\ nx \in [Node -> Link] /\ ch \in [Node -> Link]
      /\ Closed(N, nx, ch) /\ O \subseteq Link /\ Null \notin O
  BY ForestFacts DEF Link
<1>2. \A o \in O : o \in From(o, nx, ch) /\ From(o, nx, ch) \in SUBSET Node
                   /\ Closed(From(o, nx, ch), nx, ch)
  BY <1>1, FromClosed
<1>3. Closed(S, nx, ch)
  BY <1>2 DEF Closed
<1>4. S \in SUBSET Node /\ O \subseteq S
  BY <1>2
<1>5. N \subseteq S
  BY <1>3, <1>4 DEF Forest, Covered
<1>6. \A o \in O : From(o, nx, ch) \subseteq N
  BY <1>1, FromLeast
<1> QED
  BY <1>5, <1>6

\* Something leads to an item that is not a top.
LEMMA Entered ==
    ASSUME NEW N, NEW O, NEW nx, NEW pv, NEW ch, Forest(N, O, nx, pv, ch),
           NEW x \in N \ O
    PROVE  \E m \in Node : nx[m] = x \/ ch[m] = x
<1>1. SUFFICES ASSUME \A m \in Node : nx[m] # x /\ ch[m] # x
               PROVE  FALSE
  OBVIOUS
<1>2. N \subseteq Node /\ O \subseteq N /\ Closed(N, nx, ch)
  BY ForestFacts
<1>3. Closed(N \ {x}, nx, ch)
  BY <1>1, <1>2 DEF Closed
<1>4. N \ {x} \in SUBSET Node /\ O \subseteq N \ {x}
  BY <1>2
<1>5. N \subseteq N \ {x}
  BY <1>3, <1>4 DEF Forest, Covered
<1> QED
  BY <1>5

\* Nothing leads to itself.
LEMMA NoLoop ==
    ASSUME NEW N, NEW O, NEW nx, NEW pv, NEW ch, Forest(N, O, nx, pv, ch),
           NEW x \in N
    PROVE  nx[x] # x /\ ch[x] # x
<1>1. SUFFICES ASSUME nx[x] = x \/ ch[x] = x
               PROVE  FALSE
  OBVIOUS
<1>2. N \subseteq Node /\ O \subseteq N /\ Null \notin N /\ Closed(N, nx, ch) /\ OneWayIn(nx, ch)
  BY ForestFacts
<1>3. \A m \in Node : (nx[m] = x \/ ch[m] = x) => m = x
  BY <1>1, <1>2 DEF OneWayIn
<1>4. Closed(N \ {x}, nx, ch)
  BY <1>2, <1>3 DEF Closed
<1>5. x \notin O
  BY <1>1, <1>2 DEF Forest, NoWay
<1>6. N \ {x} \in SUBSET Node /\ O \subseteq N \ {x}
  BY <1>2, <1>5
<1>7. N \subseteq N \ {x}
  BY <1>4, <1>6 DEF Forest, Covered
<1> QED
  BY <1>7

\* Nothing outside the tree of a top leads into it.
LEMMA NoWayIntoTree ==
    ASSUME NEW N, NEW O, NEW nx, NEW pv, NEW ch, Forest(N, O, nx, pv, ch),
           NEW o \in O, NEW m \in Node, m \notin From(o, nx, ch)
    PROVE  nx[m] \notin From(o, nx, ch) /\ ch[m] \notin From(o, nx, ch)
<1> DEFINE G == From(o, nx, ch)
<1>1. /\ o \in Link /\ nx \in [Node -> Link] /\ ch \in [Node -> Link] /\ OneWayIn(nx, ch)
  BY ForestFacts DEF Link
<1>2. G \subseteq Node
  BY <1>1, FromClosed
<1>3. nx[m] # o /\ ch[m] # o
  BY DEF Forest, NoWay
<1>4. SUFFICES ASSUME NEW l \in {nx[m], ch[m]}, l \in G
               PROVE  FALSE
  OBVIOUS
<1>5. PICK k \in G : nx[k] = l \/ ch[k] = l
  BY <1>1, <1>3, <1>4, FromEntered
<1>6. l # Null /\ l \in {nx[m], ch[m]} \cap {nx[k], ch[k]} /\ k \in Node
  BY <1>2, <1>4, <1>5, NodesAreNotNull
<1>7. k = m
  BY <1>1, <1>6 DEF OneWayIn
<1> QED
  BY <1>5, <1>7

-----------------------------------------------------------------------------
\* cJSON_New_Item: an item on its own is a tree.
LEMMA ForestNew ==
    ASSUME NEW N, NEW O, NEW nx, NEW pv, NEW ch, Forest(N, O, nx, pv, ch),
           NEW n \in Node \ N
    PROVE  Forest(N \cup {n}, O \cup {n}, nx, pv, ch)
<1>1. Pointers(N \cup {n}, nx, pv, ch)
  BY DEF Forest, Pointers
<1>2. n # Null /\ nx[n] = Null /\ ch[n] = Null /\ pv[n] = Null
  BY NodesAreNotNull DEF Forest, Pointers
<1>3. NoWay(O \cup {n}, nx, ch)
  BY <1>2 DEF Forest, NoWay, Pointers
<1>4. Covered(N \cup {n}, O \cup {n}, nx, ch)
  BY DEF Forest, Covered
<1>5. WaysBack(O \cup {n}, nx, pv, ch)
  BY <1>2 DEF Forest, WaysBack
<1> QED
  BY <1>1, <1>3, <1>4, <1>5 DEF Forest

\* A new item behind the end of a list makes no list shorter.
LEMMA ListsGrow ==
    ASSUME NEW nx \in [Node -> Link], NEW n, NEW c, nx[c] = Null,
           NEW nx2, nx2 = [nx EXCEPT ![c] = n], NEW q
    PROVE  From(q, nx, nx) \subseteq From(q, nx2, nx2)
<1>1. \A m \in Node : m # c => nx2[m] = nx[m]
  OBVIOUS
<1>2. ASSUME NEW S \in SUBSET Node
      PROVE  Closed(S, nx2, nx2) => Closed(S, nx, nx)
  BY <1>1 DEF Closed
<1> QED
  BY <1>2, FromGrows

\* One pointer is set (next, prev or child of an item).
Put(f, x, y) == [f EXCEPT ![x] = y]

\* A new item behind the end of a list that no item has yet: the comma of
\* parse_array and parse_object (cJSON.c:1392-1401, 1531-1540).
LEMMA ForestNext ==
    ASSUME NEW N, NEW O, NEW nx, NEW pv, NEW ch, Forest(N, O, nx, pv, ch),
           NEW n \in Node \ N, NEW o \in O, NEW c \in From(o, nx, nx), nx[c] = Null,
           NEW nx2, nx2 = Put(nx, c, n), NEW pv2, pv2 = Put(pv, n, c)
    PROVE  /\ Forest(N \cup {n}, O, nx2, pv2, ch)
           /\ n \in From(o, nx2, nx2) /\ Kept(O \ {o}, nx, nx2)
<1>1. /\ N \subseteq Node /\ O \subseteq N /\ Null \notin N
      /\ nx \in [Node -> Link] /\ pv \in [Node -> Link] /\ ch \in [Node -> Link]
      /\ Closed(N, nx, ch)
  BY ForestFacts
<1>2. From(o, nx, nx) \subseteq N /\ c \in N
  BY <1>1, ListInClosed
<1>3. n # Null /\ nx[n] = Null /\ ch[n] = Null /\ pv[n] = Null /\ n # c
  BY <1>2, NodesAreNotNull DEF Forest, Pointers
<1>4. \A m \in Node : nx2[m] = (IF m = c THEN n ELSE nx[m]) /\ pv2[m] = (IF m = n THEN c ELSE pv[m])
  BY <1>1 DEF Put
<1>5. Pointers(N \cup {n}, nx2, pv2, ch)
  BY <1>2, <1>4 DEF Forest, Pointers, Put
<1>6. \A m \in Node : nx[m] \in N \cup {Null} /\ ch[m] \in N \cup {Null}
  BY DEF Forest, Pointers
<1>7. OneWay(nx2, ch)
  BY <1>1, <1>3, <1>4, <1>6 DEF Forest, OneWay
<1>8. NoWay(O, nx2, ch)
  BY <1>1, <1>4 DEF Forest, NoWay
<1>9. ASSUME NEW S \in SUBSET Node
      PROVE  /\ Closed(S, nx2, ch) => Closed(S, nx, ch)
             /\ Closed(S, nx2, nx2) => Closed(S, nx, nx)
  BY <1>1, <1>4 DEF Closed
<1>10. \A q \in Link : From(q, nx, nx) \subseteq From(q, nx2, nx2)
  BY <1>9, FromGrows
<1>11. nx2 \in [Node -> Link] /\ o \in Link
  BY <1>1, <1>3 DEF Link, Put
<1>12. n \in From(o, nx2, nx2)
  <2>1. c \in From(o, nx2, nx2)
    BY <1>10, <1>11
  <2>2. nx2[c] = n
    BY <1>1, <1>2, <1>4
  <2>3. Closed(From(o, nx2, nx2), nx2, nx2)
    BY <1>11, FromClosed
  <2> QED
    BY <1>3, <2>1, <2>2, <2>3 DEF Closed
<1>13. Covered(N \cup {n}, O, nx2, ch)
  <2>1. SUFFICES ASSUME NEW S \in SUBSET Node, O \subseteq S, Closed(S, nx2, ch)
                 PROVE  N \cup {n} \subseteq S
    BY DEF Covered
  <2>2. N \subseteq S
    BY <1>9, <2>1 DEF Forest, Covered
  <2>3. nx2[c] = n
    BY <1>1, <1>2, <1>4
  <2> QED
    BY <1>2, <1>3, <2>1, <2>2, <2>3 DEF Closed
<1>14. ASSUME NEW p \in Node, ch[p] # Null
       PROVE  pv2[ch[p]] \in From(ch[p], nx2, nx2) /\ nx2[pv2[ch[p]]] = Null
  <2>1. ch[p] \in N /\ ch[p] # n /\ ch[p] \in Link
    BY <1>6, <1>14, <1>1 DEF Link
  <2>2. pv2[ch[p]] = pv[ch[p]]
    BY <1>1, <1>4, <2>1
  <2>3. pv[ch[p]] \in From(ch[p], nx, nx) /\ nx[pv[ch[p]]] = Null
    BY <1>14 DEF Forest, WaysBack
  <2>4. pv[ch[p]] # c
    BY <2>3, ListsApart
  <2>5. pv[ch[p]] \in Node
    BY <2>1, <2>3, <1>1, FromClosed
  <2> QED
    BY <1>4, <1>10, <2>1, <2>2, <2>3, <2>4, <2>5
<1>15. ASSUME NEW m \in Node, nx2[m] # Null
       PROVE  pv2[nx2[m]] = m
  <2>1. CASE m = c
    BY <1>4, <2>1
  <2>2. CASE m # c
    <3>1. nx2[m] = nx[m] /\ nx[m] \in Node /\ nx[m] # n
      BY <1>1, <1>4, <1>6, <1>15, <2>2
    <3> QED
      BY <1>4, <1>15, <3>1 DEF Forest, WaysBack
  <2> QED
    BY <2>1, <2>2
<1>16. \A q \in O : pv2[q] = Null
  BY <1>1, <1>4 DEF Forest, WaysBack
<1>17. WaysBack(O, nx2, pv2, ch)
  BY <1>14, <1>15, <1>16 DEF WaysBack
<1>18. Forest(N \cup {n}, O, nx2, pv2, ch)
  BY <1>1, <1>5, <1>7, <1>8, <1>13, <1>17 DEF Forest
<1>19. \A q \in O : q \in Link
  BY <1>1 DEF Link
<1>20. \A r \in O \ {o} : r # c
  <2>1. \A r \in O \ {o} : From(r, nx, nx) \cap From(o, nx, nx) = {}
    BY ListsApart
  <2>2. \A r \in O : r \in From(r, nx, nx)
    BY <1>1, <1>19, FromClosed
  <2> QED
    BY <2>1, <2>2
<1>21. Kept(O \ {o}, nx, nx2)
  BY <1>1, <1>4, <1>20 DEF Kept
<1> QED
  BY <1>12, <1>18, <1>21

\* The list of a top becomes the list of p, which had none and is in another tree:
\* the end of parse_array and parse_object (cJSON.c:1416-1424, 1575-1583).
LEMMA ForestHang ==
    ASSUME NEW N, NEW O, NEW nx, NEW pv, NEW ch, Forest(N, O, nx, pv, ch),
           NEW o \in O, NEW c \in From(o, nx, nx), nx[c] = Null,
           NEW q \in O \ {o}, NEW p \in From(q, nx, ch), ch[p] = Null,
           NEW pv2, pv2 = [pv EXCEPT ![o] = c], NEW ch2, ch2 = [ch EXCEPT ![p] = o]
    PROVE  Forest(N, O \ {o}, nx, pv2, ch2)
<1>1. /\ N \subseteq Node /\ O \subseteq N /\ Null \notin N
      /\ nx \in [Node -> Link] /\ pv \in [Node -> Link] /\ ch \in [Node -> Link]
      /\ Closed(N, nx, ch)
  BY ForestFacts
<1>2. c \in N /\ p \in N
  BY <1>1, ListInClosed, FromLeast
<1>3. \A m \in Node : ch2[m] = (IF m = p THEN o ELSE ch[m]) /\ pv2[m] = (IF m = o THEN c ELSE pv[m])
  BY <1>1
<1>4. Pointers(N, nx, pv2, ch2)
  BY <1>1, <1>2, <1>3 DEF Forest, Pointers
<1>5. OneWay(nx, ch2)
  BY <1>1, <1>3 DEF Forest, OneWay, NoWay
<1>6. NoWay(O \ {o}, nx, ch2)
  BY <1>1, <1>3 DEF Forest, NoWay
<1>7. Covered(N, O \ {o}, nx, ch2)
  <2>1. SUFFICES ASSUME NEW S \in SUBSET Node, O \ {o} \subseteq S, Closed(S, nx, ch2)
                 PROVE  N \subseteq S
    BY DEF Covered
  <2>2. Closed(S, nx, ch)
    BY <1>3, <2>1 DEF Closed
  <2>3. p \in S
    BY <2>1, <2>2, FromLeast
  <2>4. o \in S
    BY <1>1, <1>2, <1>3, <2>1, <2>3 DEF Closed
  <2> QED
    BY <2>1, <2>2, <2>4 DEF Forest, Covered
<1>8. ASSUME NEW m \in Node, ch2[m] # Null
      PROVE  pv2[ch2[m]] \in From(ch2[m], nx, nx) /\ nx[pv2[ch2[m]]] = Null
  <2>1. CASE m = p
    BY <1>1, <1>3, <2>1
  <2>2. CASE m # p
    <3>1. ch2[m] = ch[m] /\ ch[m] # o /\ ch[m] \in Node
      BY <1>1, <1>3, <1>8, <2>2 DEF Forest, NoWay, Link
    <3> QED
      BY <1>3, <1>8, <3>1 DEF Forest, WaysBack
  <2> QED
    BY <2>1, <2>2
<1>9. ASSUME NEW m \in Node, nx[m] # Null
      PROVE  pv2[nx[m]] = m
  <2>1. nx[m] \in Node /\ nx[m] # o
    BY <1>1, <1>9 DEF Forest, NoWay, Link
  <2> QED
    BY <1>3, <1>9, <2>1 DEF Forest, WaysBack
<1>10. WaysBack(O \ {o}, nx, pv2, ch2)
  BY <1>1, <1>3, <1>8, <1>9 DEF Forest, WaysBack
<1> QED
  BY <1>1, <1>4, <1>5, <1>6, <1>7, <1>10 DEF Forest

\* Deleting a tree leaves the lists outside of it as they are.
LEMMA FreedLists ==
    ASSUME NEW N, NEW O, NEW nx, NEW pv, NEW ch, Forest(N, O, nx, pv, ch),
           NEW o \in O, NEW G, G = From(o, nx, ch), NEW nx2, nx2 = Freed(nx, G),
           NEW x \in Node \ G
    PROVE  From(x, nx, nx) \cap G = {} /\ From(x, nx, nx) \subseteq From(x, nx2, nx2)
<1> DEFINE F == From(x, nx, nx)
<1>1. nx \in [Node -> Link] /\ Node \subseteq Link
  BY ForestFacts DEF Link
<1>2. \A m \in Node : nx2[m] = (IF m \in G THEN Null ELSE nx[m])
  BY DEF Freed
<1>3. \A m \in Node \ G : nx[m] \notin G /\ ch[m] \notin G
  BY NoWayIntoTree
<1>4. F \subseteq Node /\ Closed(F, nx, nx) /\ x \in F
  BY <1>1, FromClosed, NodesAreNotNull
<1>5. Closed(F \ G, nx, nx)
  BY <1>3, <1>4 DEF Closed
<1>6. F \ G \in SUBSET Node /\ x \in F \ G
  BY <1>4
<1>7. F \subseteq F \ G
  BY <1>5, <1>6, FromLeast
<1>8. ASSUME NEW S \in SUBSET Node, x \in S \cup {Null}, Closed(S, nx2, nx2)
      PROVE  F \subseteq S
  <2>1. \A m \in F \cap S : nx2[m] = nx[m] /\ nx[m] \in F \cup {Null} /\ nx2[m] \in S \cup {Null}
    BY <1>2, <1>4, <1>7, <1>8 DEF Closed
  <2>2. Closed(F \cap S, nx, nx)
    BY <2>1 DEF Closed
  <2>3. x \in F \cap S /\ F \cap S \in SUBSET Node
    BY <1>4, <1>8, NodesAreNotNull
  <2>4. F \subseteq F \cap S
    BY <2>2, <2>3, FromLeast
  <2> QED
    BY <2>4
<1>9. F \subseteq From(x, nx2, nx2)
  BY <1>4, <1>8 DEF From
<1> QED
  BY <1>7, <1>9

\* cJSON_Delete of a tree.
LEMMA ForestFree ==
    ASSUME NEW N, NEW O, NEW nx, NEW pv, NEW ch, Forest(N, O, nx, pv, ch),
           NEW o \in O, NEW G, G = From(o, nx, ch),
           NEW nx2, nx2 = Freed(nx, G), NEW pv2, pv2 = Freed(pv, G), NEW ch2, ch2 = Freed(ch, G)
    PROVE  /\ Forest(N \ G, O \ {o}, nx2, pv2, ch2)
           /\ G \subseteq N /\ (O \ {o}) \cap G = {} /\ Kept(O \ {o}, nx, nx2)
<1>1. /\ N \subseteq Node /\ O \subseteq N /\ Null \notin N
      /\ nx \in [Node -> Link] /\ pv \in [Node -> Link] /\ ch \in [Node -> Link]
      /\ Closed(N, nx, ch) /\ Node \subseteq Link
  BY ForestFacts DEF Link
<1>2. G \subseteq N /\ G \in SUBSET Node /\ Closed(G, nx, ch) /\ o \in G
  BY <1>1, FromClosed, FromLeast
<1>3. \A m \in Node : /\ nx2[m] = (IF m \in G THEN Null ELSE nx[m])
                      /\ pv2[m] = (IF m \in G THEN Null ELSE pv[m])
                      /\ ch2[m] = (IF m \in G THEN Null ELSE ch[m])
  BY DEF Freed
<1>4. \A m \in Node \ G : nx[m] \notin G /\ ch[m] \notin G
  BY NoWayIntoTree
<1>5. ASSUME NEW x \in Node \ G
      PROVE  From(x, nx, nx) \cap G = {} /\ From(x, nx, nx) \subseteq From(x, nx2, nx2)
  BY FreedLists
<1>6. ASSUME NEW p \in Node \ G, ch[p] # Null
      PROVE  /\ ch[p] \in Node \ G /\ pv[ch[p]] \in Node \ G
             /\ pv[ch[p]] \in From(ch[p], nx2, nx2) /\ nx[pv[ch[p]]] = Null
  <2>1. ch[p] \in Node \ G
    BY <1>1, <1>4, <1>6 DEF Link
  <2>2. pv[ch[p]] \in From(ch[p], nx, nx) /\ nx[pv[ch[p]]] = Null
    BY <1>6 DEF Forest, WaysBack
  <2>3. From(ch[p], nx, nx) \subseteq Node
    BY <1>1, FromClosed
  <2> QED
    BY <1>5, <2>1, <2>2, <2>3
<1>7. ASSUME NEW m \in Node \ G, nx[m] # Null
      PROVE  nx[m] \in Node \ G /\ pv[nx[m]] = m
  BY <1>1, <1>4, <1>7 DEF Link, Forest, WaysBack
<1>8. ASSUME NEW x \in N \ G
      PROVE  pv[x] \in (N \ G) \cup {Null}
  <2>1. CASE x \in O
    BY <2>1 DEF Forest, WaysBack
  <2>2. CASE x \notin O
    <3>1. PICK m \in Node : nx[m] = x \/ ch[m] = x
      BY <1>1, <1>8, <2>2, Entered
    <3>2. m \notin G
      BY <1>2, <3>1, <1>8, <1>1 DEF Closed
    <3>3. x # Null
      BY <1>1, <1>8
    <3>4. CASE nx[m] = x
      <4>1. m \in N
        BY <3>4, <3>3 DEF Forest, Pointers
      <4> QED
        BY <1>7, <3>2, <3>3, <3>4, <4>1
    <3>5. CASE ch[m] = x
      <4>1. pv[x] \in N \cup {Null}
        BY <1>1, <1>8 DEF Forest, Pointers
      <4> QED
        BY <1>6, <3>2, <3>3, <3>5, <4>1
    <3> QED
      BY <3>1, <3>4, <3>5
  <2> QED
    BY <2>1, <2>2
<1>9. Pointers(N \ G, nx2, pv2, ch2)
  <2>1. \A m \in Node : /\ nx[m] \in N \cup {Null} /\ ch[m] \in N \cup {Null}
                        /\ m \notin N => nx[m] = Null /\ pv[m] = Null /\ ch[m] = Null
    BY DEF Forest, Pointers
  <2>2. \A m \in Node : /\ nx2[m] \in (N \ G) \cup {Null} /\ ch2[m] \in (N \ G) \cup {Null}
                        /\ pv2[m] \in (N \ G) \cup {Null}
                        /\ m \notin N \ G => nx2[m] = Null /\ pv2[m] = Null /\ ch2[m] = Null
    BY <1>3, <1>4, <1>8, <2>1
  <2> QED
    BY <1>1, <2>2 DEF Pointers, Freed
<1>10. OneWay(nx2, ch2)
  BY <1>3, <1>4 DEF Forest, OneWay
<1>11. NoWay(O \ {o}, nx2, ch2)
  BY <1>1, <1>3 DEF Forest, NoWay
<1>12. Covered(N \ G, O \ {o}, nx2, ch2)
  <2>1. SUFFICES ASSUME NEW S \in SUBSET Node, O \ {o} \subseteq S, Closed(S, nx2, ch2)
                 PROVE  N \ G \subseteq S
    BY DEF Covered
  <2>2. Closed(S \cup G, nx, ch)
    BY <1>2, <1>3, <2>1 DEF Closed
  <2>3. N \subseteq S \cup G
    BY <1>2, <2>1, <2>2 DEF Forest, Covered
  <2> QED
    BY <2>3
<1>13. WaysBack(O \ {o}, nx2, pv2, ch2)
  <2>1. \A m \in Node : nx2[m] # Null => pv2[nx2[m]] = m
    BY <1>3, <1>7
  <2>2. \A p \in Node : ch2[p] # Null =>
          pv2[ch2[p]] \in From(ch2[p], nx2, nx2) /\ nx2[pv2[ch2[p]]] = Null
    BY <1>3, <1>6
  <2>3. \A q \in O \ {o} : pv2[q] = Null
    BY <1>1, <1>3 DEF Forest, WaysBack
  <2> QED
    BY <2>1, <2>2, <2>3 DEF WaysBack
<1>14. O \ {o} \subseteq N \ G
  <2>1. ASSUME NEW q \in O \ {o}
        PROVE  q \notin G
    <3>1. From(o, nx, ch) \cap From(q, nx, ch) = {}
      BY TreesApart
    <3>2. q \in From(q, nx, ch)
      BY <1>1, FromClosed
    <3> QED
      BY <3>1, <3>2
  <2> QED
    BY <1>1, <2>1
<1>15. (O \ {o}) \cap G = {} /\ Kept(O \ {o}, nx, nx2)
  BY <1>1, <1>3, <1>14 DEF Kept
<1>16. Forest(N \ G, O \ {o}, nx2, pv2, ch2)
  BY <1>9, <1>10, <1>11, <1>12, <1>13, <1>14 DEF Forest
<1> QED
  BY <1>2, <1>15, <1>16

\* An item x of the list of p: where the list ends, and what leads to x.
LEMMA ItemOfList ==
    ASSUME NEW N, NEW O, NEW nx, NEW pv, NEW ch, Forest(N, O, nx, pv, ch),
           NEW p \in N, NEW x \in From(ch[p], nx, nx)
    PROVE  /\ ch[p] \in N /\ ch[p] \in From(ch[p], nx, nx) /\ From(ch[p], nx, nx) \subseteq N
           /\ Closed(From(ch[p], nx, nx), nx, nx)
           /\ pv[ch[p]] \in From(ch[p], nx, nx) /\ nx[pv[ch[p]]] = Null
           /\ x \notin O /\ nx[x] # x
           /\ nx[x] = Null => pv[ch[p]] = x
           /\ x # ch[p] => pv[x] \in From(ch[p], nx, nx) /\ nx[pv[x]] = x
           /\ \A m \in Node : /\ nx[m] = x => x # ch[p] /\ m = pv[x]
                              /\ ch[m] = x => x = ch[p] /\ m = p
<1> DEFINE h == ch[p]  L == From(h, nx, nx)  last == pv[h]  b == pv[x]
<1>1. /\ N \subseteq Node /\ O \subseteq N /\ Null \notin N
      /\ nx \in [Node -> Link] /\ pv \in [Node -> Link] /\ ch \in [Node -> Link]
      /\ Closed(N, nx, ch) /\ Node \subseteq Link
  BY ForestFacts DEF Link
<1>2. OneWay(nx, ch) /\ NoWay(O, nx, ch) /\ Pointers(N, nx, pv, ch) /\ WaysBack(O, nx, pv, ch)
  BY DEF Forest
<1>3. h \in N /\ h # Null
  BY <1>1, <1>2, FromNull DEF Pointers
<1>4. L \subseteq N /\ Closed(L, nx, nx) /\ h \in L
  BY <1>1, <1>3, ListInClosed, FromClosed
<1>5. last \in L /\ nx[last] = Null
  BY <1>1, <1>3 DEF Forest, WaysBack
<1>6. x \in N /\ nx[x] # x
  BY <1>4, NoLoop
<1>7. x \notin O
  <2>1. SUFFICES ASSUME x \in O
                 PROVE  FALSE
    OBVIOUS
  <2>2. From(h, nx, nx) \cap From(x, nx, nx) = {}
    BY <1>1, <2>1, ListsApart
  <2>3. x \in From(x, nx, nx)
    BY <1>1, <2>1, FromClosed
  <2> QED
    BY <2>2, <2>3
<1>8. x # h => b \in L /\ nx[b] = x
  <2>1. SUFFICES ASSUME x # h
                 PROVE  b \in L /\ nx[b] = x
    OBVIOUS
  <2>2. PICK m \in L : nx[m] = x
    BY <1>1, <1>3, <2>1, FromEntered
  <2>3. pv[x] = m
    BY <1>1, <1>2, <1>4, <1>6, <2>2 DEF WaysBack
  <2> QED
    BY <1>6, <2>2, <2>3
<1>9. nx[x] = Null => last = x
  BY <1>1, <1>3, <1>5, OneEnd
<1>10. \A m \in Node : nx[m] = x => x # h
  BY <1>1, <1>2, <1>3 DEF OneWay
<1>11. \A m \in Node : nx[m] = x => m = b
  BY <1>1, <1>2, <1>4, <1>6, <1>8, <1>10 DEF OneWay
<1>12. \A m \in Node : ch[m] = x => x = h
  BY <1>1, <1>2, <1>4, <1>6, <1>8 DEF OneWay
<1>13. \A m \in Node : ch[m] = x => m = p
  BY <1>1, <1>2, <1>3, <1>12 DEF OneWay
<1> QED
  BY <1>3, <1>4, <1>5, <1>6, <1>7, <1>8, <1>9, <1>10, <1>11, <1>12, <1>13

\* A tree becomes the last item of p, which has others and is in another tree.
LEMMA ForestLast ==
    ASSUME NEW N, NEW O, NEW nx, NEW pv, NEW ch, Forest(N, O, nx, pv, ch),
           NEW o \in O, nx[o] = Null,
           NEW q \in O \ {o}, NEW p \in From(q, nx, ch), ch[p] # Null,
           NEW nx2, nx2 = [nx EXCEPT ![pv[ch[p]]] = o],
           NEW pv2, pv2 = [pv EXCEPT ![o] = pv[ch[p]], ![ch[p]] = o]
    PROVE  Forest(N, O \ {o}, nx2, pv2, ch) /\ Kept(O \ {o}, nx, nx2)
<1> DEFINE l == pv[ch[p]]
<1>1. /\ N \subseteq Node /\ O \subseteq N /\ Null \notin N
      /\ nx \in [Node -> Link] /\ pv \in [Node -> Link] /\ ch \in [Node -> Link]
      /\ Closed(N, nx, ch)
  BY ForestFacts
<1>2. p \in N
  BY <1>1, FromLeast
<1>3. ch[p] \in N /\ ch[p] # o
  BY <1>1, <1>2 DEF Forest, Pointers, NoWay
<1>4. l \in From(ch[p], nx, nx) /\ nx[l] = Null
  BY <1>1, <1>2 DEF Forest, WaysBack
<1>5. l \in N
  BY <1>1, <1>3, <1>4, ListInClosed
<1>6. l # o
  <2>1. From(ch[p], nx, nx) \cap From(o, nx, nx) = {}
    BY <1>1, <1>2, ListsApart
  <2>2. o \in From(o, nx, nx)
    BY <1>1, FromClosed DEF Link
  <2> QED
    BY <1>4, <2>1, <2>2
<1> HIDE DEF l
<1>7. \A m \in Node : /\ nx2[m] = (IF m = l THEN o ELSE nx[m])
                      /\ pv2[m] = (IF m = ch[p] THEN o ELSE IF m = o THEN l ELSE pv[m])
  BY <1>1, <1>3, <1>5 DEF l
<1>8. Pointers(N, nx2, pv2, ch)
  <2>1. nx2 \in [Node -> N \cup {Null}] /\ pv2 \in [Node -> N \cup {Null}]
    BY <1>1, <1>3, <1>5 DEF Forest, Pointers, l
  <2> QED
    BY <1>1, <1>3, <1>5, <1>7, <2>1 DEF Forest, Pointers
<1>9. OneWay(nx2, ch)
  BY <1>1, <1>4, <1>7 DEF Forest, OneWay, NoWay
<1>10. NoWay(O \ {o}, nx2, ch)
  BY <1>1, <1>7 DEF Forest, NoWay
<1>11. ASSUME NEW S \in SUBSET Node
       PROVE  /\ Closed(S, nx2, ch) => Closed(S, nx, ch)
              /\ Closed(S, nx2, nx2) => Closed(S, nx, nx)
  BY <1>1, <1>4, <1>7 DEF Closed
<1>12. ASSUME NEW x \in Link
       PROVE  From(x, nx, nx) \subseteq From(x, nx2, nx2)
  <2>1. \A S \in SUBSET Node : Closed(S, nx2, nx2) => Closed(S, nx, nx)
    BY <1>11
  <2> QED
    BY <2>1 DEF From
<1>13. Covered(N, O \ {o}, nx2, ch)
  <2>1. SUFFICES ASSUME NEW S \in SUBSET Node, O \ {o} \subseteq S, Closed(S, nx2, ch)
                 PROVE  N \subseteq S
    BY DEF Covered
  <2>2. Closed(S, nx, ch)
    BY <1>11, <2>1
  <2>3. p \in S
    BY <2>1, <2>2, FromLeast
  <2>4. ch[p] \in S
    BY <1>1, <1>3, <2>1, <2>3 DEF Closed
  <2>5. l \in S
    BY <1>4, <2>2, <2>4, ListInClosed
  <2>6. o \in S
    BY <1>1, <1>5, <1>7, <2>1, <2>5 DEF Closed
  <2> QED
    BY <2>1, <2>2, <2>6 DEF Forest, Covered
<1>14. ASSUME NEW m \in Node, nx2[m] # Null
       PROVE  pv2[nx2[m]] = m
  <2>1. CASE m = l
    BY <1>1, <1>3, <1>7, <2>1
  <2>2. CASE m # l
    <3>1. nx2[m] = nx[m] /\ nx[m] \in Node /\ nx[m] # o /\ nx[m] # ch[p]
      BY <1>1, <1>2, <1>3, <1>7, <1>14, <2>2 DEF Forest, NoWay, OneWay, Link
    <3> QED
      BY <1>7, <1>14, <3>1 DEF Forest, WaysBack
  <2> QED
    BY <2>1, <2>2
<1>15. ASSUME NEW m \in Node, ch[m] # Null
       PROVE  pv2[ch[m]] \in From(ch[m], nx2, nx2) /\ nx2[pv2[ch[m]]] = Null
  <2>1. ch[m] \in Node /\ ch[m] # o
    BY <1>1, <1>15 DEF Forest, NoWay, Link
  <2>2. CASE m = p
    <3>1. pv2[ch[p]] = o /\ nx2[o] = Null
      BY <1>1, <1>3, <1>6, <1>7
    <3>2. l \in From(ch[p], nx2, nx2)
      BY <1>1, <1>3, <1>4, <1>12 DEF Link
    <3>3. nx2 \in [Node -> Link]
      BY <1>8 DEF Pointers, Link
    <3>4. Closed(From(ch[p], nx2, nx2), nx2, nx2)
      BY <2>1, <2>2, <3>3, FromClosed DEF Link
    <3>5. nx2[l] = o /\ o # Null
      BY <1>1, <1>5, <1>7
    <3>6. o \in From(ch[p], nx2, nx2)
      BY <3>2, <3>4, <3>5 DEF Closed
    <3> QED
      BY <2>2, <3>1, <3>6
  <2>3. CASE m # p
    <3>1. ch[m] # ch[p]
      BY <1>1, <1>2, <1>15, <2>3 DEF Forest, OneWay
    <3>2. pv2[ch[m]] = pv[ch[m]]
      BY <1>7, <2>1, <3>1
    <3>3. pv[ch[m]] \in From(ch[m], nx, nx) /\ nx[pv[ch[m]]] = Null
      BY <1>15 DEF Forest, WaysBack
    <3>4. pv[ch[m]] # l
      BY <1>1, <1>2, <1>4, <2>3, <3>3, ListsApart
    <3>5. pv[ch[m]] \in Node
      BY <1>1, <1>15, <2>1, <3>3, FromClosed
    <3> QED
      BY <1>7, <1>12, <2>1, <3>2, <3>3, <3>4, <3>5 DEF Link
  <2> QED
    BY <2>2, <2>3
<1>16. WaysBack(O \ {o}, nx2, pv2, ch)
  <2>1. \A r \in O : pv[r] = Null /\ r \in Node /\ r # ch[p]
    BY <1>1, <1>2 DEF Forest, WaysBack, NoWay
  <2>2. \A r \in O \ {o} : pv2[r] = Null
    BY <1>7, <2>1
  <2> QED
    BY <1>14, <1>15, <2>2 DEF WaysBack
<1>17. Forest(N, O \ {o}, nx2, pv2, ch)
  BY <1>1, <1>8, <1>9, <1>10, <1>13, <1>16 DEF Forest
<1>18. l \notin O
  BY <1>2, <1>4, ItemOfList
<1>19. Kept(O \ {o}, nx, nx2)
  BY <1>1, <1>7, <1>18 DEF Kept
<1> QED
  BY <1>17, <1>19

\* The pointers when x has left the list of p (cJSON.c:2045-2064).
OutNext(p, x, nx, pv, ch) ==
    [n \in Node |-> IF n = x THEN Null
                    ELSE IF x # ch[p] /\ n = pv[x] THEN nx[x]
                    ELSE nx[n]]
\* The same for prev.
OutPrev(p, x, nx, pv, ch) ==
    [n \in Node |-> IF n = x THEN Null
                    ELSE IF n = nx[x] THEN pv[x]
                    ELSE IF x # ch[p] /\ nx[x] = Null /\ n = ch[p] THEN pv[x]
                    ELSE pv[n]]
\* The same for child.
OutChild(p, x, nx, ch) == IF x = ch[p] THEN [ch EXCEPT ![p] = nx[x]] ELSE ch

\* cJSON_DetachItemViaPointer: an item leaves the list of p, and is a tree.
LEMMA ForestDetach ==
    ASSUME NEW N, NEW O, NEW nx, NEW pv, NEW ch, Forest(N, O, nx, pv, ch),
           NEW p \in N, NEW x \in From(ch[p], nx, nx),
           NEW nx2, nx2 = OutNext(p, x, nx, pv, ch), NEW pv2, pv2 = OutPrev(p, x, nx, pv, ch),
           NEW ch2, ch2 = OutChild(p, x, nx, ch)
    PROVE  /\ Forest(N, O \cup {x}, nx2, pv2, ch2) /\ x \in N \ O
           /\ nx2[x] = Null /\ Kept(O, nx, nx2)
<1> DEFINE h == ch[p]  L == From(h, nx, nx)  last == pv[h]  b == pv[x]  y == nx[x]
<1>1. /\ N \subseteq Node /\ O \subseteq N /\ Null \notin N
      /\ nx \in [Node -> Link] /\ pv \in [Node -> Link] /\ ch \in [Node -> Link]
      /\ Closed(N, nx, ch) /\ OneWayIn(nx, ch) /\ Node \subseteq Link
  BY ForestFacts DEF Link
<1>2. OneWay(nx, ch) /\ NoWay(O, nx, ch) /\ Pointers(N, nx, pv, ch) /\ WaysBack(O, nx, pv, ch)
  BY DEF Forest
<1>3. h \in N /\ h # Null /\ L \subseteq N /\ Closed(L, nx, nx) /\ h \in L
  BY <1>1, ItemOfList
<1>4. last \in L /\ nx[last] = Null
  BY ItemOfList
<1>5. x \in N /\ y # x /\ x \notin O
  BY <1>3, ItemOfList
<1>6. x # h => b \in L /\ nx[b] = x /\ b # x
  BY <1>5, ItemOfList
<1>7. y = Null => last = x
  BY ItemOfList
<1>8. \A m \in Node : (nx[m] = x => x # h /\ m = b) /\ (ch[m] = x => x = h /\ m = p)
  BY ItemOfList
<1>9. y \in N \cup {Null} /\ b \in N \cup {Null}
  BY <1>1, <1>2, <1>5 DEF Pointers
<1>10. y # h /\ \A m \in Node : ch[m] # Null => ch[m] # y
  BY <1>1, <1>2, <1>3, <1>5 DEF OneWay
<1>11. \A m \in Node : m # x => nx[m] = Null \/ nx[m] # y
  BY <1>1, <1>2, <1>5 DEF OneWay
<1> HIDE DEF h, L, last, b, y
<1>12. ASSUME NEW m \in Node
       PROVE  /\ nx2[m] = (IF m = x THEN Null ELSE IF x # h /\ m = b THEN y ELSE nx[m])
              /\ pv2[m] = (IF m = x THEN Null ELSE IF m = y THEN b
                           ELSE IF x # h /\ y = Null /\ m = h THEN b ELSE pv[m])
              /\ ch2[m] = (IF x = h /\ m = p THEN y ELSE ch[m])
  BY <1>1 DEF h, b, y, OutNext, OutPrev, OutChild
<1>13. nx2 \in [Node -> N \cup {Null}] /\ pv2 \in [Node -> N \cup {Null}]
       /\ ch2 \in [Node -> N \cup {Null}]
  <2>1. \A m \in Node :
          nx[m] \in N \cup {Null} /\ pv[m] \in N \cup {Null} /\ ch[m] \in N \cup {Null}
    BY <1>2 DEF Pointers
  <2>2. nx2 \in [Node -> N \cup {Null}]
    BY <1>9, <2>1 DEF y, OutNext
  <2>3. pv2 \in [Node -> N \cup {Null}]
    BY <1>9, <2>1 DEF b, OutPrev
  <2>4. ch2 \in [Node -> N \cup {Null}]
    BY <1>2, <1>9 DEF y, Pointers, OutChild
  <2> QED
    BY <2>2, <2>3, <2>4
<1>14. Pointers(N, nx2, pv2, ch2)
  <2>1. \A m \in Node \ N : nx[m] = Null /\ pv[m] = Null /\ ch[m] = Null
    BY <1>2 DEF Pointers
  <2>2. \A m \in Node \ N : m # p /\ m # x /\ m # h /\ m # y /\ (x # h => m # b)
    BY <1>3, <1>5, <1>6, <1>9, NodesAreNotNull
  <2> QED
    BY <1>1, <1>12, <1>13, <2>1, <2>2 DEF Pointers
<1>15. OneWay(nx2, ch2)
  <2>1. ASSUME NEW m \in Node, NEW k \in Node, nx2[m] = nx2[k], nx2[m] # Null
        PROVE  m = k
    BY <1>2, <1>11, <1>12, <2>1 DEF OneWay
  <2>2. ASSUME NEW m \in Node, NEW k \in Node, ch2[m] = ch2[k], ch2[m] # Null
        PROVE  m = k
    BY <1>2, <1>10, <1>12, <2>2 DEF OneWay
  <2>3. ASSUME NEW m \in Node, NEW k \in Node, nx2[m] = ch2[k]
        PROVE  nx2[m] = Null
    BY <1>2, <1>10, <1>11, <1>12, <2>3 DEF OneWay
  <2> QED
    BY <2>1, <2>2, <2>3 DEF OneWay
<1>16. NoWay(O \cup {x}, nx2, ch2)
  <2>1. ASSUME NEW o \in O, NEW m \in Node
        PROVE  nx2[m] # o /\ ch2[m] # o
    <3>1. nx[m] # o /\ ch[m] # o /\ nx[x] # o /\ o # Null
      BY <1>1, <1>2, <1>5 DEF NoWay
    <3> QED
      BY <1>12, <3>1 DEF y
  <2>2. ASSUME NEW m \in Node
        PROVE  nx2[m] # x /\ ch2[m] # x
    BY <1>1, <1>5, <1>12, <1>8
  <2> QED
    BY <2>1, <2>2 DEF NoWay
<1>17. Covered(N, O \cup {x}, nx2, ch2)
  <2>1. SUFFICES ASSUME NEW S \in SUBSET Node, O \cup {x} \subseteq S, Closed(S, nx2, ch2)
                 PROVE  N \subseteq S
    BY DEF Covered
  <2> DEFINE before == IF x = h THEN p ELSE b
  <2>2. CASE before \in S
    <3>1. y \in S \cup {Null}
      <4>1. CASE x = h
        BY <1>12, <2>1, <2>2, <4>1 DEF Closed
      <4>2. CASE x # h
        BY <1>6, <1>12, <2>1, <2>2, <4>2 DEF Closed
      <4> QED
        BY <4>1, <4>2
    <3>2. ch[x] \in S \cup {Null}
      <4>1. ch2[x] = ch[x]
        BY <1>1, <1>5, <1>12, NoLoop DEF h
      <4> QED
        BY <2>1, <4>1 DEF Closed
    <3>3. \A m \in S : nx[m] \in S \cup {Null} /\ ch[m] \in S \cup {Null}
      <4>1. \A m \in S : nx2[m] \in S \cup {Null} /\ ch2[m] \in S \cup {Null}
        BY <2>1 DEF Closed
      <4>2. \A m \in S : nx[m] \in S \cup {Null}
        BY <1>6, <1>12, <2>1, <3>1, <4>1 DEF y
      <4>3. \A m \in S : ch[m] \in S \cup {Null}
        BY <1>12, <2>1, <3>2, <4>1 DEF h
      <4> QED
        BY <4>2, <4>3
    <3>4. Closed(S, nx, ch)
      BY <3>3 DEF Closed
    <3> QED
      BY <2>1, <3>4 DEF Forest, Covered
  <2>3. CASE before \notin S
    <3>1. \A m \in S \ {x} : nx2[m] = nx[m] /\ ch2[m] = ch[m]
      BY <1>12, <2>3
    <3>2. \A m \in S \ {x} : nx[m] # x /\ ch[m] # x
      BY <1>8, <2>3
    <3>3. Closed(S \ {x}, nx, ch)
      BY <2>1, <3>1, <3>2 DEF Closed
    <3>4. S \ {x} \in SUBSET Node /\ O \subseteq S \ {x}
      BY <1>5, <2>1
    <3>5. N \subseteq S \ {x}
      BY <3>3, <3>4 DEF Forest, Covered
    <3> QED
      BY <3>5
  <2> QED
    BY <2>2, <2>3
<1>18. ASSUME NEW m \in Node, nx2[m] # Null
       PROVE  pv2[nx2[m]] = m
  <2>1. m # x
    BY <1>12, <1>18
  <2>2. CASE x # h /\ m = b
    <3>1. nx2[m] = y /\ y \in Node
      BY <1>1, <1>9, <1>12, <1>18, <2>1, <2>2
    <3> QED
      BY <1>5, <1>12, <2>2, <3>1
  <2>3. CASE ~(x # h /\ m = b)
    <3>1. nx2[m] = nx[m] /\ nx[m] \in Node
      BY <1>1, <1>12, <1>18, <2>1, <2>3 DEF Link
    <3>2. nx[m] # x /\ nx[m] # y /\ nx[m] # h
      BY <1>1, <1>2, <1>11, <1>8, <1>18, <2>1, <2>3, <3>1 DEF OneWay, h
    <3>3. pv[nx[m]] = m
      BY <1>2, <1>18, <3>1 DEF WaysBack
    <3> QED
      BY <1>12, <3>1, <3>2, <3>3
  <2> QED
    BY <2>2, <2>3
<1>19. nx2 \in [Node -> Link]
  BY <1>1, <1>13 DEF Link
<1>20. ASSUME NEW m \in Node, m # p, ch2[m] # Null
       PROVE  pv2[ch2[m]] \in From(ch2[m], nx2, nx2) /\ nx2[pv2[ch2[m]]] = Null
  <2>1. ch2[m] = ch[m] /\ ch[m] \in Node
    BY <1>1, <1>12, <1>20 DEF Link
  <2>2. ch[m] # x /\ ch[m] # y /\ ch[m] # h
    BY <1>1, <1>2, <1>10, <1>8, <1>20, <2>1 DEF OneWay, h
  <2>3. pv2[ch[m]] = pv[ch[m]]
    BY <1>12, <2>1, <2>2
  <2>4. pv[ch[m]] \in From(ch[m], nx, nx) /\ nx[pv[ch[m]]] = Null
    BY <1>2, <1>20, <2>1 DEF WaysBack
  <2>5. From(ch[m], nx, nx) \cap L = {}
    BY <1>1, <1>20, ListsApart DEF L, h
  <2>6. From(ch[m], nx, nx) \subseteq Node
    BY <1>1, <2>1, FromClosed
  <2>7. \A k \in From(ch[m], nx, nx) : nx2[k] = nx[k]
    BY <1>6, <1>12, <2>5, <2>6 DEF L, h
  <2>8. From(ch[m], nx, nx) \subseteq From(ch[m], nx2, nx2)
    BY <1>1, <1>19, <2>1, <2>7, FromKept
  <2> QED
    BY <2>1, <2>3, <2>4, <2>7, <2>8
<1>21. ASSUME ch2[p] # Null
       PROVE  pv2[ch2[p]] \in From(ch2[p], nx2, nx2) /\ nx2[pv2[ch2[p]]] = Null
  <2>1. CASE x = h
    <3>1. ch2[p] = y /\ y \in Node
      BY <1>1, <1>9, <1>12, <1>21, <2>1
    <3>2. pv2[y] = last /\ last # x
      BY <1>4, <1>5, <1>12, <1>21, <2>1, <3>1 DEF last, b, y
    <3>3. nx2[last] = Null
      BY <1>1, <1>3, <1>4, <1>12, <2>1
    <3>4. last \in From(y, nx, nx)
      BY <1>1, <1>4, <1>5, <2>1, <3>2, FromGoesOn DEF L, y
    <3>5. ASSUME NEW S \in SUBSET Node, y \in S \cup {Null}, Closed(S, nx2, nx2)
          PROVE  last \in S
      <4>1. Closed(S \cup {x}, nx, nx)
        BY <1>12, <2>1, <3>5 DEF Closed, y
      <4>2. From(y, nx, nx) \subseteq S \cup {x}
        BY <1>1, <1>5, <3>5, <4>1, FromLeast
      <4> QED
        BY <3>2, <3>4, <4>2
    <3>6. last \in From(y, nx2, nx2)
      BY <1>1, <1>3, <1>4, <3>5 DEF From
    <3> QED
      BY <3>1, <3>2, <3>3, <3>6
  <2>2. CASE x # h
    <3>1. ch2[p] = h /\ h \in Node
      BY <1>1, <1>3, <1>12, <2>2 DEF h
    <3>2. ASSUME NEW S \in SUBSET Node, h \in S \cup {Null}, Closed(S, nx2, nx2)
          PROVE  b \in S /\ (last # x => last \in S)
      <4>1. b \in S
        <5>1. SUFFICES ASSUME b \notin S
                       PROVE  FALSE
          OBVIOUS
        <5>2. Closed(S \ {x}, nx, nx)
          BY <1>12, <1>8, <3>2, <5>1 DEF Closed
        <5>3. S \ {x} \in SUBSET Node /\ h \in S \ {x}
          BY <1>3, <2>2, <3>2
        <5>4. L \subseteq S \ {x}
          BY <5>2, <5>3, FromLeast DEF L
        <5> QED
          BY <5>4 DEF L, h
      <4>2. ASSUME last # x
            PROVE  last \in S
        <5>1. y \in S \cup {Null}
          BY <1>6, <1>12, <2>2, <3>2, <4>1 DEF Closed
        <5>2. Closed(S \cup {x}, nx, nx)
          BY <1>6, <1>12, <2>2, <3>2, <5>1 DEF Closed, y
        <5>3. L \subseteq S \cup {x}
          BY <1>1, <1>5, <3>2, <5>2, FromLeast DEF L
        <5> QED
          BY <1>4, <4>2, <5>3
      <4> QED
        BY <4>1, <4>2
    <3>3. CASE y = Null
      <4>1. pv2[h] = b /\ nx2[b] = Null
        BY <1>3, <1>6, <1>1, <1>12, <2>2, <3>1, <3>3
      <4>2. b \in From(h, nx2, nx2)
        BY <1>1, <1>3, <1>6, <2>2, <3>2 DEF From
      <4> QED
        BY <3>1, <4>1, <4>2
    <3>4. CASE y # Null
      <4>1. last # x /\ last # b
        BY <1>4, <1>5, <1>6, <1>1, <2>2, <3>4 DEF y
      <4>2. pv2[h] = last /\ nx2[last] = Null
        BY <1>1, <1>3, <1>4, <1>10, <1>12, <2>2, <3>1, <3>4, <4>1 DEF last
      <4>3. last \in From(h, nx2, nx2)
        BY <1>1, <1>3, <1>4, <3>2, <4>1 DEF From
      <4> QED
        BY <3>1, <4>2, <4>3
    <3> QED
      BY <3>3, <3>4
  <2> QED
    BY <2>1, <2>2
<1>22. \A o \in O \cup {x} : pv2[o] = Null
  <2>1. \A o \in O : o # y /\ o # h /\ pv[o] = Null
    BY <1>1, <1>2, <1>5 DEF NoWay, WaysBack, y, h
  <2> QED
    BY <1>1, <1>5, <1>12, <2>1
<1>23. WaysBack(O \cup {x}, nx2, pv2, ch2)
  BY <1>18, <1>20, <1>21, <1>22 DEF WaysBack
<1>24. Forest(N, O \cup {x}, nx2, pv2, ch2)
  BY <1>1, <1>5, <1>14, <1>15, <1>16, <1>17, <1>23 DEF Forest
<1>25. ASSUME NEW r \in O
       PROVE  nx2[r] = nx[r]
  <2>1. x # h => b \notin O
    BY <1>3, <1>6, ItemOfList DEF L, h
  <2> QED
    BY <1>1, <1>5, <1>12, <2>1
<1>26. nx2[x] = Null
  BY <1>1, <1>5, <1>12
<1> QED
  BY <1>5, <1>24, <1>25, <1>26 DEF Kept

\* The pointers when o has got a place in the list of p, before x
\* (cJSON.c:2121-2133).
InNext(p, x, o, nx, pv, ch) ==
    [n \in Node |-> IF n = o THEN x ELSE IF x # ch[p] /\ n = pv[x] THEN o ELSE nx[n]]
\* The same for prev.
InPrev(x, o, pv) == [pv EXCEPT ![o] = pv[x], ![x] = o]
\* The same for child.
InChild(p, x, o, ch) == IF x = ch[p] THEN [ch EXCEPT ![p] = o] ELSE ch

\* cJSON_InsertItemInArray: a tree gets a place in the list of p, before x.
LEMMA ForestInsert ==
    ASSUME NEW N, NEW O, NEW nx, NEW pv, NEW ch, Forest(N, O, nx, pv, ch),
           NEW o \in O, nx[o] = Null, NEW q \in O \ {o}, NEW p \in From(q, nx, ch),
           NEW x \in From(ch[p], nx, nx),
           NEW nx2, nx2 = InNext(p, x, o, nx, pv, ch), NEW pv2, pv2 = InPrev(x, o, pv),
           NEW ch2, ch2 = InChild(p, x, o, ch)
    PROVE  /\ Forest(N, O \ {o}, nx2, pv2, ch2) /\ x \in From(ch2[p], nx2, nx2)
           /\ Kept(O \ {o}, nx, nx2)
<1> DEFINE h == ch[p]  L == From(h, nx, nx)  last == pv[h]  b == pv[x]
<1>1. /\ N \subseteq Node /\ O \subseteq N /\ Null \notin N
      /\ nx \in [Node -> Link] /\ pv \in [Node -> Link] /\ ch \in [Node -> Link]
      /\ Closed(N, nx, ch) /\ OneWayIn(nx, ch) /\ Node \subseteq Link
  BY ForestFacts DEF Link
<1>2. OneWay(nx, ch) /\ NoWay(O, nx, ch) /\ Pointers(N, nx, pv, ch) /\ WaysBack(O, nx, pv, ch)
  BY DEF Forest
<1>3. p \in N
  BY <1>1, FromLeast
<1>4. h \in N /\ L \subseteq N /\ Closed(L, nx, nx) /\ h \in L /\ last \in L /\ nx[last] = Null
  BY <1>3, ItemOfList
<1>5. x \in N /\ x \notin O /\ (x # h => b \in L /\ nx[b] = x)
  BY <1>3, <1>4, ItemOfList
<1>6. \A m \in Node : (nx[m] = x => x # h /\ m = b) /\ (ch[m] = x => x = h /\ m = p)
  BY <1>3, ItemOfList
<1>7. o \notin L /\ x # o /\ h # o
  <2>1. From(h, nx, nx) \cap From(o, nx, nx) = {}
    BY <1>1, <1>3, ListsApart
  <2>2. o \in From(o, nx, nx)
    BY <1>1, FromClosed
  <2> QED
    BY <1>4, <2>1, <2>2
<1>8. p # o
  <2>1. From(o, nx, ch) \cap From(q, nx, ch) = {}
    BY TreesApart
  <2>2. o \in From(o, nx, ch)
    BY <1>1, FromClosed
  <2> QED
    BY <2>1, <2>2
<1>9. b \in N \cup {Null} /\ b # o
  <2>1. CASE x = h
    BY <1>4, <1>7, <2>1
  <2>2. CASE x # h
    BY <1>4, <1>5, <1>7, <2>2
  <2> QED
    BY <2>1, <2>2
<1> HIDE DEF h, L, last, b
<1>10. ASSUME NEW m \in Node
       PROVE  /\ nx2[m] = (IF m = o THEN x ELSE IF x # h /\ m = b THEN o ELSE nx[m])
              /\ pv2[m] = (IF m = x THEN o ELSE IF m = o THEN b ELSE pv[m])
              /\ ch2[m] = (IF x = h /\ m = p THEN o ELSE ch[m])
  <2>3. nx2[m] = (IF m = o THEN x ELSE IF x # h /\ m = b THEN o ELSE nx[m])
    BY DEF h, b, InNext
  <2>4. pv2[m] = (IF m = x THEN o ELSE IF m = o THEN b ELSE pv[m])
    BY <1>1, <1>5, <1>7 DEF b, InPrev
  <2>5. ch2[m] = (IF x = h /\ m = p THEN o ELSE ch[m])
    BY <1>1 DEF h, InChild
  <2> QED
    BY <2>3, <2>4, <2>5
<1>11. nx2 \in [Node -> N \cup {Null}] /\ pv2 \in [Node -> N \cup {Null}]
       /\ ch2 \in [Node -> N \cup {Null}]
  <2>1. nx2 \in [Node -> N \cup {Null}]
    BY <1>1, <1>2, <1>5 DEF Pointers, InNext
  <2>2. pv2 \in [Node -> N \cup {Null}]
    BY <1>1, <1>2, <1>5, <1>9 DEF Pointers, b, InPrev
  <2>3. ch2 \in [Node -> N \cup {Null}]
    BY <1>1, <1>2 DEF Pointers, InChild
  <2> QED
    BY <2>1, <2>2, <2>3
<1>12. Pointers(N, nx2, pv2, ch2)
  <2>1. \A m \in Node \ N : nx[m] = Null /\ pv[m] = Null /\ ch[m] = Null
    BY <1>2 DEF Pointers
  <2>2. \A m \in Node \ N : m # p /\ m # x /\ m # o /\ (x # h => m # b)
    BY <1>1, <1>3, <1>4, <1>5
  <2> QED
    BY <1>1, <1>10, <1>11, <2>1, <2>2 DEF Pointers
<1>13. \A m \in Node : nx[m] # o /\ ch[m] # o
  BY <1>2 DEF NoWay
<1>14. OneWay(nx2, ch2)
  <2>1. ASSUME NEW m \in Node, NEW k \in Node, nx2[m] = nx2[k], nx2[m] # Null
        PROVE  m = k
    BY <1>2, <1>6, <1>7, <1>10, <1>13, <2>1 DEF OneWay
  <2>2. ASSUME NEW m \in Node, NEW k \in Node, ch2[m] = ch2[k], ch2[m] # Null
        PROVE  m = k
    BY <1>2, <1>10, <1>13, <2>2 DEF OneWay
  <2>3. ASSUME NEW m \in Node, NEW k \in Node, nx2[m] = ch2[k]
        PROVE  nx2[m] = Null
    <3>1. CASE m = o
      <4>1. nx2[m] = x
        BY <1>10, <3>1
      <4> QED
        BY <1>6, <1>7, <1>10, <2>3, <4>1
    <3>2. CASE m # o /\ x # h /\ m = b
      BY <1>10, <1>13, <2>3, <3>2
    <3>3. CASE m # o /\ ~(x # h /\ m = b)
      <4>1. nx2[m] = nx[m] /\ nx[m] # o
        BY <1>10, <1>13, <3>3
      <4>2. ch2[k] = ch[k]
        BY <1>10, <2>3, <4>1
      <4> QED
        BY <1>2, <2>3, <4>1, <4>2 DEF OneWay
    <3> QED
      BY <3>1, <3>2, <3>3
  <2> QED
    BY <2>1, <2>2, <2>3 DEF OneWay
<1>15. NoWay(O \ {o}, nx2, ch2)
  <2>1. \A r \in O \ {o} : r # x /\ r # o /\ \A m \in Node : nx[m] # r /\ ch[m] # r
    BY <1>2, <1>5 DEF NoWay
  <2> QED
    BY <1>10, <2>1 DEF NoWay
<1>16. ASSUME NEW S \in SUBSET Node
       PROVE  /\ Closed(S, nx2, ch2) => Closed(S, nx, ch)
              /\ Closed(S, nx2, nx2) => Closed(S, nx, nx)
  <2>1. ASSUME \A m \in S : nx2[m] \in S \cup {Null}
        PROVE  \A m \in S : nx[m] \in S \cup {Null}
    <3>1. nx[o] = Null /\ nx2[o] = x /\ o # Null /\ x # Null
      BY <1>1, <1>5, <1>10
    <3>2. x # h => nx[b] = x /\ (b \in Node => nx2[b] = o)
      BY <1>5, <1>9, <1>10
    <3> QED
      BY <1>10, <2>1, <3>1, <3>2
  <2>2. ASSUME Closed(S, nx2, ch2), NEW m \in S
        PROVE  ch[m] \in S \cup {Null}
    <3>1. CASE x = h /\ m = p
      <4>1. o \in S /\ x \in S
        BY <1>1, <1>5, <1>10, <2>2, <3>1 DEF Closed
      <4> QED
        BY <3>1, <4>1 DEF h
    <3>2. CASE ~(x = h /\ m = p)
      BY <1>10, <2>2, <3>2 DEF Closed
    <3> QED
      BY <3>1, <3>2
  <2> QED
    BY <2>1, <2>2 DEF Closed
<1>17. ASSUME NEW z
       PROVE  From(z, nx, nx) \subseteq From(z, nx2, nx2)
  <2>1. \A S \in SUBSET Node : Closed(S, nx2, nx2) => Closed(S, nx, nx)
    BY <1>16
  <2> QED
    BY <2>1 DEF From
<1>18. Covered(N, O \ {o}, nx2, ch2)
  <2>1. SUFFICES ASSUME NEW S \in SUBSET Node, O \ {o} \subseteq S, Closed(S, nx2, ch2)
                 PROVE  N \subseteq S
    BY DEF Covered
  <2>2. Closed(S, nx, ch)
    BY <1>16, <2>1
  <2>3. p \in S
    BY <2>1, <2>2, FromLeast
  <2>4. h \in S
    BY <1>1, <1>4, <2>2, <2>3 DEF Closed, h
  <2>5. L \subseteq S
    BY <2>2, <2>4, ListInClosed DEF L
  <2>6. o \in S
    <3>1. CASE x = h
      BY <1>1, <1>10, <2>1, <2>3, <3>1 DEF Closed
    <3>2. CASE x # h
      BY <1>1, <1>5, <1>9, <1>10, <2>1, <2>5, <3>2 DEF Closed
    <3> QED
      BY <3>1, <3>2
  <2> QED
    BY <2>1, <2>2, <2>6 DEF Forest, Covered
<1>19. ASSUME NEW m \in Node, nx2[m] # Null
       PROVE  pv2[nx2[m]] = m
  <2>1. CASE m = o
    BY <1>1, <1>5, <1>10, <2>1
  <2>2. CASE m # o /\ x # h /\ m = b
    BY <1>1, <1>7, <1>10, <2>2
  <2>3. CASE m # o /\ ~(x # h /\ m = b)
    <3>1. nx2[m] = nx[m] /\ nx[m] \in Node /\ nx[m] # x /\ nx[m] # o
      BY <1>1, <1>6, <1>10, <1>13, <1>19, <2>3 DEF Link
    <3>2. pv[nx[m]] = m
      BY <1>2, <1>19, <3>1 DEF WaysBack
    <3> QED
      BY <1>10, <3>1, <3>2
  <2> QED
    BY <2>1, <2>2, <2>3
<1>20. nx2 \in [Node -> Link]
  BY <1>1, <1>11 DEF Link
<1>21. ASSUME NEW m \in Node, m # p, ch2[m] # Null
       PROVE  pv2[ch2[m]] \in From(ch2[m], nx2, nx2) /\ nx2[pv2[ch2[m]]] = Null
  <2>1. ch2[m] = ch[m] /\ ch[m] \in Node /\ ch[m] # x /\ ch[m] # o
    BY <1>1, <1>6, <1>10, <1>13, <1>21 DEF Link
  <2>2. pv2[ch[m]] = pv[ch[m]]
    BY <1>10, <2>1
  <2>3. pv[ch[m]] \in From(ch[m], nx, nx) /\ nx[pv[ch[m]]] = Null
    BY <1>2, <1>21, <2>1 DEF WaysBack
  <2>4. From(ch[m], nx, nx) \cap L = {} /\ o \notin From(ch[m], nx, nx)
    <3>1. From(ch[m], nx, nx) \cap From(o, nx, nx) = {}
      BY ListsApart
    <3>2. o \in From(o, nx, nx)
      BY <1>1, FromClosed
    <3>3. From(ch[m], nx, nx) \cap L = {}
      BY <1>1, <1>3, <1>21, ListsApart DEF L, h
    <3> QED
      BY <3>1, <3>2, <3>3
  <2>5. pv[ch[m]] \in Node
    BY <1>1, <2>1, <2>3, FromClosed
  <2>6. nx2[pv[ch[m]]] = Null
    BY <1>5, <1>10, <2>3, <2>4, <2>5
  <2>7. pv[ch[m]] \in From(ch[m], nx2, nx2)
    BY <1>17, <2>3
  <2> QED
    BY <2>1, <2>2, <2>6, <2>7
<1>22. /\ x = h => last \in From(o, nx2, nx2) /\ x \in From(o, nx2, nx2)
       /\ x # h => last \in From(h, nx2, nx2) /\ x \in From(h, nx2, nx2)
  <2>1. CASE x # h
    BY <1>4, <1>17, <2>1 DEF L, h
  <2>2. CASE x = h
    <3> DEFINE F == From(o, nx2, nx2)
    <3> HIDE DEF F
    <3>1. F \in SUBSET Node /\ Closed(F, nx2, nx2) /\ o \in F
      <4>1. o \in Link /\ o # Null
        BY <1>1
      <4> QED
        BY <1>20, <4>1, FromClosed DEF F
    <3>2. x \in F
      <4>1. nx2[o] = x /\ x # Null
        BY <1>1, <1>5, <1>10
      <4> QED
        BY <3>1, <4>1 DEF Closed
    <3>3. L \subseteq F
      BY <1>16, <2>2, <3>1, <3>2, FromLeast DEF L
    <3> QED
      BY <1>4, <2>2, <3>2, <3>3 DEF F
  <2> QED
    BY <2>1, <2>2
<1>23. ch2[p] # Null => pv2[ch2[p]] \in From(ch2[p], nx2, nx2) /\ nx2[pv2[ch2[p]]] = Null
  <2>1. last # o /\ (x # h => last # b) /\ last \in Node
    BY <1>1, <1>4, <1>5, <1>7
  <2>2. nx2[last] = Null
    BY <1>4, <1>10, <2>1
  <2>3. CASE x = h
    <3>1. ch2[p] = o /\ pv2[o] = last
      BY <1>1, <1>3, <1>7, <1>10, <2>3 DEF b, last
    <3> QED
      BY <1>22, <2>2, <2>3, <3>1
  <2>4. CASE x # h
    <3>1. ch2[p] = h /\ pv2[h] = last
      BY <1>1, <1>3, <1>4, <1>7, <1>10, <2>4 DEF last, h
    <3> QED
      BY <1>22, <2>2, <2>4, <3>1
  <2> QED
    BY <2>3, <2>4
<1>24. WaysBack(O \ {o}, nx2, pv2, ch2)
  <2>1. \A r \in O \ {o} : pv2[r] = Null
    BY <1>1, <1>2, <1>5, <1>10 DEF WaysBack
  <2> QED
    BY <1>19, <1>21, <1>23, <2>1 DEF WaysBack
<1>25. Forest(N, O \ {o}, nx2, pv2, ch2)
  BY <1>1, <1>12, <1>14, <1>15, <1>18, <1>24 DEF Forest
<1>26. x \in From(ch2[p], nx2, nx2)
  BY <1>1, <1>3, <1>10, <1>22 DEF h
<1>27. x # h => b \notin O
  BY <1>3, <1>5, ItemOfList DEF L, h
<1>28. Kept(O \ {o}, nx, nx2)
  BY <1>1, <1>10, <1>27 DEF Kept
<1> QED
  BY <1>25, <1>26, <1>28

\* The pointers when o has got the place of x in the list of p
\* (cJSON.c:2148-2172).
PlaceNext(p, x, o, nx, pv, ch) ==
    [n \in Node |-> IF n = x THEN Null
                    ELSE IF n = o THEN nx[x]
                    ELSE IF ch[p] # x /\ n = pv[x] THEN o
                    ELSE nx[n]]
\* The same for prev.
PlacePrev(p, x, o, nx, pv, ch) ==
    [n \in Node |-> IF n = x THEN Null
                    ELSE IF n = o THEN IF ch[p] = x /\ pv[x] = x THEN o ELSE pv[x]
                    ELSE IF n = nx[x] THEN o
                    ELSE IF ch[p] # x /\ nx[x] = Null /\ n = ch[p] THEN o
                    ELSE pv[n]]

\* cJSON_ReplaceItemViaPointer: the tree o gets the place of x, which is what
\* inserting it before x and detaching x does.
LEMMA ForestReplace ==
    ASSUME NEW N, NEW O, NEW nx, NEW pv, NEW ch, Forest(N, O, nx, pv, ch),
           NEW o \in O, nx[o] = Null, NEW q \in O \ {o}, NEW p \in From(q, nx, ch),
           NEW x \in From(ch[p], nx, nx),
           NEW nx3, nx3 = PlaceNext(p, x, o, nx, pv, ch),
           NEW pv3, pv3 = PlacePrev(p, x, o, nx, pv, ch),
           NEW ch3, ch3 = InChild(p, x, o, ch)
    PROVE  Forest(N, (O \ {o}) \cup {x}, nx3, pv3, ch3) /\ x \in N
<1> DEFINE nx2 == InNext(p, x, o, nx, pv, ch)
           pv2 == InPrev(x, o, pv)
<1>1. /\ N \subseteq Node /\ O \subseteq N /\ Null \notin N
      /\ nx \in [Node -> Link] /\ pv \in [Node -> Link] /\ ch \in [Node -> Link]
      /\ Closed(N, nx, ch)
  BY ForestFacts
<1>2. p \in N
  BY <1>1, FromLeast
<1>3. /\ ch[p] \in N /\ x \in N /\ x \notin O /\ nx[x] # x
      /\ nx[x] = Null => pv[ch[p]] = x
      /\ nx[pv[ch[p]]] = Null
      /\ x # ch[p] => nx[pv[x]] = x
  BY <1>2, ItemOfList
<1>4. o # x /\ nx[x] # o /\ o # ch[p]
  BY <1>1, <1>2, <1>3 DEF Forest, NoWay
<1>5. /\ Forest(N, O \ {o}, nx2, pv2, ch3) /\ x \in From(ch3[p], nx2, nx2)
      /\ Kept(O \ {o}, nx, nx2)
  BY ForestInsert
<1>6. \A n \in Node : nx2[n] = IF n = o THEN x
                               ELSE IF x # ch[p] /\ n = pv[x] THEN o ELSE nx[n]
  BY DEF InNext
<1>7. \A n \in Node : pv2[n] = IF n = x THEN o ELSE IF n = o THEN pv[x] ELSE pv[n]
  BY <1>1, <1>3, <1>4 DEF InPrev
<1>8. ch3[p] = IF x = ch[p] THEN o ELSE ch[p]
  BY <1>1, <1>2 DEF InChild
<1>9. pv2[x] = o /\ nx2[x] = nx[x] /\ x # ch3[p]
  BY <1>1, <1>3, <1>4, <1>6, <1>7, <1>8
<1> HIDE DEF nx2, pv2
<1>10. ch3 = OutChild(p, x, nx2, ch3)
  BY <1>9 DEF OutChild
<1>11. ch[p] = x => (pv[x] = x <=> nx[x] = Null)
  BY <1>3
<1>12. nx3 = OutNext(p, x, nx2, pv2, ch3)
  BY <1>4, <1>6, <1>9 DEF OutNext, PlaceNext
<1>13. pv3 = OutPrev(p, x, nx2, pv2, ch3)
  <2>1. ASSUME NEW n \in Node, n # x, n # o
        PROVE  pv2[n] = pv[n] /\ (n = ch3[p] <=> ch[p] # x /\ n = ch[p])
    BY <1>7, <1>8, <2>1
  <2>2. pv2[o] = pv[x]
    BY <1>1, <1>4, <1>7
  <2>3. o = ch3[p] <=> ch[p] = x
    BY <1>4, <1>8
  <2> QED
    BY <1>4, <1>9, <1>11, <2>1, <2>2, <2>3 DEF OutPrev, PlacePrev
<1>14. p \in N /\ x \in From(ch3[p], nx2, nx2)
  BY <1>2, <1>5
<1>15. Forest(N, (O \ {o}) \cup {x}, nx3, pv3, ch3)
  BY <1>5, <1>10, <1>12, <1>13, <1>14, ForestDetach
<1> QED
  BY <1>3, <1>15

\* The other trees are not affected.
LEMMA ReplaceKept ==
    ASSUME NEW N, NEW O, NEW nx, NEW pv, NEW ch, Forest(N, O, nx, pv, ch),
           NEW o \in O, NEW p \in N, NEW x \in From(ch[p], nx, nx)
    PROVE  Kept(O \ {o}, nx, PlaceNext(p, x, o, nx, pv, ch))
<1>1. x \notin O /\ (x # ch[p] => pv[x] \notin O) /\ O \subseteq Node
  <2>1. x # ch[p] => pv[x] \in From(ch[p], nx, nx)
    BY ItemOfList
  <2> QED
    BY <2>1, ItemOfList, ForestFacts
<1>2. \A r \in O \ {o} : PlaceNext(p, x, o, nx, pv, ch)[r] = nx[r]
  BY <1>1 DEF PlaceNext
<1> QED
  BY <1>2 DEF Kept

\* Two forests that share no item are one forest.
LEMMA ForestUnion ==
    ASSUME NEW N, NEW O, NEW nx, NEW pv, NEW ch, Forest(N, O, nx, pv, ch),
           NEW M, NEW P, NEW nx1, NEW pv1, NEW ch1, Forest(M, P, nx1, pv1, ch1),
           N \cap M = {},
           NEW nx2, nx2 = [n \in Node |-> IF n \in M THEN nx1[n] ELSE nx[n]],
           NEW pv2, pv2 = [n \in Node |-> IF n \in M THEN pv1[n] ELSE pv[n]],
           NEW ch2, ch2 = [n \in Node |-> IF n \in M THEN ch1[n] ELSE ch[n]]
    PROVE  Forest(N \cup M, O \cup P, nx2, pv2, ch2)
<1>1. /\ N \subseteq Node /\ O \subseteq N /\ Null \notin N
      /\ nx \in [Node -> Link] /\ pv \in [Node -> Link] /\ ch \in [Node -> Link]
      /\ Closed(N, nx, ch)
  BY ForestFacts
<1>2. /\ M \subseteq Node /\ P \subseteq M /\ Null \notin M
      /\ nx1 \in [Node -> Link] /\ pv1 \in [Node -> Link] /\ ch1 \in [Node -> Link]
      /\ Closed(M, nx1, ch1)
  BY ForestFacts
<1>3. ASSUME NEW m \in M
      PROVE  /\ nx2[m] = nx1[m] /\ pv2[m] = pv1[m] /\ ch2[m] = ch1[m]
             /\ nx1[m] \in M \cup {Null} /\ pv1[m] \in M \cup {Null} /\ ch1[m] \in M \cup {Null}
  BY <1>2 DEF Forest, Pointers
<1>4. ASSUME NEW m \in Node, m \notin M
      PROVE  /\ nx2[m] = nx[m] /\ pv2[m] = pv[m] /\ ch2[m] = ch[m]
             /\ nx[m] \in N \cup {Null} /\ pv[m] \in N \cup {Null} /\ ch[m] \in N \cup {Null}
             /\ m \notin N => nx[m] = Null /\ pv[m] = Null /\ ch[m] = Null
  BY <1>4 DEF Forest, Pointers
<1>5. /\ nx2 \in [Node -> (N \cup M) \cup {Null}] /\ pv2 \in [Node -> (N \cup M) \cup {Null}]
      /\ ch2 \in [Node -> (N \cup M) \cup {Null}]
  BY <1>3, <1>4
<1>6. Pointers(N \cup M, nx2, pv2, ch2)
  BY <1>1, <1>2, <1>4, <1>5 DEF Pointers
<1>7. OneWay(nx, ch) /\ OneWay(nx1, ch1)
  BY DEF Forest
<1>8. OneWay(nx2, ch2)
  <2>1. ASSUME NEW m \in Node, NEW k \in Node, nx2[m] = nx2[k], nx2[m] # Null
        PROVE  m = k
    <3>1. m \in M <=> k \in M
      BY <1>3, <1>4, <2>1
    <3> QED
      BY <1>2, <1>3, <1>4, <1>7, <2>1, <3>1 DEF OneWay
  <2>2. ASSUME NEW m \in Node, NEW k \in Node, ch2[m] = ch2[k], ch2[m] # Null
        PROVE  m = k
    <3>1. m \in M <=> k \in M
      BY <1>3, <1>4, <2>2
    <3> QED
      BY <1>2, <1>3, <1>4, <1>7, <2>2, <3>1 DEF OneWay
  <2>3. ASSUME NEW m \in Node, NEW k \in Node, nx2[m] = ch2[k], nx2[m] # Null
        PROVE  FALSE
    <3>1. m \in M <=> k \in M
      BY <1>3, <1>4, <2>3
    <3> QED
      BY <1>2, <1>3, <1>4, <1>7, <2>3, <3>1 DEF OneWay
  <2> QED
    BY <2>1, <2>2, <2>3 DEF OneWay
<1>9. NoWay(O \cup P, nx2, ch2)
  <2>1. NoWay(O, nx, ch) /\ NoWay(P, nx1, ch1)
    BY DEF Forest
  <2>2. ASSUME NEW q \in O \cup P, NEW m \in Node
        PROVE  nx2[m] # q /\ ch2[m] # q
    <3>1. CASE m \in M
      <4>1. q \in O => q \notin M /\ q # Null
        BY <1>1
      <4>2. q \in P => nx1[m] # q /\ ch1[m] # q
        BY <1>2, <2>1, <3>1 DEF NoWay
      <4> QED
        BY <1>3, <2>2, <3>1, <4>1, <4>2
    <3>2. CASE m \notin M
      BY <1>1, <1>2, <1>4, <2>1, <3>2 DEF NoWay
    <3> QED
      BY <3>1, <3>2
  <2> QED
    BY <2>2 DEF NoWay
<1>10. Covered(N \cup M, O \cup P, nx2, ch2)
  <2>1. SUFFICES ASSUME NEW S \in SUBSET Node, O \cup P \subseteq S, Closed(S, nx2, ch2)
                 PROVE  N \cup M \subseteq S
    BY DEF Covered
  <2>2. \A m \in S : nx2[m] \in S \cup {Null} /\ ch2[m] \in S \cup {Null}
    BY <2>1 DEF Closed
  <2>3. Closed(S \ M, nx, ch)
    <3>1. \A m \in S \ M : nx[m] \in (S \ M) \cup {Null} /\ ch[m] \in (S \ M) \cup {Null}
      BY <1>4, <2>2
    <3> QED
      BY <3>1 DEF Closed
  <2>4. Closed(S \cap M, nx1, ch1)
    <3>1. \A m \in S \cap M : nx1[m] \in (S \cap M) \cup {Null} /\ ch1[m] \in (S \cap M) \cup {Null}
      BY <1>3, <2>2
    <3> QED
      BY <3>1 DEF Closed
  <2>5. /\ O \subseteq S \ M /\ P \subseteq S \cap M
        /\ S \ M \in SUBSET Node /\ S \cap M \in SUBSET Node
    BY <1>1, <1>2, <2>1
  <2>6. N \subseteq S \ M
    BY <2>3, <2>5 DEF Forest, Covered
  <2>7. M \subseteq S \cap M
    BY <2>4, <2>5 DEF Forest, Covered
  <2> QED
    BY <2>6, <2>7
<1>11. WaysBack(O, nx, pv, ch) /\ WaysBack(P, nx1, pv1, ch1)
  BY DEF Forest
<1>12. ASSUME NEW m \in Node, nx2[m] # Null
       PROVE  pv2[nx2[m]] = m
  <2>1. CASE m \in M
    BY <1>2, <1>3, <1>11, <1>12, <2>1 DEF WaysBack
  <2>2. CASE m \notin M
    <3>1. nx2[m] = nx[m] /\ nx[m] \in Node \ M
      BY <1>1, <1>4, <1>12, <2>2
    <3> QED
      BY <1>4, <1>11, <1>12, <3>1 DEF WaysBack
  <2> QED
    BY <2>1, <2>2
<1>13. ASSUME NEW p \in Node, ch2[p] # Null
       PROVE  pv2[ch2[p]] \in From(ch2[p], nx2, nx2) /\ nx2[pv2[ch2[p]]] = Null
  <2>1. CASE p \in M
    <3>1. ch2[p] = ch1[p] /\ ch1[p] \in M /\ pv2[ch1[p]] = pv1[ch1[p]]
      BY <1>3, <1>13, <2>1
    <3>2. From(ch1[p], nx1, nx1) \subseteq M
      BY <1>2, <3>1, ListInClosed
    <3>3. From(ch1[p], nx1, nx1) \subseteq From(ch1[p], nx2, nx2)
      <4>1. \A m \in From(ch1[p], nx1, nx1) : nx2[m] = nx1[m]
        BY <1>3, <3>2
      <4>2. ch1[p] \in Link
        BY <1>2, <3>1 DEF Link
      <4> QED
        BY <1>2, <4>1, <4>2, FromKept
    <3>4. pv1[ch1[p]] \in From(ch1[p], nx1, nx1) /\ nx1[pv1[ch1[p]]] = Null
      BY <1>2, <1>11, <1>13, <2>1, <3>1 DEF WaysBack
    <3> QED
      BY <1>3, <3>1, <3>2, <3>3, <3>4
  <2>2. CASE p \notin M
    <3>1. ch2[p] = ch[p] /\ ch[p] \in N /\ pv2[ch[p]] = pv[ch[p]]
      BY <1>1, <1>4, <1>13, <2>2
    <3>2. From(ch[p], nx, nx) \subseteq N
      BY <1>1, <3>1, ListInClosed
    <3>3. \A m \in From(ch[p], nx, nx) : nx2[m] = nx[m]
      BY <1>1, <1>4, <3>2
    <3>4. ch[p] \in Link
      BY <1>1, <3>1 DEF Link
    <3>5. From(ch[p], nx, nx) \subseteq From(ch[p], nx2, nx2)
      BY <1>1, <3>3, <3>4, FromKept
    <3>6. pv[ch[p]] \in From(ch[p], nx, nx) /\ nx[pv[ch[p]]] = Null
      BY <1>1, <1>11, <1>13, <3>1 DEF WaysBack
    <3> QED
      BY <3>1, <3>3, <3>5, <3>6
  <2> QED
    BY <2>1, <2>2
<1>14. \A q \in O \cup P : pv2[q] = Null
  <2>1. ASSUME NEW q \in O
        PROVE  pv2[q] = Null
    BY <1>1, <1>4, <1>11 DEF WaysBack
  <2>2. ASSUME NEW q \in P
        PROVE  pv2[q] = Null
    BY <1>2, <1>3, <1>11 DEF WaysBack
  <2> QED
    BY <2>1, <2>2
<1>15. WaysBack(O \cup P, nx2, pv2, ch2)
  BY <1>12, <1>13, <1>14 DEF WaysBack
<1> QED
  BY <1>1, <1>2, <1>6, <1>8, <1>9, <1>10, <1>15 DEF Forest

\* A set of numbers has a least one.
LEMMA LeastNumber ==
    ASSUME NEW T \in SUBSET Nat, T # {}
    PROVE  \E m \in T : \A k \in T : m <= k
<1> DEFINE R == OpToRel(<, Nat)
<1>1. IsWellFoundedOn(R, Nat)
  BY NatLessThanWellFounded
<1>2. \A i, j \in Nat : i < j => <<i, j>> \in R
  BY DEF OpToRel
<1> HIDE DEF R
<1>3. PICK m \in T : \A k \in T : ~(<<k, m>> \in R)
  BY <1>1, WFMin
<1>4. ASSUME NEW k \in T
      PROVE  m <= k
  <2>1. m \in Nat /\ k \in Nat /\ ~(k < m)
    BY <1>2, <1>3
  <2> QED
    BY <2>1
<1> QED
  BY <1>4

\* cJSON_CreateIntArray: an array, order[0], and its items in their order.
LEMMA ForestRow ==
    ASSUME NEW n \in Nat \ {0}, NEW order \in [0 .. n -> Node],
           \A i, j \in 0 .. n : order[i] = order[j] => i = j,
           NEW F, F = {order[i] : i \in 0 .. n},
           NEW nx \in [Node -> Link], NEW pv \in [Node -> Link], NEW ch \in [Node -> Link],
           \A k \in Node \ F : nx[k] = Null /\ pv[k] = Null /\ ch[k] = Null,
           \A i \in 0 .. n : /\ nx[order[i]] = IF i \in {0, n} THEN Null ELSE order[i + 1]
                             /\ pv[order[i]] = IF i = 0 THEN Null
                                               ELSE IF i = 1 THEN order[n] ELSE order[i - 1]
                             /\ ch[order[i]] = IF i = 0 THEN order[1] ELSE Null
    PROVE  Forest(F, {order[0]}, nx, pv, ch)
<1>1. F \subseteq Node /\ Null \notin F
  BY NodesAreNotNull
<1>2. \A k \in Node : k \in F <=> \E i \in 0 .. n : k = order[i]
  OBVIOUS
<1>3. ASSUME NEW i \in 0 .. n
      PROVE  order[i] \in F /\ nx[order[i]] \in F \cup {Null} /\ pv[order[i]] \in F \cup {Null}
             /\ ch[order[i]] \in F \cup {Null}
  <2>1. i \notin {0, n} => i + 1 \in 0 .. n
    OBVIOUS
  <2>2. i # 0 => i - 1 \in 0 .. n
    OBVIOUS
  <2>3. 0 \in 0 .. n /\ 1 \in 0 .. n /\ n \in 0 .. n
    OBVIOUS
  <2> QED
    BY <2>1, <2>2, <2>3
<1>4. /\ nx \in [Node -> F \cup {Null}] /\ pv \in [Node -> F \cup {Null}]
      /\ ch \in [Node -> F \cup {Null}]
  <2>1. ASSUME NEW k \in Node
        PROVE  nx[k] \in F \cup {Null} /\ pv[k] \in F \cup {Null} /\ ch[k] \in F \cup {Null}
    <3>1. CASE k \in F
      BY <1>2, <1>3, <3>1
    <3>2. CASE k \notin F
      BY <3>2
    <3> QED
      BY <3>1, <3>2
  <2> QED
    BY <2>1
<1>5. Pointers(F, nx, pv, ch)
  BY <1>1, <1>4 DEF Pointers
\* Where a pointer that is not Null comes from.
<1>6. ASSUME NEW k \in Node, nx[k] # Null
      PROVE  \E i \in 1 .. n - 1 : k = order[i] /\ nx[k] = order[i + 1]
  <2>1. PICK i \in 0 .. n : k = order[i]
    BY <1>2, <1>6
  <2>2. i \notin {0, n} /\ nx[k] = order[i + 1]
    BY <1>6, <2>1
  <2>3. i \in 1 .. n - 1
    BY <2>2
  <2> QED
    BY <2>1, <2>2, <2>3
<1>7. ASSUME NEW k \in Node, ch[k] # Null
      PROVE  k = order[0] /\ ch[k] = order[1]
  BY <1>2, <1>7
<1>8. OneWay(nx, ch)
  <2>1. ASSUME NEW m \in Node, NEW k \in Node, nx[m] = nx[k], nx[m] # Null
        PROVE  m = k
    <3>1. PICK i \in 1 .. n - 1 : m = order[i] /\ nx[m] = order[i + 1]
      BY <1>6, <2>1
    <3>2. PICK j \in 1 .. n - 1 : k = order[j] /\ nx[k] = order[j + 1]
      BY <1>6, <2>1
    <3>3. i + 1 \in 0 .. n /\ j + 1 \in 0 .. n
      OBVIOUS
    <3>4. i + 1 = j + 1
      BY <2>1, <3>1, <3>2, <3>3
    <3> QED
      BY <3>1, <3>2, <3>4
  <2>2. ASSUME NEW m \in Node, NEW k \in Node, nx[m] = ch[k], nx[m] # Null
        PROVE  FALSE
    <3>1. PICK i \in 1 .. n - 1 : m = order[i] /\ nx[m] = order[i + 1]
      BY <1>6, <2>2
    <3>2. ch[k] = order[1]
      BY <1>7, <2>2
    <3>3. i + 1 \in 0 .. n /\ 1 \in 0 .. n
      OBVIOUS
    <3>4. i + 1 = 1
      BY <2>2, <3>1, <3>2, <3>3
    <3> QED
      BY <3>4
  <2> QED
    BY <1>7, <2>1, <2>2 DEF OneWay
<1>9. NoWay({order[0]}, nx, ch)
  <2>1. ASSUME NEW m \in Node
        PROVE  nx[m] # order[0] /\ ch[m] # order[0]
    <3>1. order[0] # Null /\ order[0] # order[1]
      BY NodesAreNotNull
    <3>2. nx[m] # order[0]
      <4>1. CASE nx[m] = Null
        BY <3>1, <4>1
      <4>2. CASE nx[m] # Null
        <5>1. PICK i \in 1 .. n - 1 : nx[m] = order[i + 1]
          BY <1>6, <4>2
        <5>2. i + 1 \in 0 .. n /\ i + 1 # 0
          OBVIOUS
        <5> QED
          BY <5>1, <5>2
      <4> QED
        BY <4>1, <4>2
    <3>3. ch[m] # order[0]
      BY <1>7, <3>1
    <3> QED
      BY <3>2, <3>3
  <2> QED
    BY <2>1 DEF NoWay
\* The list goes through all the items.
<1>10. ASSUME NEW S \in SUBSET Node, order[1] \in S, Closed(S, nx, nx), NEW i \in 1 .. n
       PROVE  order[i] \in S
  <2> DEFINE T == {k \in 1 .. n : order[k] \notin S}
  <2>1. SUFFICES ASSUME T # {}
                 PROVE  FALSE
    OBVIOUS
  <2>2. PICK m \in T : \A k \in T : m <= k
    <3>1. T \in SUBSET Nat
      OBVIOUS
    <3> HIDE DEF T
    <3> QED
      BY <2>1, <3>1, LeastNumber
  <2>3. m \in 1 .. n /\ order[m] \notin S
    BY <2>2
  <2>4. m # 1
    BY <1>10, <2>3
  <2>5. m - 1 \in 1 .. n /\ m - 1 \in 0 .. n /\ m - 1 \notin {0, n} /\ (m - 1) + 1 = m
    BY <2>3, <2>4
  <2>6. ~(m <= m - 1)
    BY <2>3
  <2>7. order[m - 1] \in S
    BY <2>2, <2>5, <2>6
  <2>8. nx[order[m - 1]] = order[m]
    BY <2>5
  <2>9. order[m] # Null
    BY <2>3, NodesAreNotNull
  <2> QED
    BY <1>10, <2>3, <2>7, <2>8, <2>9 DEF Closed
<1>11. Covered(F, {order[0]}, nx, ch)
  <2>1. SUFFICES ASSUME NEW S \in SUBSET Node, {order[0]} \subseteq S, Closed(S, nx, ch)
                 PROVE  F \subseteq S
    BY DEF Covered
  <2>2. ch[order[0]] = order[1] /\ order[1] # Null
    BY NodesAreNotNull
  <2>3. order[1] \in S /\ Closed(S, nx, nx)
    BY <2>1, <2>2 DEF Closed
  <2>4. \A i \in 0 .. n : order[i] \in S
    BY <1>10, <2>1, <2>3
  <2> QED
    BY <2>4
<1>12. ASSUME NEW m \in Node, nx[m] # Null
       PROVE  pv[nx[m]] = m
  <2>1. PICK i \in 1 .. n - 1 : m = order[i] /\ nx[m] = order[i + 1]
    BY <1>6, <1>12
  <2>2. i + 1 \in 0 .. n /\ i + 1 # 0 /\ i + 1 # 1 /\ (i + 1) - 1 = i
    OBVIOUS
  <2> QED
    BY <2>1, <2>2
<1>13. ASSUME NEW p \in Node, ch[p] # Null
       PROVE  pv[ch[p]] \in From(ch[p], nx, nx) /\ nx[pv[ch[p]]] = Null
  <2>1. ch[p] = order[1] /\ order[1] \in Node
    BY <1>7, <1>13
  <2>2. pv[order[1]] = order[n] /\ nx[order[n]] = Null /\ order[n] \in Node /\ n \in 1 .. n
    OBVIOUS
  <2>3. \A S \in SUBSET Node : order[1] \in S \cup {Null} /\ Closed(S, nx, nx) => order[n] \in S
    BY <1>10, <2>1, <2>2, NodesAreNotNull
  <2>4. order[n] \in From(order[1], nx, nx)
    BY <2>2, <2>3 DEF From
  <2> QED
    BY <2>1, <2>2, <2>4
<1>14. pv[order[0]] = Null /\ order[0] \in F
  BY <1>3
<1>15. WaysBack({order[0]}, nx, pv, ch)
  BY <1>12, <1>13, <1>14 DEF WaysBack
<1> QED
  BY <1>5, <1>8, <1>9, <1>11, <1>14, <1>15 DEF Forest

\* No item is below itself.
LEMMA NoCycle ==
    ASSUME NEW N, NEW O, NEW nx, NEW pv, NEW ch, Forest(N, O, nx, pv, ch),
           NEW r \in N
    PROVE  r \notin From(ch[r], nx, ch)
<1> DEFINE R == From(ch[r], nx, ch)
<1>1. /\ N \subseteq Node /\ O \subseteq N /\ Null \notin N
      /\ nx \in [Node -> Link] /\ ch \in [Node -> Link] /\ Closed(N, nx, ch) /\ OneWayIn(nx, ch)
      /\ ch[r] \in Link
  BY ForestFacts
<1>2. R \subseteq Node
  BY <1>1, FromClosed
<1>3. SUFFICES ASSUME r \in R
               PROVE  FALSE
  OBVIOUS
\* What leads into R is in R.
<1>4. ASSUME NEW m \in Node, NEW l \in {nx[m], ch[m]}, l \in R
      PROVE  m \in R
  <2>1. l # Null
    BY <1>2, <1>4, NodesAreNotNull
  <2>2. CASE l = ch[r]
    BY <1>1, <1>3, <1>4, <2>1, <2>2 DEF OneWayIn
  <2>3. CASE l # ch[r]
    <3>1. PICK k \in R : nx[k] = l \/ ch[k] = l
      BY <1>1, <1>4, <2>3, FromEntered
    <3>2. k = m
      BY <1>1, <1>2, <1>4, <2>1, <3>1 DEF OneWayIn
    <3> QED
      BY <3>1, <3>2
  <2> QED
    BY <2>2, <2>3
<1>5. ASSUME NEW o \in O
      PROVE  o \notin R
  <2>1. SUFFICES ASSUME o \in R
                 PROVE  FALSE
    OBVIOUS
  <2>2. \A m \in Node : nx[m] # o /\ ch[m] # o
    BY DEF Forest, NoWay
  <2>3. o # ch[r]
    BY <1>1, <2>2
  <2> QED
    BY <1>1, <1>2, <2>1, <2>2, <2>3, FromEntered
<1>6. Closed(N \ R, nx, ch)
  BY <1>1, <1>4 DEF Closed
<1>7. N \ R \in SUBSET Node /\ O \subseteq N \ R
  BY <1>1, <1>5
<1>8. N \subseteq N \ R
  BY <1>6, <1>7 DEF Forest, Covered
<1> QED
  BY <1>3, <1>8

\* A function of the items.
OnNodes(f) == f = [n \in Node |-> f[n]]
\* A pointer to an item, in the copy.
Image(l, copy) == IF l = Null THEN Null ELSE copy[l]

\* cJSON_Duplicate_rec: the copy of the tree of r, with a copy of every pointer of
\* it, is a tree (cJSON.c:2551-2586).
LEMMA ForestCopy ==
    ASSUME NEW N, NEW O, NEW nx, NEW pv, NEW ch, Forest(N, O, nx, pv, ch),
           NEW r \in N, NEW B, B = {r} \cup From(ch[r], nx, ch),
           NEW copy \in [B -> Node], \A m, k \in B : copy[m] = copy[k] => m = k,
           NEW C, C = {copy[m] : m \in B},
           NEW nx2, OnNodes(nx2), NEW pv2, OnNodes(pv2), NEW ch2, OnNodes(ch2),
           \A k \in Node \ C : nx2[k] = Null /\ pv2[k] = Null /\ ch2[k] = Null,
           \A m \in B : /\ nx2[copy[m]] = IF m = r THEN Null ELSE Image(nx[m], copy)
                        /\ pv2[copy[m]] = IF m = r THEN Null ELSE Image(pv[m], copy)
                        /\ ch2[copy[m]] = Image(ch[m], copy)
    PROVE  Forest(C, {copy[r]}, nx2, pv2, ch2)
<1> DEFINE R == From(ch[r], nx, ch)
<1>1. /\ N \subseteq Node /\ O \subseteq N /\ Null \notin N
      /\ nx \in [Node -> Link] /\ pv \in [Node -> Link] /\ ch \in [Node -> Link]
      /\ Closed(N, nx, ch) /\ OneWayIn(nx, ch) /\ ch[r] \in Link
  BY ForestFacts
<1>2. /\ R \in SUBSET Node /\ Closed(R, nx, ch) /\ (ch[r] # Null => ch[r] \in R)
      /\ r \notin R /\ B = {r} \cup R /\ Null \notin R
  BY <1>1, FromClosed, NoCycle, NodesAreNotNull
<1>3. OneWay(nx, ch) /\ NoWay(O, nx, ch) /\ Pointers(N, nx, pv, ch) /\ WaysBack(O, nx, pv, ch)
  BY DEF Forest
<1>4. ch[r] \in N \cup {Null} /\ R \subseteq N /\ B \subseteq N
  <2>1. ch[r] \in N \cup {Null}
    BY <1>3, <1>1 DEF Pointers
  <2>2. R \subseteq N
    BY <1>1, <2>1, FromLeast
  <2> QED
    BY <1>2, <2>1, <2>2
<1>5. ASSUME NEW m \in R
      PROVE  nx[m] \in R \cup {Null} /\ ch[m] \in R \cup {Null} /\ pv[m] \in R \cup {Null}
  <2>1. nx[m] \in R \cup {Null} /\ ch[m] \in R \cup {Null}
    BY <1>2 DEF Closed
  <2>2. CASE m = ch[r]
    <3>1. pv[m] \in From(ch[r], nx, nx)
      BY <1>1, <1>2, <1>3, <2>2 DEF WaysBack
    <3>2. From(ch[r], nx, nx) \subseteq R
      BY <1>2, <2>2, ListInClosed
    <3> QED
      BY <2>1, <3>1, <3>2
  <2>3. CASE m # ch[r]
    <3>1. PICK k \in R : nx[k] = m \/ ch[k] = m
      BY <1>1, <2>3, FromEntered
    <3>2. CASE nx[k] = m
      <4>1. m # Null /\ k \in Node
        BY <1>2
      <4> QED
        BY <1>3, <2>1, <3>2, <4>1 DEF WaysBack
    <3>3. CASE ch[k] = m
      <4>1. m # Null /\ k \in Node /\ m \in R
        BY <1>2
      <4>2. pv[m] \in From(m, nx, nx)
        BY <1>3, <3>3, <4>1 DEF WaysBack
      <4>3. From(m, nx, nx) \subseteq R
        BY <1>2, <4>1, ListInClosed
      <4> QED
        BY <2>1, <4>2, <4>3
    <3> QED
      BY <3>1, <3>2, <3>3
  <2> QED
    BY <2>2, <2>3
<1>6. ch[r] \in R \cup {Null}
  BY <1>2
<1> HIDE DEF R
<1>7. C \subseteq Node /\ Null \notin C /\ r \in B
  BY <1>2, NodesAreNotNull
<1>8. \A k \in Node : k \in C <=> \E m \in B : k = copy[m]
  OBVIOUS
\* The pointers of a copied item.
<1>9. /\ nx2[copy[r]] = Null /\ pv2[copy[r]] = Null
      /\ ch2[copy[r]] = IF ch[r] = Null THEN Null ELSE copy[ch[r]]
  BY <1>7 DEF Image
<1>10. ASSUME NEW m \in R
       PROVE  /\ nx2[copy[m]] = IF nx[m] = Null THEN Null ELSE copy[nx[m]]
              /\ pv2[copy[m]] = IF pv[m] = Null THEN Null ELSE copy[pv[m]]
              /\ ch2[copy[m]] = IF ch[m] = Null THEN Null ELSE copy[ch[m]]
  <2>1. m \in B /\ m # r
    BY <1>2
  <2> QED
    BY <2>1 DEF Image
<1>11. \A m \in B : copy[m] \in C /\ copy[m] \in Node /\ copy[m] # Null
  BY <1>7
<1>12. ASSUME NEW m \in B
       PROVE  nx2[copy[m]] \in C \cup {Null} /\ pv2[copy[m]] \in C \cup {Null}
              /\ ch2[copy[m]] \in C \cup {Null}
  <2>1. CASE m = r
    BY <1>2, <1>6, <1>9, <1>11, <2>1
  <2>2. CASE m \in R
    BY <1>2, <1>5, <1>10, <1>11, <2>2
  <2> QED
    BY <1>2, <2>1, <2>2
<1>13. Pointers(C, nx2, pv2, ch2)
  <2>1. ASSUME NEW k \in Node
        PROVE  nx2[k] \in C \cup {Null} /\ pv2[k] \in C \cup {Null} /\ ch2[k] \in C \cup {Null}
    <3>1. CASE k \in C
      BY <1>8, <1>12, <3>1
    <3>2. CASE k \notin C
      BY <3>2
    <3> QED
      BY <3>1, <3>2
  <2>2. nx2 \in [Node -> C \cup {Null}] /\ pv2 \in [Node -> C \cup {Null}]
        /\ ch2 \in [Node -> C \cup {Null}]
    BY <2>1 DEF OnNodes
  <2> QED
    BY <1>7, <2>2 DEF Pointers
\* A pointer that is not Null is the copy of one.
<1>14. ASSUME NEW k \in Node, nx2[k] # Null
       PROVE  \E m \in R : k = copy[m] /\ nx[m] \in R /\ nx2[k] = copy[nx[m]]
  <2>1. PICK m \in B : k = copy[m]
    BY <1>8, <1>14
  <2>2. m \in R
    BY <1>2, <1>9, <1>14, <2>1
  <2> QED
    BY <1>5, <1>10, <1>14, <2>1, <2>2
<1>15. ASSUME NEW k \in Node, ch2[k] # Null
       PROVE  \E m \in B : k = copy[m] /\ ch[m] \in R /\ ch2[k] = copy[ch[m]]
  <2>1. PICK m \in B : k = copy[m]
    BY <1>8, <1>15
  <2>2. CASE m = r
    BY <1>6, <1>9, <1>15, <2>1, <2>2
  <2>3. CASE m \in R
    BY <1>5, <1>10, <1>15, <2>1, <2>3
  <2> QED
    BY <1>2, <2>1, <2>2, <2>3
<1>16. OneWay(nx2, ch2)
  <2>1. ASSUME NEW k \in Node, NEW l \in Node, nx2[k] = nx2[l], nx2[k] # Null
        PROVE  k = l
    <3>1. PICK m \in R : k = copy[m] /\ nx[m] \in R /\ nx2[k] = copy[nx[m]]
      BY <1>14, <2>1
    <3>2. PICK j \in R : l = copy[j] /\ nx[j] \in R /\ nx2[l] = copy[nx[j]]
      BY <1>14, <2>1
    <3>3. nx[m] = nx[j] /\ nx[m] # Null /\ m \in Node /\ j \in Node
      BY <1>2, <2>1, <3>1, <3>2
    <3> QED
      BY <1>3, <3>1, <3>2, <3>3 DEF OneWay
  <2>2. ASSUME NEW k \in Node, NEW l \in Node, ch2[k] = ch2[l], ch2[k] # Null
        PROVE  k = l
    <3>1. PICK m \in B : k = copy[m] /\ ch[m] \in R /\ ch2[k] = copy[ch[m]]
      BY <1>15, <2>2
    <3>2. PICK j \in B : l = copy[j] /\ ch[j] \in R /\ ch2[l] = copy[ch[j]]
      BY <1>15, <2>2
    <3>3. ch[m] = ch[j] /\ ch[m] # Null /\ m \in Node /\ j \in Node
      BY <1>1, <1>2, <1>4, <2>2, <3>1, <3>2
    <3> QED
      BY <1>3, <3>1, <3>2, <3>3 DEF OneWay
  <2>3. ASSUME NEW k \in Node, NEW l \in Node, nx2[k] = ch2[l], nx2[k] # Null
        PROVE  FALSE
    <3>1. PICK m \in R : k = copy[m] /\ nx[m] \in R /\ nx2[k] = copy[nx[m]]
      BY <1>14, <2>3
    <3>2. PICK j \in B : l = copy[j] /\ ch[j] \in R /\ ch2[l] = copy[ch[j]]
      BY <1>15, <2>3
    <3>3. nx[m] = ch[j] /\ nx[m] # Null /\ m \in Node /\ j \in Node
      BY <1>1, <1>2, <1>4, <2>3, <3>1, <3>2
    <3> QED
      BY <1>3, <3>3 DEF OneWay
  <2> QED
    BY <2>1, <2>2, <2>3 DEF OneWay
<1>17. NoWay({copy[r]}, nx2, ch2)
  <2>1. ASSUME NEW k \in Node
        PROVE  nx2[k] # copy[r] /\ ch2[k] # copy[r]
    <3>1. copy[r] # Null /\ \A m \in R : copy[m] # copy[r]
      BY <1>2, <1>11
    <3>2. nx2[k] # copy[r]
      BY <1>14, <3>1
    <3>3. ch2[k] # copy[r]
      BY <1>15, <3>1
    <3> QED
      BY <3>2, <3>3
  <2> QED
    BY <2>1 DEF NoWay
<1>18. Covered(C, {copy[r]}, nx2, ch2)
  <2>1. SUFFICES ASSUME NEW S \in SUBSET Node, {copy[r]} \subseteq S, Closed(S, nx2, ch2)
                 PROVE  C \subseteq S
    BY DEF Covered
  <2> DEFINE T == {m \in R : copy[m] \in S}
  <2>2. \A k \in S : nx2[k] \in S \cup {Null} /\ ch2[k] \in S \cup {Null}
    BY <2>1 DEF Closed
  <2>3. ch[r] \in T \cup {Null}
    BY <1>2, <1>6, <1>9, <1>11, <2>1, <2>2
  <2>4. Closed(T, nx, ch)
    <3>1. ASSUME NEW m \in T
          PROVE  nx[m] \in T \cup {Null} /\ ch[m] \in T \cup {Null}
      BY <1>2, <1>5, <1>10, <1>11, <2>2
    <3> QED
      BY <3>1 DEF Closed
  <2>5. T \in SUBSET Node
    BY <1>2
  <2>6. R \subseteq T
    BY <2>3, <2>4, <2>5, FromLeast DEF R
  <2> QED
    BY <1>2, <2>1, <2>6
<1>19. ASSUME NEW k \in Node, nx2[k] # Null
       PROVE  pv2[nx2[k]] = k
  <2>1. PICK m \in R : k = copy[m] /\ nx[m] \in R /\ nx2[k] = copy[nx[m]]
    BY <1>14, <1>19
  <2>2. pv[nx[m]] = m /\ m # Null
    BY <1>2, <1>3, <2>1 DEF WaysBack
  <2> QED
    BY <1>10, <2>1, <2>2
<1>20. ASSUME NEW k \in Node, ch2[k] # Null
       PROVE  pv2[ch2[k]] \in From(ch2[k], nx2, nx2) /\ nx2[pv2[ch2[k]]] = Null
  <2>1. PICK m \in B : k = copy[m] /\ ch[m] \in R /\ ch2[k] = copy[ch[m]]
    BY <1>15, <1>20
  <2> DEFINE h == ch[m]  last == pv[h]
  <2>2. m \in Node /\ h # Null
    BY <1>1, <1>2, <1>4, <2>1
  <2>3. last \in From(h, nx, nx) /\ nx[last] = Null
    BY <1>3, <2>2 DEF WaysBack
  <2>4. From(h, nx, nx) \subseteq R
    BY <1>2, <2>1, ListInClosed
  <2>5. last \in R /\ last # Null
    BY <1>2, <2>3, <2>4
  <2>6. pv2[copy[h]] = copy[last] /\ nx2[copy[last]] = Null
    BY <1>10, <2>1, <2>3, <2>5
  <2>7. ASSUME NEW S \in SUBSET Node, copy[h] \in S \cup {Null}, Closed(S, nx2, nx2)
        PROVE  copy[last] \in S
    <3> DEFINE T == {j \in R : copy[j] \in S}
    <3>1. h \in T /\ T \in SUBSET Node
      BY <1>2, <1>11, <2>1, <2>7
    <3>2. \A j \in S : nx2[j] \in S \cup {Null}
      BY <2>7 DEF Closed
    <3>3. Closed(T, nx, nx)
      <4>1. ASSUME NEW j \in T
            PROVE  nx[j] \in T \cup {Null}
        BY <1>2, <1>5, <1>10, <1>11, <3>2
      <4> QED
        BY <4>1 DEF Closed
    <3>4. From(h, nx, nx) \subseteq T
      BY <3>1, <3>3, FromLeast
    <3> QED
      BY <2>3, <3>4
  <2>8. copy[last] \in Node
    BY <1>2, <1>11, <2>5
  <2>9. copy[last] \in From(copy[h], nx2, nx2)
    BY <2>7, <2>8 DEF From
  <2> QED
    BY <2>1, <2>6, <2>9
<1>21. WaysBack({copy[r]}, nx2, pv2, ch2)
  BY <1>9, <1>19, <1>20 DEF WaysBack
<1>22. {copy[r]} \subseteq C
  BY <1>7, <1>11
<1> QED
  BY <1>13, <1>16, <1>17, <1>18, <1>21, <1>22 DEF Forest

-----------------------------------------------------------------------------
\* The tree of an item is part of the walk that begins at it, and all of it when
\* the item has no successor.
LEMMA BelowInReach ==
    ASSUME NEW N, NEW O, Forest(N, O, next, prev, child), NEW q \in N
    PROVE  /\ Below(q) \subseteq From(q, next, child)
           /\ next[q] = Null => Below(q) = From(q, next, child)
           /\ Below(q) \subseteq N /\ Reach(q) \subseteq N
<1>1. /\ N \subseteq Node /\ Null \notin N /\ next \in [Node -> Link] /\ child \in [Node -> Link]
      /\ Closed(N, next, child) /\ Node \subseteq Link
  BY ForestFacts DEF Link
<1> DEFINE F == From(q, next, child)  C == From(child[q], next, child)
<1>2. F \subseteq Node /\ Closed(F, next, child) /\ q \in F
  BY <1>1, FromClosed
<1>3. child[q] \in F \cup {Null} /\ child[q] \in Link
  BY <1>1, <1>2 DEF Closed
<1>4. C \subseteq F
  BY <1>2, <1>3, FromLeast
<1>5. C \subseteq Node /\ Closed(C, next, child) /\ (child[q] # Null => child[q] \in C)
  BY <1>1, <1>3, FromClosed
<1>6. ASSUME next[q] = Null
      PROVE  F \subseteq {q} \cup C
  <2>1. Closed({q} \cup C, next, child)
    BY <1>5, <1>6 DEF Closed
  <2>2. {q} \cup C \in SUBSET Node
    BY <1>1, <1>5
  <2> QED
    BY <2>1, <2>2, FromLeast
<1>7. F \subseteq N
  BY <1>1, FromLeast
<1> QED
  BY <1>2, <1>4, <1>6, <1>7 DEF Below, Reach

\* Every item of a tree that the client holds is an item, and in the walk from
\* one of its roots; an item that is not below another root is in another tree.
LEMMA HeldItems ==
    ASSUME Forest(nodes, roots, next, prev, child), NEW p \in Held
    PROVE  /\ p \in nodes
           /\ \A item : p \notin Below(item) => \E q \in roots \ {item} : p \in From(q, next, child)
<1>1. roots \subseteq nodes
  BY ForestFacts
<1>2. PICK q \in roots : p \in Below(q)
  BY DEF Held
<1>3. p \in nodes /\ p \in From(q, next, child)
  BY <1>1, <1>2, BelowInReach
<1> QED
  BY <1>2, <1>3

\* Between two operations: the forest of what the client holds.
LEMMA QuietForest ==
    ASSUME JsonInv, Quiet
    PROVE  Forest(nodes, roots, next, prev, child) /\ \A r \in roots : next[r] = Null
<1>1. Len(parse) = 0
  BY DEF Quiet
<1>2. Tops = roots /\ Trees = roots
  BY <1>1 DEF Tops, Trees
<1> QED
  BY <1>2 DEF JsonInv

\* When an operation has left a forest of what the client holds, the invariant
\* holds again.
LEMMA QuietAgain ==
    ASSUME Forest(nodes', roots', next', prev', child'), \A r \in roots' : next'[r] = Null,
           parse' = <<>>
    PROVE  JsonInv'
<1>1. Len(parse') = 0 /\ parse' \in Seq(ParseCall)
  OBVIOUS
<1>2. Tops' = roots' /\ Trees' = roots'
  BY <1>1 DEF Tops, Trees
<1>3. JsonTypeOK'
  <2>1. /\ nodes' \subseteq Node /\ roots' \subseteq nodes'
        /\ next' \in [Node -> Link] /\ prev' \in [Node -> Link] /\ child' \in [Node -> Link]
    BY ForestFacts
  <2> QED
    BY <1>1, <2>1, JsonAssumption DEF JsonTypeOK
<1>4. Calls'
  BY <1>1 DEF Calls, parsing
<1> QED
  BY <1>2, <1>3, <1>4 DEF JsonInv

-----------------------------------------------------------------------------
\* add_item_to_array, for a tree o that is not the one of p.
LEMMA Attached ==
    ASSUME NEW N, NEW O, Forest(N, O, next, prev, child),
           NEW o \in O, next[o] = Null, NEW q \in O \ {o}, NEW p \in From(q, next, child),
           Attach(p, o)
    PROVE  Forest(N, O \ {o}, next', prev', child') /\ Kept(O \ {o}, next, next')
<1>1. o \in Node /\ next \in [Node -> Link] /\ o \in Link
  BY ForestFacts DEF Link
<1>2. CASE child[p] = Null
  <2>1. o \in From(o, next, next)
    BY <1>1, FromClosed, NodesAreNotNull
  <2>2. next' = next
    BY <1>1, <1>2 DEF Attach
  <2>3. prev' = [prev EXCEPT ![o] = o] /\ child' = [child EXCEPT ![p] = o]
    BY <1>2 DEF Attach
  <2>4. Forest(N, O \ {o}, next, prev', child')
    BY <1>2, <2>1, <2>3, ForestHang
  <2> QED
    BY <2>2, <2>4 DEF Kept
<1>3. CASE child[p] # Null
  <2>1. /\ next' = [next EXCEPT ![prev[child[p]]] = o] /\ child' = child
        /\ prev' = [prev EXCEPT ![o] = prev[child[p]], ![child[p]] = o]
    BY <1>3 DEF Attach, LinkLast
  <2>2. Forest(N, O \ {o}, next', prev', child) /\ Kept(O \ {o}, next, next')
    BY <1>3, <2>1, ForestLast
  <2> QED
    BY <2>1, <2>2
<1> QED
  BY <1>2, <1>3

\* cJSON_CreateNull and the like keep the invariant (cJSON.c:2223-2296).
LEMMA AfterCreate ==
    ASSUME JsonInv, Create
    PROVE  JsonInv'
<1>1. Forest(nodes, roots, next, prev, child) /\ \A r \in roots : next[r] = Null
  BY QuietForest DEF Create
<1>2. PICK n \in Node \ nodes : nodes' = nodes \cup {n} /\ roots' = roots \cup {n}
  BY DEF Create
<1>3. Forest(nodes', roots', next, prev, child)
  BY <1>1, <1>2, ForestNew
<1>4. next[n] = Null
  BY <1>1, <1>2 DEF Forest, Pointers
<1> QED
  BY <1>1, <1>2, <1>3, <1>4, QuietAgain DEF Create, Quiet

\* So do cJSON_AddItemToArray and cJSON_AddItemToObject (cJSON.c:1849-1914).
LEMMA AfterAddItem ==
    ASSUME JsonInv, NEW parent \in nodes, NEW item \in nodes, AddItem(parent, item)
    PROVE  JsonInv'
<1>1. Forest(nodes, roots, next, prev, child) /\ \A r \in roots : next[r] = Null
  BY QuietForest DEF AddItem, Added
<1>2. item \in roots /\ parent \in Held /\ parent \notin Below(item) /\ Attach(parent, item)
  BY DEF AddItem, Added
<1>3. PICK q \in roots \ {item} : parent \in From(q, next, child)
  BY <1>1, <1>2, HeldItems
<1>4. /\ Forest(nodes, roots \ {item}, next', prev', child')
      /\ Kept(roots \ {item}, next, next')
  BY <1>1, <1>2, <1>3, Attached
<1> QED
  BY <1>1, <1>4, QuietAgain DEF AddItem, Added, Quiet, Kept

\* So do cJSON_AddNullToObject and the like (cJSON.c:1936-2037).
LEMMA AfterAddNew ==
    ASSUME JsonInv, NEW parent \in nodes, AddNew(parent)
    PROVE  JsonInv'
<1>1. Forest(nodes, roots, next, prev, child) /\ \A r \in roots : next[r] = Null
  BY QuietForest DEF AddNew
<1>2. PICK n \in Node \ nodes : nodes' = nodes \cup {n} /\ Attach(parent, n)
  BY DEF AddNew
<1>3. Forest(nodes', roots \cup {n}, next, prev, child)
  BY <1>1, <1>2, ForestNew
<1>4. next[n] = Null /\ roots \subseteq nodes
  BY <1>1, <1>2 DEF Forest, Pointers
<1>5. PICK q \in roots : parent \in From(q, next, child)
  <2>1. PICK q \in roots : parent \in Below(q)
    BY DEF AddNew, Held
  <2>2. parent \in From(q, next, child)
    BY <1>1, <1>4, <2>1, BelowInReach
  <2> QED
    BY <2>1, <2>2
<1>6. q \in (roots \cup {n}) \ {n} /\ (roots \cup {n}) \ {n} = roots
  BY <1>2, <1>4
<1>7. Forest(nodes', roots, next', prev', child') /\ Kept(roots, next, next')
  <2> DEFINE O == roots \cup {n}
  <2>1. /\ Forest(nodes', O, next, prev, child) /\ n \in O /\ q \in O \ {n}
        /\ O \ {n} = roots
    BY <1>3, <1>6
  <2> HIDE DEF O
  <2>2. Forest(nodes', O \ {n}, next', prev', child') /\ Kept(O \ {n}, next, next')
    BY <1>2, <1>4, <1>5, <2>1, Attached
  <2> QED
    BY <2>1, <2>2
<1> QED
  BY <1>1, <1>7, QuietAgain DEF AddNew, Quiet, Kept

\* So does cJSON_Delete of a root (cJSON.c:248-267).
LEMMA AfterDelete ==
    ASSUME JsonInv, NEW root \in nodes, Delete(root)
    PROVE  JsonInv'
<1>1. Forest(nodes, roots, next, prev, child) /\ \A r \in roots : next[r] = Null
  BY QuietForest DEF Delete
<1> DEFINE G == From(root, next, child)
<1>2. /\ root \in roots /\ roots' = roots \ {root} /\ nodes' = nodes \ G
      /\ next' = Freed(next, G) /\ prev' = Freed(prev, G) /\ child' = Freed(child, G)
  BY DEF Delete, Free, Deleted
<1>3. Forest(nodes \ G, roots \ {root}, Freed(next, G), Freed(prev, G), Freed(child, G))
  BY <1>1, <1>2, ForestFree
<1>4. Kept(roots \ {root}, next, Freed(next, G))
  BY <1>1, <1>2, ForestFree
<1> QED
  BY <1>1, <1>2, <1>3, <1>4, QuietAgain DEF Delete, Quiet, Kept

\* So does cJSON_DetachItemViaPointer (cJSON.c:2039-2095).
LEMMA AfterDetachItem ==
    ASSUME JsonInv, NEW parent \in nodes, NEW item \in nodes, DetachItem(parent, item)
    PROVE  JsonInv'
<1>1. Forest(nodes, roots, next, prev, child) /\ \A r \in roots : next[r] = Null
  BY QuietForest DEF DetachItem
<1>2. /\ item \in From(child[parent], next, next)
      /\ next' = OutNext(parent, item, next, prev, child)
      /\ prev' = OutPrev(parent, item, next, prev, child)
      /\ child' = OutChild(parent, item, next, child)
  BY DEF DetachItem, Children, List, DetachedNext, DetachedPrev, DetachedChild,
         OutNext, OutPrev, OutChild
<1>3. /\ Forest(nodes, roots \cup {item}, next', prev', child')
      /\ next'[item] = Null /\ Kept(roots, next, next')
  BY <1>1, <1>2, ForestDetach
<1> QED
  BY <1>1, <1>3, QuietAgain DEF DetachItem, Quiet, Kept

\* An item that has been put in a place of its own is deleted.
LEMMA FreedAgain ==
    ASSUME NEW O, NEW x, x \notin O, NEW nxt, NEW prv, NEW chd,
           Forest(nodes, O \cup {x}, nxt, prv, chd), \A r \in O : nxt[r] = Null,
           Free(Deleted(x, nxt, chd), nxt, prv, chd), roots' = O, parse' = <<>>
    PROVE  JsonInv'
<1> DEFINE G == From(x, nxt, chd)
<1>1. /\ nodes' = nodes \ G /\ next' = Freed(nxt, G) /\ prev' = Freed(prv, G)
      /\ child' = Freed(chd, G)
  BY DEF Free, Deleted
<1>2. x \in O \cup {x} /\ (O \cup {x}) \ {x} = O
  OBVIOUS
<1>3. /\ Forest(nodes \ G, (O \cup {x}) \ {x}, Freed(nxt, G), Freed(prv, G), Freed(chd, G))
      /\ Kept((O \cup {x}) \ {x}, nxt, Freed(nxt, G))
  BY <1>1, <1>2, ForestFree
<1> QED
  BY <1>1, <1>2, <1>3, QuietAgain DEF Kept

\* So does cJSON_DeleteItemFromArray (cJSON.c:2078-2105).
LEMMA AfterDeleteItem ==
    ASSUME JsonInv, NEW parent \in nodes, NEW item \in nodes, DeleteItem(parent, item)
    PROVE  JsonInv'
<1>1. Forest(nodes, roots, next, prev, child) /\ \A r \in roots : next[r] = Null
  BY QuietForest DEF DeleteItem
<1> DEFINE nxt == DetachedNext(parent, item)
           prv == DetachedPrev(parent, item)
           chd == DetachedChild(parent, item)
<1>2. /\ item \in From(child[parent], next, next)
      /\ nxt = OutNext(parent, item, next, prev, child)
      /\ prv = OutPrev(parent, item, next, prev, child)
      /\ chd = OutChild(parent, item, next, child)
  BY DEF DeleteItem, Children, List, DetachedNext, DetachedPrev, DetachedChild,
         OutNext, OutPrev, OutChild
<1>3. Free(Deleted(item, nxt, chd), nxt, prv, chd) /\ roots' = roots /\ parse' = <<>>
  BY DEF DeleteItem, Quiet
<1> HIDE DEF nxt, prv, chd
<1>4. /\ Forest(nodes, roots \cup {item}, nxt, prv, chd) /\ item \notin roots
      /\ Kept(roots, next, nxt)
  BY <1>1, <1>2, ForestDetach
<1>5. \A r \in roots : nxt[r] = Null
  BY <1>1, <1>4 DEF Kept
<1> QED
  BY <1>3, <1>4, <1>5, FreedAgain

\* So does cJSON_InsertItemInArray (cJSON.c:2108-2135).
LEMMA AfterInsertItem ==
    ASSUME JsonInv, NEW parent \in nodes, NEW before \in nodes, NEW item \in nodes,
           InsertItem(parent, before, item)
    PROVE  JsonInv'
<1>1. Forest(nodes, roots, next, prev, child) /\ \A r \in roots : next[r] = Null
  BY QuietForest DEF InsertItem, Added
<1>2. item \in roots /\ parent \in Held /\ parent \notin Below(item)
  BY DEF InsertItem, Added
<1>3. PICK q \in roots \ {item} : parent \in From(q, next, child)
  BY <1>1, <1>2, HeldItems
<1>4. /\ before \in From(child[parent], next, next)
      /\ next' = InNext(parent, before, item, next, prev, child)
      /\ prev' = InPrev(before, item, prev)
      /\ child' = InChild(parent, before, item, child)
  BY DEF InsertItem, Children, List, InNext, InPrev, InChild
<1>5. /\ Forest(nodes, roots \ {item}, next', prev', child')
      /\ Kept(roots \ {item}, next, next')
  BY <1>1, <1>2, <1>3, <1>4, ForestInsert
<1> QED
  BY <1>1, <1>5, QuietAgain DEF InsertItem, Added, Quiet, Kept

\* So does cJSON_ReplaceItemViaPointer (cJSON.c:2137-2220).
LEMMA AfterReplaceItem ==
    ASSUME JsonInv, NEW parent \in nodes, NEW old \in nodes, NEW item \in nodes,
           ReplaceItem(parent, old, item)
    PROVE  JsonInv'
<1>1. Forest(nodes, roots, next, prev, child) /\ \A r \in roots : next[r] = Null
  BY QuietForest DEF ReplaceItem, Added
<1>2. item \in roots /\ parent \in Held /\ parent \notin Below(item)
      /\ old \in From(child[parent], next, next)
  BY DEF ReplaceItem, Added, Children, List
<1>3. PICK q \in roots \ {item} : parent \in From(q, next, child)
  BY <1>1, <1>2, HeldItems
<1> DEFINE nxt == PlaceNext(parent, old, item, next, prev, child)
           prv == PlacePrev(parent, old, item, next, prev, child)
           chd == InChild(parent, old, item, child)
<1>4. Free(Deleted(old, nxt, chd), nxt, prv, chd) /\ roots' = roots \ {item} /\ parse' = <<>>
  BY DEF ReplaceItem, Added, Quiet, PlaceNext, PlacePrev, InChild
<1> HIDE DEF nxt, prv, chd
<1>5. /\ Forest(nodes, (roots \ {item}) \cup {old}, nxt, prv, chd)
      /\ Kept(roots \ {item}, next, nxt)
  <2>1. Forest(nodes, (roots \ {item}) \cup {old}, nxt, prv, chd)
    BY <1>1, <1>2, <1>3, ForestReplace DEF nxt, prv, chd
  <2>2. Kept(roots \ {item}, next, nxt)
    BY <1>1, <1>2, HeldItems, ReplaceKept DEF nxt
  <2> QED
    BY <2>1, <2>2
<1>6. old \notin roots
  <2>1. parent \in nodes
    BY <1>1, <1>2, HeldItems
  <2> QED
    BY <1>1, <1>2, <2>1, ItemOfList
<1>7. old \notin roots \ {item} /\ \A r \in roots \ {item} : nxt[r] = Null
  BY <1>1, <1>5, <1>6 DEF Kept
<1> QED
  BY <1>4, <1>5, <1>7, FreedAgain

\* So do cJSON_CreateIntArray and the like (cJSON.c:2367-2501).
LEMMA AfterCreateFilledArray ==
    ASSUME JsonInv, CreateFilledArray
    PROVE  JsonInv'
<1>1. Forest(nodes, roots, next, prev, child) /\ \A r \in roots : next[r] = Null
  BY QuietForest DEF CreateFilledArray
<1>2. /\ nodes \subseteq Node /\ roots \subseteq nodes
      /\ next \in [Node -> Link] /\ prev \in [Node -> Link] /\ child \in [Node -> Link]
      /\ Null \notin Node /\ Node \subseteq Nat
  BY <1>1, ForestFacts, NodesAreNotNull
<1>3. \A k \in Node \ nodes : next[k] = Null /\ prev[k] = Null /\ child[k] = Null
  BY <1>1 DEF Forest, Pointers
<1>4. SUFFICES ASSUME NEW n \in 1 .. MaxNodes - 1, NEW order \in [0 .. n -> Node \ nodes],
        LET fresh == {order[i] : i \in 0 .. n}
            at(k) == CHOOSE i \in 0 .. n : order[i] = k
        IN
        /\ \A i, j \in 0 .. n : i < j => order[i] < order[j]
        /\ nodes' = nodes \cup fresh /\ roots' = roots \cup {order[0]}
        /\ next' = [k \in Node |-> IF k \in fresh /\ at(k) \in 1 .. n - 1
                                   THEN order[at(k) + 1] ELSE next[k]]
        /\ prev' = [k \in Node |-> IF k \in fresh /\ at(k) >= 1
                                   THEN order[IF at(k) = 1 THEN n ELSE at(k) - 1] ELSE prev[k]]
        /\ child' = [child EXCEPT ![order[0]] = order[1]]
      PROVE  JsonInv'
  BY DEF CreateFilledArray
<1>5. n \in Nat \ {0} /\ order \in [0 .. n -> Node] /\ \A i \in 0 .. n : order[i] \in Node \ nodes
  BY <1>4, JsonAssumption
<1> DEFINE F == {order[i] : i \in 0 .. n}
           At(k) == CHOOSE i \in 0 .. n : order[i] = k
<1>6. \A i, j \in 0 .. n : order[i] = order[j] => i = j
  <2>1. ASSUME NEW i \in 0 .. n, NEW j \in 0 .. n, order[i] = order[j]
        PROVE  i = j
    <3>0. order[i] \in Nat /\ order[j] \in Nat
      BY <1>2, <1>5
    <3>1. ~(i < j) /\ ~(j < i)
      BY <1>4, <2>1, <3>0
    <3> QED
      BY <3>1
  <2> QED
    BY <2>1
<1>7. \A i \in 0 .. n : At(order[i]) = i
  BY <1>6
<1>8. F \subseteq Node \ nodes
  BY <1>5
<1>9. /\ nodes' = nodes \cup F /\ roots' = roots \cup {order[0]}
      /\ next' = [k \in Node |-> IF k \in F /\ At(k) \in 1 .. n - 1
                                 THEN order[At(k) + 1] ELSE next[k]]
      /\ prev' = [k \in Node |-> IF k \in F /\ At(k) >= 1
                                 THEN order[IF At(k) = 1 THEN n ELSE At(k) - 1] ELSE prev[k]]
      /\ child' = [child EXCEPT ![order[0]] = order[1]]
  BY <1>4
<1> HIDE DEF F, At
<1>10. ASSUME NEW i \in 0 .. n
       PROVE  /\ next'[order[i]] = IF i \in {0, n} THEN Null ELSE order[i + 1]
              /\ prev'[order[i]] = IF i = 0 THEN Null
                                   ELSE IF i = 1 THEN order[n] ELSE order[i - 1]
              /\ child'[order[i]] = IF i = 0 THEN order[1] ELSE Null
  <2>1. order[i] \in F /\ order[i] \in Node /\ At(order[i]) = i
    BY <1>5, <1>7 DEF F
  <2>2. next[order[i]] = Null /\ prev[order[i]] = Null /\ child[order[i]] = Null
    BY <1>3, <1>5
  <2>3. next'[order[i]] = IF i \in 1 .. n - 1 THEN order[i + 1] ELSE Null
    BY <1>9, <2>1, <2>2
  <2>4. prev'[order[i]] = IF i >= 1 THEN order[IF i = 1 THEN n ELSE i - 1] ELSE Null
    BY <1>9, <2>1, <2>2
  <2>5. 0 \in 0 .. n /\ (i # 0 => order[i] # order[0])
    BY <1>5, <1>6
  <2>6. child'[order[i]] = IF i = 0 THEN order[1] ELSE Null
    BY <1>2, <1>5, <1>9, <2>1, <2>2, <2>5
  <2>7. i \in 1 .. n - 1 <=> i \notin {0, n}
    BY <1>5
  <2>8. i >= 1 <=> i # 0
    OBVIOUS
  <2>9. next'[order[i]] = IF i \in {0, n} THEN Null ELSE order[i + 1]
    BY <2>3, <2>7
  <2>10. prev'[order[i]] = IF i = 0 THEN Null ELSE IF i = 1 THEN order[n] ELSE order[i - 1]
    BY <2>4, <2>8
  <2> QED
    BY <2>6, <2>9, <2>10
<1>11. \A k \in Node \ F : next'[k] = next[k] /\ prev'[k] = prev[k] /\ child'[k] = child[k]
  <2>1. order[0] \in F
    BY <1>5 DEF F
  <2> QED
    BY <1>2, <1>9, <2>1
<1> DEFINE nx1 == [k \in Node |-> IF k \in F THEN next'[k] ELSE Null]
           pv1 == [k \in Node |-> IF k \in F THEN prev'[k] ELSE Null]
           ch1 == [k \in Node |-> IF k \in F THEN child'[k] ELSE Null]
<1>12. \A i \in 0 .. n : /\ nx1[order[i]] = next'[order[i]] /\ pv1[order[i]] = prev'[order[i]]
                         /\ ch1[order[i]] = child'[order[i]]
  BY <1>5 DEF F
<1>13. \A k \in Node \ F : nx1[k] = Null /\ pv1[k] = Null /\ ch1[k] = Null
  OBVIOUS
<1>14. nx1 \in [Node -> Link] /\ pv1 \in [Node -> Link] /\ ch1 \in [Node -> Link]
  <2>1. ASSUME NEW k \in F
        PROVE  next'[k] \in Link /\ prev'[k] \in Link /\ child'[k] \in Link
    <3>1. PICK i \in 0 .. n : k = order[i]
      BY <2>1 DEF F
    <3>2. order[1] \in Link /\ order[n] \in Link /\ Null \in Link
      BY <1>5 DEF Link
    <3>3. i \notin {0, n} => order[i + 1] \in Link
      BY <1>5 DEF Link
    <3>4. i \notin {0, 1} => order[i - 1] \in Link
      BY <1>5 DEF Link
    <3> QED
      BY <1>10, <3>1, <3>2, <3>3, <3>4
  <2> QED
    BY <2>1 DEF Link
<1> HIDE DEF nx1, pv1, ch1
<1>15. \A i \in 0 .. n : /\ nx1[order[i]] = IF i \in {0, n} THEN Null ELSE order[i + 1]
                         /\ pv1[order[i]] = IF i = 0 THEN Null
                                            ELSE IF i = 1 THEN order[n] ELSE order[i - 1]
                         /\ ch1[order[i]] = IF i = 0 THEN order[1] ELSE Null
  BY <1>10, <1>12
<1>16. Forest(F, {order[0]}, nx1, pv1, ch1)
  <2>1. F = {order[i] : i \in 0 .. n}
    BY DEF F
  <2> QED
    BY <1>5, <1>6, <1>13, <1>14, <1>15, <2>1, ForestRow
<1>17. /\ next' = [k \in Node |-> IF k \in F THEN nx1[k] ELSE next[k]]
       /\ prev' = [k \in Node |-> IF k \in F THEN pv1[k] ELSE prev[k]]
       /\ child' = [k \in Node |-> IF k \in F THEN ch1[k] ELSE child[k]]
  <2>1. \A k \in F : nx1[k] = next'[k] /\ pv1[k] = prev'[k] /\ ch1[k] = child'[k]
    BY <1>8 DEF nx1, pv1, ch1
  <2>2. next' = [k \in Node |-> next'[k]] /\ prev' = [k \in Node |-> prev'[k]]
        /\ child' = [k \in Node |-> child'[k]]
    BY <1>2, <1>9
  <2> QED
    BY <1>8, <1>11, <2>1, <2>2
<1>18. Forest(nodes', roots', next', prev', child')
  <2>1. nodes \cap F = {}
    BY <1>8
  <2>2. Forest(nodes \cup F, roots \cup {order[0]}, next', prev', child')
    BY <1>1, <1>16, <1>17, <2>1, ForestUnion
  <2> QED
    BY <1>9, <2>2
<1>19. next'[order[0]] = Null /\ \A r \in roots : next'[r] = next[r]
  BY <1>2, <1>5, <1>8, <1>10, <1>11
<1> QED
  BY <1>1, <1>9, <1>18, <1>19, QuietAgain DEF CreateFilledArray, Quiet

\* So does cJSON_Duplicate (cJSON.c:2506-2586).
LEMMA AfterDuplicate ==
    ASSUME JsonInv, NEW root \in nodes, Duplicate(root)
    PROVE  JsonInv'
<1>1. Forest(nodes, roots, next, prev, child) /\ \A r \in roots : next[r] = Null
  BY QuietForest DEF Duplicate
<1>2. /\ nodes \subseteq Node /\ roots \subseteq nodes
      /\ next \in [Node -> Link] /\ prev \in [Node -> Link] /\ child \in [Node -> Link]
      /\ Null \notin Node /\ Node \subseteq Nat
  BY <1>1, ForestFacts, NodesAreNotNull
<1> DEFINE B == Below(root)
<1>3. B = {root} \cup From(child[root], next, child)
  BY DEF Below, Reach
<1>4. B \subseteq nodes
  BY <1>1, BelowInReach
<1>5. SUFFICES ASSUME NEW copy \in [B -> Node \ nodes],
        LET fresh == {copy[m] : m \in B}
            old(n) == CHOOSE m \in B : copy[m] = n
            Copied(pointers, n) ==
                IF n \notin fresh THEN pointers[n]
                ELSE IF pointers[old(n)] = Null THEN Null ELSE copy[pointers[old(n)]]
        IN
        /\ \A m, n \in B : m < n => copy[m] < copy[n]
        /\ nodes' = nodes \cup fresh /\ roots' = roots \cup {copy[root]}
        /\ child' = [n \in Node |-> Copied(child, n)]
        /\ next' = [n \in Node |-> IF n = copy[root] THEN Null ELSE Copied(next, n)]
        /\ prev' = [n \in Node |-> IF n = copy[root] THEN Null ELSE Copied(prev, n)]
      PROVE  JsonInv'
  BY DEF Duplicate
<1> DEFINE C == {copy[m] : m \in B}
           Old(n) == CHOOSE m \in B : copy[m] = n
           Copy(pointers, n) ==
               IF n \notin C THEN pointers[n]
               ELSE IF pointers[Old(n)] = Null THEN Null ELSE copy[pointers[Old(n)]]
<1>6. /\ nodes' = nodes \cup C /\ roots' = roots \cup {copy[root]}
      /\ child' = [n \in Node |-> Copy(child, n)]
      /\ next' = [n \in Node |-> IF n = copy[root] THEN Null ELSE Copy(next, n)]
      /\ prev' = [n \in Node |-> IF n = copy[root] THEN Null ELSE Copy(prev, n)]
  BY <1>5
<1>7. \A m, k \in B : copy[m] = copy[k] => m = k
  <2>1. ASSUME NEW m \in B, NEW k \in B, copy[m] = copy[k]
        PROVE  m = k
    <3>1. m \in Nat /\ k \in Nat
      BY <1>2, <1>4
    <3>2. copy[m] \in Nat /\ copy[k] \in Nat
      BY <1>2, <1>5
    <3>3. ~(m < k) /\ ~(k < m)
      BY <1>5, <2>1, <3>2
    <3> QED
      BY <3>1, <3>3
  <2> QED
    BY <2>1
<1>8. copy \in [B -> Node] /\ C \subseteq Node \ nodes /\ root \in B
  BY <1>3, <1>5
<1>9. \A m \in B : copy[m] \in C /\ copy[m] \in Node /\ Old(copy[m]) = m
  BY <1>7, <1>8
<1> HIDE DEF B, C, Old
<1>10. \A m \in B : /\ next'[copy[m]] = IF m = root THEN Null ELSE Image(next[m], copy)
                    /\ prev'[copy[m]] = IF m = root THEN Null ELSE Image(prev[m], copy)
                    /\ child'[copy[m]] = Image(child[m], copy)
  <2>1. ASSUME NEW m \in B
        PROVE  /\ next'[copy[m]] = IF m = root THEN Null ELSE Image(next[m], copy)
               /\ prev'[copy[m]] = IF m = root THEN Null ELSE Image(prev[m], copy)
               /\ child'[copy[m]] = Image(child[m], copy)
    <3>1. copy[m] \in C /\ copy[m] \in Node /\ Old(copy[m]) = m
      BY <1>9
    <3>2. copy[m] = copy[root] <=> m = root
      BY <1>7, <1>8
    <3>3. child'[copy[m]] = Image(child[m], copy)
      BY <1>6, <3>1 DEF Image
    <3>4. next'[copy[m]] = IF m = root THEN Null ELSE Image(next[m], copy)
      BY <1>6, <3>1, <3>2 DEF Image
    <3>5. prev'[copy[m]] = IF m = root THEN Null ELSE Image(prev[m], copy)
      BY <1>6, <3>1, <3>2 DEF Image
    <3> QED
      BY <3>3, <3>4, <3>5
  <2> QED
    BY <2>1
<1>11. \A k \in Node \ C : next'[k] = next[k] /\ prev'[k] = prev[k] /\ child'[k] = child[k]
  <2>1. copy[root] \in C
    BY <1>8, <1>9
  <2> QED
    BY <1>6, <2>1
<1> DEFINE nx1 == [k \in Node |-> IF k \in C THEN next'[k] ELSE Null]
           pv1 == [k \in Node |-> IF k \in C THEN prev'[k] ELSE Null]
           ch1 == [k \in Node |-> IF k \in C THEN child'[k] ELSE Null]
<1>12. \A m \in B : /\ nx1[copy[m]] = next'[copy[m]] /\ pv1[copy[m]] = prev'[copy[m]]
                    /\ ch1[copy[m]] = child'[copy[m]]
  BY <1>9
<1>13. \A k \in Node \ C : nx1[k] = Null /\ pv1[k] = Null /\ ch1[k] = Null
  OBVIOUS
<1>14. OnNodes(nx1) /\ OnNodes(pv1) /\ OnNodes(ch1)
  BY DEF OnNodes
<1> HIDE DEF nx1, pv1, ch1
<1>15. \A m \in B : /\ nx1[copy[m]] = IF m = root THEN Null ELSE Image(next[m], copy)
                    /\ pv1[copy[m]] = IF m = root THEN Null ELSE Image(prev[m], copy)
                    /\ ch1[copy[m]] = Image(child[m], copy)
  BY <1>10, <1>12
<1>16. Forest(C, {copy[root]}, nx1, pv1, ch1)
  <2>1. C = {copy[m] : m \in B}
    BY DEF C
  <2> QED
    BY <1>1, <1>3, <1>7, <1>8, <1>13, <1>14, <1>15, <2>1, ForestCopy
<1>17. /\ next' = [k \in Node |-> IF k \in C THEN nx1[k] ELSE next[k]]
       /\ prev' = [k \in Node |-> IF k \in C THEN pv1[k] ELSE prev[k]]
       /\ child' = [k \in Node |-> IF k \in C THEN ch1[k] ELSE child[k]]
  <2>1. \A k \in C : nx1[k] = next'[k] /\ pv1[k] = prev'[k] /\ ch1[k] = child'[k]
    BY <1>8 DEF nx1, pv1, ch1
  <2>2. next' = [k \in Node |-> next'[k]] /\ prev' = [k \in Node |-> prev'[k]]
        /\ child' = [k \in Node |-> child'[k]]
    BY <1>6
  <2> QED
    BY <1>8, <1>11, <2>1, <2>2
<1>18. Forest(nodes', roots', next', prev', child')
  <2>1. nodes \cap C = {}
    BY <1>8
  <2>2. Forest(nodes \cup C, roots \cup {copy[root]}, next', prev', child')
    BY <1>1, <1>16, <1>17, <2>1, ForestUnion
  <2> QED
    BY <1>6, <2>2
<1>19. next'[copy[root]] = Null /\ \A r \in roots : next'[r] = next[r]
  BY <1>2, <1>8, <1>10, <1>11
<1> QED
  BY <1>1, <1>6, <1>18, <1>19, QuietAgain DEF Duplicate, Quiet

-----------------------------------------------------------------------------
\* The item of the call, or the first one of the list that it makes.
ListTop(i) == IF i = 1 THEN parse[1].item ELSE parse[i].first

\* The item that a call parses is the last of a list of its own.
LEMMA CallFacts ==
    ASSUME JsonInv, NEW i \in 1 .. Len(parse)
    PROVE  /\ parse[i] \in ParseCall /\ i \in Nat
           /\ ListTop(i) \in Tops /\ ParsedBy(i) \in nodes
           /\ ParsedBy(i) \in From(ListTop(i), next, next) /\ next[ParsedBy(i)] = Null
           /\ \A j \in 1 .. Len(parse) :
                j # i => ListTop(j) # ListTop(i) /\ ParsedBy(j) # ParsedBy(i)
<1>1. parse \in Seq(ParseCall) /\ Forest(nodes, Tops, next, prev, child) /\ Calls
  BY DEF JsonInv, JsonTypeOK
<1>2. /\ nodes \subseteq Node /\ Tops \subseteq nodes /\ Null \notin nodes
      /\ next \in [Node -> Link] /\ Closed(nodes, next, child) /\ Node \subseteq Link
  BY <1>1, ForestFacts DEF Link
<1>3. \A k \in 1 .. Len(parse) : k # 1 => k \in 2 .. Len(parse)
  BY <1>1
<1>4. ASSUME NEW k \in 1 .. Len(parse)
      PROVE  /\ ListTop(k) \in Tops /\ (k # 1 => ListTop(k) \notin Trees)
             /\ (k = 1 => ListTop(k) \in Trees)
             /\ ParsedBy(k) \in From(ListTop(k), next, next) /\ next[ParsedBy(k)] = Null
  <2>1. CASE k = 1
    <3>1. parse[1].item \in Trees /\ ListTop(k) = parse[1].item /\ ParsedBy(k) = parse[1].item
      BY <2>1, <1>4 DEF Trees, ListTop, ParsedBy
    <3>2. parse[1].item \in Tops /\ next[parse[1].item] = Null
      BY <3>1 DEF Tops, JsonInv
    <3>3. parse[1].item \in From(parse[1].item, next, next)
      BY <1>2, <3>2, FromClosed
    <3> QED
      BY <2>1, <3>1, <3>2, <3>3
  <2>2. CASE k # 1
    <3>1. k \in 2 .. Len(parse) /\ ListTop(k) = parse[k].first /\ ParsedBy(k) = parse[k].current
      BY <1>3, <2>2 DEF ListTop, ParsedBy
    <3>2. parse[k].first \in Tops
      BY <3>1 DEF Tops
    <3> QED
      BY <1>1, <2>2, <3>1, <3>2 DEF Calls, List
  <2> QED
    BY <2>1, <2>2
<1>5. ASSUME NEW k \in 1 .. Len(parse), NEW j \in 1 .. Len(parse), j # k
      PROVE  ListTop(j) # ListTop(k)
  <2>1. CASE j = 1 \/ k = 1
    BY <1>4, <1>5, <2>1
  <2>2. CASE j # 1 /\ k # 1
    BY <1>1, <1>3, <1>5, <2>2 DEF Calls, ListTop
  <2> QED
    BY <2>1, <2>2
<1>6. \A j \in 1 .. Len(parse) : j # i => ParsedBy(j) # ParsedBy(i)
  <2>1. \A o, q \in Tops : o # q => From(o, next, next) \cap From(q, next, next) = {}
    BY <1>1, ListsApart
  <2> QED
    BY <1>4, <1>5, <2>1
<1>7. ParsedBy(i) \in nodes
  BY <1>2, <1>4, ListInClosed
<1>8. parse[i] \in ParseCall /\ i \in Nat
  BY <1>1
<1> QED
  BY <1>4, <1>5, <1>6, <1>7, <1>8

\* While a text is parsed: what JsonInv says, and what is enough for it.
LEMMA ParseForest ==
    ASSUME JsonInv
    PROVE  /\ Forest(nodes, Tops, next, prev, child)
           /\ nodes \subseteq Node /\ Tops \subseteq nodes /\ Null \notin Node
           /\ roots \subseteq Trees /\ Trees \subseteq Tops
           /\ next \in [Node -> Link] /\ prev \in [Node -> Link] /\ child \in [Node -> Link]
           /\ \A k \in Node \ nodes : next[k] = Null /\ prev[k] = Null /\ child[k] = Null
           /\ \A r \in Trees : next[r] = Null
           /\ Calls /\ parse \in Seq(ParseCall) /\ Len(parse) \in Nat
           /\ Len(parse) <= NestingLimit + 1
<1>1. /\ Forest(nodes, Tops, next, prev, child) /\ Calls /\ parse \in Seq(ParseCall)
      /\ Len(parse) <= NestingLimit + 1 /\ Len(parse) \in Nat
      /\ \A r \in Trees : next[r] = Null
  BY DEF JsonInv, JsonTypeOK
<1>2. /\ nodes \subseteq Node /\ Tops \subseteq nodes /\ Null \notin Node
      /\ next \in [Node -> Link] /\ prev \in [Node -> Link] /\ child \in [Node -> Link]
  BY <1>1, ForestFacts, NodesAreNotNull
<1>3. \A k \in Node \ nodes : next[k] = Null /\ prev[k] = Null /\ child[k] = Null
  BY <1>1 DEF Forest, Pointers
<1>4. roots \subseteq Trees /\ Trees \subseteq Tops
  BY DEF Trees, Tops
<1> QED
  BY <1>1, <1>2, <1>3, <1>4

\* When a step of the parser has left a forest and its calls, the invariant holds
\* again.
LEMMA ParseAgain ==
    ASSUME Forest(nodes', Tops', next', prev', child'), \A r \in Trees' : next'[r] = Null,
           Calls', parse' \in Seq(ParseCall), Len(parse') <= NestingLimit + 1
    PROVE  JsonInv'
<1>1. /\ nodes' \subseteq Node /\ Tops' \subseteq nodes'
      /\ next' \in [Node -> Link] /\ prev' \in [Node -> Link] /\ child' \in [Node -> Link]
  BY ForestFacts
<1>2. roots' \subseteq Tops'
  BY DEF Trees, Tops
<1> QED
  BY <1>1, <1>2 DEF JsonInv, JsonTypeOK

\* The first n calls go on, with the lists they have.
CallsKept(n) ==
    /\ parse' \in Seq(ParseCall) /\ Len(parse') = n
    /\ \A i \in 1 .. n : /\ parse'[i].item = parse[i].item /\ parse'[i].first = parse[i].first
                         /\ parse'[i].current = parse[i].current

\* The innermost call goes on to another place.
LEMMA GoOnKeeps ==
    ASSUME JsonInv, parse # <<>>, NEW pc \in {"value", "after", "failed"}, GoOn(pc)
    PROVE  CallsKept(Len(parse)) /\ parse'[Len(parse)].pc = pc /\ Len(parse) \in 1 .. Len(parse)
<1>1. parse \in Seq(ParseCall) /\ Len(parse) \in Nat /\ Len(parse) # 0
  BY ParseForest
<1>2. parse' = [parse EXCEPT ![Len(parse)].pc = pc]
  BY DEF GoOn
<1>3. Len(parse) \in 1 .. Len(parse) /\ Len(parse') = Len(parse)
  BY <1>1, <1>2
<1>4. \A i \in 1 .. Len(parse) : parse[i] \in ParseCall
  BY <1>1
<1>5. \A i \in 1 .. Len(parse) :
        parse'[i] = IF i = Len(parse) THEN [parse[i] EXCEPT !.pc = pc] ELSE parse[i]
  BY <1>1, <1>2
<1>6. [parse[Len(parse)] EXCEPT !.pc = pc] \in ParseCall
  BY <1>3, <1>4 DEF ParseCall
<1>7. parse' \in Seq(ParseCall)
  BY <1>1, <1>2, <1>3, <1>6
<1>8. \A i \in 1 .. Len(parse) : /\ parse'[i].item = parse[i].item
                                 /\ parse'[i].first = parse[i].first
                                 /\ parse'[i].current = parse[i].current
  BY <1>4, <1>5 DEF ParseCall
<1>9. parse'[Len(parse)].pc = pc
  BY <1>3, <1>4, <1>5 DEF ParseCall
<1> QED
  BY <1>3, <1>7, <1>8, <1>9 DEF CallsKept

\* The number of the caller.
LEMMA OneLess == \A m \in Nat : m > 1 => /\ m - 1 \in Nat \ {0} /\ m = (m - 1) + 1
                                       /\ m - 1 \in 1 .. m
OBVIOUS

\* The innermost call returns to its caller (cJSON.c:1416-1435, 1575-1593).
LEMMA ReturnWithKeeps ==
    ASSUME JsonInv, Len(parse) > 1, NEW pc \in {"value", "after", "failed"}, ReturnWith(pc)
    PROVE  CallsKept(Len(parse) - 1) /\ parse'[Len(parse) - 1].pc = pc
           /\ Len(parse) - 1 \in 1 .. Len(parse)
<1> DEFINE n == Len(parse) - 1
<1>0. parse \in Seq(ParseCall) /\ Len(parse) \in Nat
  BY ParseForest
<1>1. n \in Nat \ {0} /\ Len(parse) = n + 1 /\ n \in 1 .. Len(parse)
  BY <1>0, OneLess
<1> HIDE DEF n
<1> DEFINE s == SubSeq(parse, 1, n)
<1>2. s \in Seq(ParseCall) /\ Len(s) = n /\ \A i \in 1 .. n : s[i] = parse[i]
  BY <1>0, <1>1
<1>3. parse' = [s EXCEPT ![n].pc = pc]
  BY DEF ReturnWith, n
<1> HIDE DEF s
<1>4. n \in 1 .. n /\ Len(parse') = n
  BY <1>1, <1>2, <1>3
<1>5. \A i \in 1 .. n : s[i] \in ParseCall
  BY <1>2
<1>6. \A i \in 1 .. n : parse'[i] = IF i = n THEN [s[i] EXCEPT !.pc = pc] ELSE s[i]
  BY <1>2, <1>3
<1>7. [s[n] EXCEPT !.pc = pc] \in ParseCall
  BY <1>4, <1>5 DEF ParseCall
<1>8. parse' \in Seq(ParseCall)
  BY <1>2, <1>3, <1>4, <1>7
<1>9. ASSUME NEW i \in 1 .. n
      PROVE  /\ parse'[i].item = parse[i].item /\ parse'[i].first = parse[i].first
             /\ parse'[i].current = parse[i].current
  <2>1. s[i] \in ParseCall /\ s[i] = parse[i]
    BY <1>2, <1>5
  <2>2. parse'[i] = IF i = n THEN [s[i] EXCEPT !.pc = pc] ELSE s[i]
    BY <1>6
  <2> QED
    BY <2>1, <2>2 DEF ParseCall
<1>10. parse'[n].pc = pc
  BY <1>4, <1>5, <1>6 DEF ParseCall
<1> QED
  BY <1>1, <1>4, <1>8, <1>9, <1>10 DEF CallsKept, n

\* The tops, when calls after the n-th have returned and the others go on.
LEMMA KeptSets ==
    ASSUME JsonInv, NEW n \in 1 .. Len(parse), CallsKept(n), roots' = roots
    PROVE  /\ Trees' = Trees
           /\ Tops' = Tops \ {parse[i].first : i \in n + 1 .. Len(parse)}
           /\ \A i \in 1 .. n : ParsedBy(i)' = ParsedBy(i)
<1>1. /\ Len(parse) \in Nat /\ Calls /\ n \in Nat \ {0} /\ Len(parse') = n
      /\ \A i \in 1 .. n : /\ parse'[i].item = parse[i].item /\ parse'[i].first = parse[i].first
                           /\ parse'[i].current = parse[i].current
  BY ParseForest DEF CallsKept
<1>2. 1 \in 1 .. n /\ 1 \in 1 .. Len(parse) /\ 1 \in 1 .. Len(parse')
  BY <1>1
<1>3. Trees' = Trees
  BY <1>1, <1>2 DEF Trees
<1>4. /\ 2 .. Len(parse) = (2 .. n) \cup (n + 1 .. Len(parse))
      /\ (2 .. n) \cap (n + 1 .. Len(parse)) = {}
      /\ 2 .. n \subseteq 1 .. n
  BY <1>1
<1> DEFINE K == {parse[i].first : i \in 2 .. n}  L == {parse[i].first : i \in n + 1 .. Len(parse)}
<1>5. {parse[i].first : i \in 2 .. Len(parse)} = K \cup L
  BY <1>4
<1>6. K \cap L = {} /\ Trees \cap L = {}
  BY <1>1, <1>4 DEF Calls
<1>7. {parse'[i].first : i \in 2 .. n} = K
  BY <1>1, <1>4
<1>8. Tops' = Trees \cup K
  BY <1>1, <1>3, <1>7 DEF Tops
<1>9. Tops' = Tops \ L
  BY <1>5, <1>6, <1>8 DEF Tops
<1>10. \A i \in 1 .. n : ParsedBy(i)' = ParsedBy(i)
  BY <1>1, <1>2 DEF ParsedBy
<1> QED
  BY <1>3, <1>9, <1>10

\* What Calls says of the calls that go on, when their lists are as they were.
LEMMA KeptCalls ==
    ASSUME JsonInv, NEW n \in 1 .. Len(parse), CallsKept(n), roots' = roots,
           parse'[n].pc # "value",
           \A i \in 2 .. n : /\ child'[parse[i].item] = Null
                             /\ parse[i].current \in From(parse[i].first, next', next')
                             /\ next'[parse[i].current] = Null
    PROVE  Calls'
<1>1. /\ Len(parse) \in Nat /\ Calls /\ n \in Nat \ {0} /\ Len(parse') = n
      /\ \A i \in 1 .. n : /\ parse'[i].item = parse[i].item /\ parse'[i].first = parse[i].first
                           /\ parse'[i].current = parse[i].current
  BY ParseForest DEF CallsKept
<1>2. /\ 1 \in 1 .. n /\ 1 \in 1 .. Len(parse) /\ 2 .. n \subseteq 1 .. n
      /\ 2 .. n \subseteq 2 .. Len(parse) /\ \A i \in 2 .. n : i - 1 \in 1 .. n
  BY <1>1
<1>3. Trees' = Trees /\ \A i \in 1 .. n : ParsedBy(i)' = ParsedBy(i)
  BY KeptSets
<1>4. parse'[1].item \notin roots'
  BY <1>1, <1>2 DEF Calls
<1>5. ASSUME NEW i \in 2 .. n
      PROVE  /\ parse'[i].item = ParsedBy(i - 1)' /\ child'[parse'[i].item] = Null
             /\ parse'[i].first \notin Trees'
             /\ \A j \in 2 .. n : parse'[j].first = parse'[i].first => j = i
             /\ parse'[i].current \in From(parse'[i].first, next', next')
             /\ next'[parse'[i].current] = Null
  <2>1. /\ parse'[i].item = parse[i].item /\ parse'[i].first = parse[i].first
        /\ parse'[i].current = parse[i].current
    BY <1>1, <1>2
  <2>2. parse[i].item = ParsedBy(i - 1) /\ ParsedBy(i - 1)' = ParsedBy(i - 1)
    BY <1>1, <1>2, <1>3 DEF Calls
  <2>3. parse[i].first \notin Trees
    BY <1>1, <1>2 DEF Calls
  <2>4. \A j \in 2 .. n : parse'[j].first = parse[j].first
    BY <1>1, <1>2
  <2>5. \A j \in 2 .. n : parse[j].first = parse[i].first => j = i
    BY <1>1, <1>2 DEF Calls
  <2> QED
    BY <1>3, <2>1, <2>2, <2>3, <2>4, <2>5
<1>6. ~ parsing("value")'
  BY <1>1 DEF parsing, call
<1> QED
  BY <1>1, <1>4, <1>5, <1>6 DEF Calls, List

\* A step of the innermost call that changes no tree (ParseScalar, ParseFails, and
\* ParseList where it refuses or is done at once) keeps the invariant.
LEMMA AfterGoOn ==
    ASSUME JsonInv, parse # <<>>, NEW pc \in {"after", "failed"}, GoOn(pc),
           UNCHANGED <<treeVars, roots>>
    PROVE  JsonInv'
<1> DEFINE n == Len(parse)
<1>1. CallsKept(n) /\ parse'[n].pc = pc /\ n \in 1 .. Len(parse)
  BY GoOnKeeps
<1>2. /\ Forest(nodes, Tops, next, prev, child) /\ \A r \in Trees : next[r] = Null
      /\ Calls /\ Len(parse) \in Nat /\ Len(parse) <= NestingLimit + 1
  BY ParseForest
<1>3. /\ nodes' = nodes /\ next' = next /\ prev' = prev /\ child' = child /\ roots' = roots
  BY DEF treeVars
<1>4. Trees' = Trees /\ Tops' = Tops
  <2>1. n + 1 .. Len(parse) = {}
    BY <1>2
  <2> QED
    BY <1>1, <1>3, <2>1, KeptSets
<1>5. Calls'
  <2>1. \A i \in 2 .. n : /\ child'[parse[i].item] = Null
                          /\ parse[i].current \in From(parse[i].first, next', next')
                          /\ next'[parse[i].current] = Null
    BY <1>2, <1>3 DEF Calls, List
  <2>2. parse'[n].pc # "value"
    BY <1>1
  <2> QED
    BY <1>1, <1>3, <2>1, <2>2, KeptCalls
<1>6. parse' \in Seq(ParseCall) /\ Len(parse') <= NestingLimit + 1
  BY <1>1, <1>2 DEF CallsKept
<1> QED
  BY <1>2, <1>3, <1>4, <1>5, <1>6, ParseAgain

\* So does cJSON_ParseWithLengthOpts as it begins (cJSON.c:1003-1051).
LEMMA AfterStartParse ==
    ASSUME JsonInv, StartParse
    PROVE  JsonInv'
<1>1. Forest(nodes, roots, next, prev, child) /\ \A r \in roots : next[r] = Null
  BY QuietForest DEF StartParse
<1>2. PICK n \in Node \ nodes :
        /\ nodes' = nodes \cup {n}
        /\ parse' = <<[item |-> n, first |-> Null, current |-> Null, pc |-> "value"]>>
  BY DEF StartParse
<1>3. next' = next /\ prev' = prev /\ child' = child /\ roots' = roots
  BY DEF StartParse
<1>4. /\ parse' \in Seq(ParseCall) /\ Len(parse') = 1 /\ parse'[1].item = n
  BY <1>2 DEF ParseCall, Link
<1>5. Trees' = roots \cup {n}
  <2>1. {parse'[i].item : i \in {1} \cap (1 .. Len(parse'))} = {n}
    BY <1>4
  <2> QED
    BY <1>3, <2>1 DEF Trees
<1>6. Tops' = roots \cup {n}
  <2>1. {parse'[i].first : i \in 2 .. Len(parse')} = {}
    BY <1>4
  <2> QED
    BY <1>5, <2>1 DEF Tops
<1>7. Forest(nodes', Tops', next', prev', child')
  BY <1>1, <1>2, <1>3, <1>6, ForestNew
<1>8. next[n] = Null /\ child[n] = Null /\ n \notin roots
  <2>1. next[n] = Null /\ child[n] = Null
    BY <1>1, <1>2 DEF Forest, Pointers
  <2>2. roots \subseteq nodes
    BY <1>1 DEF Forest
  <2> QED
    BY <1>2, <2>1, <2>2
<1>9. Calls'
  <2>1. Parsed' = n
    BY <1>4 DEF Parsed, call
  <2> QED
    BY <1>3, <1>4, <1>8, <2>1 DEF Calls
<1>10. \A r \in Trees' : next'[r] = Null
  BY <1>1, <1>3, <1>5, <1>8
<1>11. Len(parse') <= NestingLimit + 1
  BY <1>4, JsonAssumption
<1> QED
  BY <1>4, <1>7, <1>9, <1>10, <1>11, ParseAgain

\* So do parse_array and parse_object with their first item (cJSON.c:1494-1530).
LEMMA AfterParseList ==
    ASSUME JsonInv, ParseList
    PROVE  JsonInv'
<1>0. PICK m \in Nat : m = Len(parse)
  BY ParseForest
<1>1. /\ Forest(nodes, Tops, next, prev, child) /\ \A r \in Trees : next[r] = Null
      /\ nodes \subseteq Node /\ Tops \subseteq nodes /\ Trees \subseteq Tops
      /\ \A k \in Node \ nodes : next[k] = Null /\ prev[k] = Null /\ child[k] = Null
      /\ next \in [Node -> Link]
      /\ Calls /\ parse \in Seq(ParseCall) /\ m = Len(parse) /\ m \in Nat /\ m <= NestingLimit + 1
  BY <1>0, ParseForest
<1>2. parse # <<>> /\ parsing("value") /\ roots' = roots
  BY DEF ParseList, parsing
<1>3. CASE (GoOn("after") \/ GoOn("failed")) /\ UNCHANGED treeVars
  BY <1>2, <1>3, AfterGoOn
<1>4. ASSUME Len(parse) <= NestingLimit, NEW n \in Node \ nodes, nodes' = nodes \cup {n},
             parse' = Append(parse, [item |-> Parsed, first |-> n, current |-> n, pc |-> "value"]),
             UNCHANGED <<next, prev, child>>
      PROVE  JsonInv'
  <2>1. m \in 1 .. m /\ m # 0 /\ 1 \in 1 .. m
    BY <1>1, <1>2
  <2>2. Parsed = ParsedBy(m) /\ Parsed \in nodes /\ child[Parsed] = Null
    <3>1. Parsed = ParsedBy(m)
      BY <1>1 DEF Parsed, ParsedBy, call
    <3> QED
      BY <1>1, <1>2, <2>1, <3>1, CallFacts DEF Calls
  <2> DEFINE c == [item |-> Parsed, first |-> n, current |-> n, pc |-> "value"]
  <2>3. c \in ParseCall
    BY <1>1, <2>2 DEF ParseCall, Link
  <2> HIDE DEF c
  <2>4. parse' \in Seq(ParseCall) /\ Len(parse') = m + 1 /\ parse'[m + 1] = c
        /\ \A i \in 1 .. m : parse'[i] = parse[i]
    BY <1>1, <1>4, <2>3 DEF c
  <2>5. c.item = Parsed /\ c.first = n /\ c.current = n /\ c.pc = "value"
    BY DEF c
  <2>6. 2 .. m + 1 = (2 .. m) \cup {m + 1} /\ 2 .. m \subseteq 1 .. m /\ m + 1 \notin 2 .. m
        /\ \A i \in 2 .. m : i - 1 \in 1 .. m
    BY <1>1, <2>1
  <2>7. Trees' = Trees
    <3>1. {1} \cap (1 .. m + 1) = {1} /\ {1} \cap (1 .. m) = {1} /\ parse'[1] = parse[1]
      BY <1>1, <2>1, <2>4
    <3> QED
      BY <1>1, <1>2, <2>4, <3>1 DEF Trees
  <2>8. Tops' = Tops \cup {n}
    <3>1. {parse'[i].first : i \in 2 .. m + 1} = {parse[i].first : i \in 2 .. m} \cup {n}
      <4>1. \A i \in 2 .. m : parse'[i].first = parse[i].first
        BY <2>4, <2>6
      <4>2. parse'[m + 1].first = n
        BY <2>4, <2>5
      <4> QED
        BY <2>6, <4>1, <4>2
    <3> QED
      BY <1>1, <2>4, <2>7, <3>1 DEF Tops
  <2>9. Forest(nodes', Tops', next', prev', child')
    BY <1>1, <1>4, <2>8, ForestNew
  <2>10. next[n] = Null /\ child[n] = Null /\ n \notin Tops /\ n \notin Trees
         /\ n \in From(n, next, next)
    <3>1. n \in Link /\ n # Null
      BY NodesAreNotNull DEF Link
    <3> QED
      BY <1>1, <1>4, <3>1, FromClosed
  <2>11. \A i \in 1 .. m : ParsedBy(i)' = ParsedBy(i)
    BY <1>1, <2>1, <2>4 DEF ParsedBy
  <2>12. ASSUME NEW i \in 2 .. m
         PROVE  /\ parse'[i].item = ParsedBy(i - 1)' /\ child'[parse'[i].item] = Null
                /\ parse'[i].first \notin Trees'
                /\ \A j \in 2 .. m + 1 : parse'[j].first = parse'[i].first => j = i
                /\ parse'[i].current \in From(parse'[i].first, next', next')
                /\ next'[parse'[i].current] = Null
    <3>1. parse'[i] = parse[i] /\ ParsedBy(i - 1)' = ParsedBy(i - 1)
      BY <2>4, <2>6, <2>11
    <3>2. \A j \in 2 .. m : parse'[j] = parse[j]
      BY <2>4, <2>6
    <3>3. parse[i].first \in Tops
      BY <1>1 DEF Tops
    <3>4. \A j \in 2 .. m + 1 : parse'[j].first = parse'[i].first => j = i
      BY <1>1, <2>4, <2>5, <2>6, <2>10, <3>1, <3>2, <3>3 DEF Calls
    <3> QED
      BY <1>1, <1>4, <2>7, <3>1, <3>4 DEF Calls, List
  <2>13. /\ parse'[m + 1].item = ParsedBy(m)' /\ child'[parse'[m + 1].item] = Null
         /\ parse'[m + 1].first \notin Trees'
         /\ \A j \in 2 .. m + 1 : parse'[j].first = parse'[m + 1].first => j = m + 1
         /\ parse'[m + 1].current \in From(parse'[m + 1].first, next', next')
         /\ next'[parse'[m + 1].current] = Null
    <3>1. \A j \in 2 .. m : parse'[j].first \in Tops
      BY <1>1, <2>4, <2>6 DEF Tops
    <3>2. \A j \in 2 .. m + 1 : parse'[j].first = parse'[m + 1].first => j = m + 1
      BY <2>4, <2>5, <2>6, <2>10, <3>1
    <3>3. parse'[m + 1].item = Parsed /\ parse'[m + 1].first = n /\ parse'[m + 1].current = n
      BY <2>4, <2>5
    <3>4. ParsedBy(m)' = Parsed /\ child'[Parsed] = Null
      BY <1>4, <2>1, <2>2, <2>11
    <3>5. n \notin Trees' /\ n \in From(n, next', next') /\ next'[n] = Null
      BY <1>4, <2>7, <2>10
    <3> QED
      BY <3>2, <3>3, <3>4, <3>5
  <2>14. parse'[1].item \notin roots'
    BY <1>1, <1>2, <2>1, <2>4 DEF Calls
  <2>15. Parsed' = n
    BY <1>1, <2>1, <2>4, <2>5 DEF Parsed, call
  <2>16. Calls'
    <3>1. \A i \in 2 .. m + 1 : i \in 2 .. m \/ i = m + 1
      BY <2>6
    <3>2. ParsedBy((m + 1) - 1)' = ParsedBy(m)'
      BY <1>1
    <3>3. ASSUME NEW i \in 2 .. m + 1
          PROVE  /\ parse'[i].item = ParsedBy(i - 1)' /\ child'[parse'[i].item] = Null
                 /\ parse'[i].first \notin Trees'
                 /\ \A j \in 2 .. m + 1 : parse'[j].first = parse'[i].first => j = i
                 /\ parse'[i].current \in From(parse'[i].first, next', next')
                 /\ next'[parse'[i].current] = Null
      <4>1. CASE i \in 2 .. m
        BY <2>12, <4>1
      <4>2. CASE i = m + 1
        BY <2>13, <3>2, <4>2
      <4> QED
        BY <3>1, <4>1, <4>2
    <3>4. child'[Parsed'] = Null
      BY <1>4, <2>10, <2>15
    <3> QED
      BY <2>4, <2>14, <3>3, <3>4 DEF Calls, List
  <2>17. Len(parse') <= NestingLimit + 1
    BY <1>1, <1>4, <2>4, JsonAssumption
  <2>18. \A r \in Trees' : next'[r] = Null
    BY <1>1, <1>4, <2>7
  <2> QED
    BY <2>4, <2>9, <2>16, <2>17, <2>18, ParseAgain
<1> QED
  BY <1>3, <1>4 DEF ParseList

\* So they do at the end of their list (cJSON.c:1575-1586).
LEMMA AfterEndList ==
    ASSUME JsonInv, EndList
    PROVE  JsonInv'
<1> DEFINE m == Len(parse)  n == Len(parse) - 1  o == parse[m].first  c == parse[m].current
           p == parse[m].item
<1>1. /\ Forest(nodes, Tops, next, prev, child) /\ \A r \in Trees : next[r] = Null
      /\ nodes \subseteq Node /\ child \in [Node -> Link]
      /\ Calls /\ m \in Nat /\ m <= NestingLimit + 1 /\ Trees \subseteq Tops
  BY ParseForest
<1>2. /\ m > 1 /\ prev' = [prev EXCEPT ![o] = c] /\ child' = [child EXCEPT ![p] = o]
      /\ ReturnWith("after") /\ nodes' = nodes /\ next' = next /\ roots' = roots
  BY DEF EndList, call
<1>3. n \in Nat \ {0} /\ m = n + 1 /\ n \in 1 .. m
  BY <1>1, <1>2, OneLess
<1>4. CallsKept(n) /\ parse'[n].pc = "after"
  BY <1>2, ReturnWithKeeps
<1> HIDE DEF n, m
<1>5. /\ m \in 2 .. m /\ m \in 1 .. m /\ n # m /\ n + 1 .. m = {m} /\ m - 1 = n
      /\ 2 .. n \subseteq 2 .. m /\ 2 .. n \subseteq 1 .. m /\ m # 1
      /\ \A i \in 2 .. n : i - 1 \in 1 .. m /\ i - 1 # n
  BY <1>3
<1>6. /\ p = ParsedBy(n) /\ child[p] = Null /\ o \notin Trees /\ o \in Tops
      /\ c \in From(o, next, next) /\ next[c] = Null
  <2>1. o \in Tops
    BY <1>5 DEF Tops, m
  <2> QED
    BY <1>1, <1>5, <2>1 DEF Calls, List, m
<1>7. /\ p \in nodes /\ p \in From(ListTop(n), next, next)
      /\ ListTop(n) \in Tops /\ ListTop(n) # o
  <2>1. ListTop(m) = o
    BY <1>5 DEF ListTop
  <2> QED
    BY <1>3, <1>5, <1>6, <2>1, CallFacts DEF m
<1>8. p \in From(ListTop(n), next, child)
  <2>1. /\ next \in [Node -> Link] /\ child \in [Node -> Link] /\ ListTop(n) \in Link
        /\ ListTop(n) # Null
    BY <1>1, <1>7, ForestFacts DEF Link
  <2>2. /\ From(ListTop(n), next, child) \in SUBSET Node
        /\ Closed(From(ListTop(n), next, child), next, child)
        /\ ListTop(n) \in From(ListTop(n), next, child)
    BY <2>1, FromClosed
  <2> QED
    BY <1>7, <2>2, ListInClosed
<1>9. Forest(nodes, Tops \ {o}, next, prev', child')
  BY <1>1, <1>2, <1>6, <1>7, <1>8, ForestHang
<1>10. Trees' = Trees /\ Tops' = Tops \ {o}
  <2>1. {parse[i].first : i \in n + 1 .. m} = {o}
    BY <1>5
  <2> QED
    BY <1>2, <1>3, <1>4, <2>1, KeptSets DEF m
<1>11. Calls'
  <2>1. ASSUME NEW i \in 2 .. n
        PROVE  /\ child'[parse[i].item] = Null
               /\ parse[i].current \in From(parse[i].first, next', next')
               /\ next'[parse[i].current] = Null
    <3>1. i \in 2 .. m /\ i - 1 \in 1 .. m /\ n \in 1 .. m /\ i - 1 # n
      BY <1>3, <1>5
    <3>2. /\ parse[i].item = ParsedBy(i - 1) /\ child[parse[i].item] = Null
          /\ parse[i].current \in From(parse[i].first, next, next)
          /\ next[parse[i].current] = Null
      BY <1>1, <3>1 DEF Calls, List, m
    <3>3. ParsedBy(i - 1) # ParsedBy(n) /\ ParsedBy(i - 1) \in nodes
      BY <3>1, CallFacts DEF m
    <3>4. child'[parse[i].item] = child[parse[i].item]
      BY <1>1, <1>2, <1>6, <3>2, <3>3
    <3> QED
      BY <1>2, <3>2, <3>4
  <2>2. parse'[n].pc # "value"
    BY <1>4
  <2> QED
    BY <1>2, <1>3, <1>4, <2>1, <2>2, KeptCalls DEF m
<1>12. parse' \in Seq(ParseCall) /\ Len(parse') <= NestingLimit + 1
  BY <1>1, <1>3, <1>4, JsonAssumption DEF CallsKept
<1> QED
  BY <1>1, <1>2, <1>9, <1>10, <1>11, <1>12, ParseAgain

\* So they do when they fail and delete their list (cJSON.c:1588-1594).
LEMMA AfterFailList ==
    ASSUME JsonInv, FailList
    PROVE  JsonInv'
<1> DEFINE m == Len(parse)  n == Len(parse) - 1  o == parse[m].first
           G == From(o, next, child)
<1>1. /\ Forest(nodes, Tops, next, prev, child) /\ \A r \in Trees : next[r] = Null
      /\ nodes \subseteq Node /\ Tops \subseteq nodes
      /\ next \in [Node -> Link] /\ child \in [Node -> Link]
      /\ Calls /\ m \in Nat /\ m <= NestingLimit + 1 /\ Trees \subseteq Tops
  BY ParseForest
<1>2. /\ m > 1 /\ ReturnWith("failed") /\ roots' = roots /\ nodes' = nodes \ G
      /\ next' = Freed(next, G) /\ prev' = Freed(prev, G) /\ child' = Freed(child, G)
  BY DEF FailList, call, Free, Deleted
<1>3. n \in Nat \ {0} /\ m = n + 1 /\ n \in 1 .. m
  BY <1>1, <1>2, OneLess
<1>4. CallsKept(n) /\ parse'[n].pc = "failed"
  BY <1>2, ReturnWithKeeps
<1> HIDE DEF n, m
<1>5. /\ m \in 2 .. m /\ m \in 1 .. m /\ n # m /\ n + 1 .. m = {m} /\ m - 1 = n /\ m # 1
      /\ 2 .. n \subseteq 2 .. m /\ 2 .. n \subseteq 1 .. m /\ m \notin 2 .. n
      /\ \A i \in 2 .. n : i - 1 \in 1 .. m
  BY <1>3
<1>6. o \in Tops /\ o \notin Trees
  <2>1. o \in Tops
    BY <1>5 DEF Tops, m
  <2> QED
    BY <1>1, <1>5, <2>1 DEF Calls, m
<1>7. Forest(nodes, Tops, next, prev, child)
  BY <1>1
<1> HIDE DEF o
<1>8. /\ Forest(nodes \ G, Tops \ {o}, Freed(next, G), Freed(prev, G), Freed(child, G))
       /\ G \subseteq nodes /\ (Tops \ {o}) \cap G = {} /\ Kept(Tops \ {o}, next, Freed(next, G))
  BY <1>6, <1>7, ForestFree
<1>9. Forest(nodes', Tops \ {o}, next', prev', child')
  BY <1>2, <1>8
<1>10. Kept(Tops \ {o}, next, next')
  BY <1>2, <1>8
<1>11. Trees' = Trees /\ Tops' = Tops \ {o}
  <2>1. {parse[i].first : i \in n + 1 .. m} = {o}
    BY <1>5 DEF o
  <2> QED
    BY <1>2, <1>3, <1>4, <2>1, KeptSets DEF m
<1>12. Calls'
  <2>1. ASSUME NEW i \in 2 .. n
        PROVE  /\ child'[parse[i].item] = Null
               /\ parse[i].current \in From(parse[i].first, next', next')
               /\ next'[parse[i].current] = Null
    <3>1. i \in 2 .. m /\ i - 1 \in 1 .. m /\ i # m
      BY <1>3, <1>5
    <3>2. /\ parse[i].item = ParsedBy(i - 1) /\ child[parse[i].item] = Null
          /\ parse[i].current \in From(parse[i].first, next, next)
          /\ next[parse[i].current] = Null
      BY <1>1, <3>1 DEF Calls, List, m
    <3>3. ParsedBy(i - 1) \in Node
      BY <1>1, <3>1, CallFacts DEF m
    <3>4. child'[parse[i].item] = Null
      BY <1>2, <3>2, <3>3 DEF Freed
    <3>5. parse[i].first \in Tops \ {o}
      <4>1. parse[i].first \in Tops
        BY <3>1 DEF Tops, m
      <4>2. parse[i].first # o
        BY <1>1, <1>5, <3>1 DEF Calls, o, m
      <4> QED
        BY <4>1, <4>2
    <3>6. parse[i].first \in Node \ G
      BY <1>1, <1>8, <3>5
    <3>7. /\ From(parse[i].first, next, next) \subseteq From(parse[i].first, next', next')
          /\ From(parse[i].first, next, next) \cap G = {}
      BY <1>2, <1>6, <1>7, <3>6, FreedLists
    <3>8. parse[i].current \in Node \ G
      <4>1. parse[i].first \in Link
        BY <3>6 DEF Link
      <4>2. From(parse[i].first, next, next) \subseteq Node
        BY <1>1, <4>1, FromClosed
      <4> QED
        BY <3>2, <3>7, <4>2
    <3>9. next'[parse[i].current] = Null
      BY <1>2, <3>2, <3>8 DEF Freed
    <3> QED
      BY <3>2, <3>4, <3>7, <3>9
  <2>2. parse'[n].pc # "value"
    BY <1>4
  <2> QED
    BY <1>2, <1>3, <1>4, <2>1, <2>2, KeptCalls DEF m
<1>13. parse' \in Seq(ParseCall) /\ Len(parse') <= NestingLimit + 1
  BY <1>1, <1>3, <1>4, JsonAssumption DEF CallsKept
<1>14. \A r \in Trees' : next'[r] = Null
  BY <1>1, <1>6, <1>10, <1>11 DEF Kept
<1> QED
  BY <1>9, <1>11, <1>12, <1>13, <1>14, ParseAgain

\* So does cJSON_ParseWithLengthOpts as it ends, with a tree or with nothing
\* (cJSON.c:1049-1103).
LEMMA AfterEndParse ==
    ASSUME JsonInv, EndParse
    PROVE  JsonInv'
<1> DEFINE o == parse[1].item
<1>1. /\ Forest(nodes, Tops, next, prev, child) /\ \A r \in Trees : next[r] = Null /\ Calls
      /\ Len(parse) = 1 /\ parse' = <<>>
  BY ParseForest DEF EndParse
<1>2. Trees = roots \cup {o} /\ Tops = roots \cup {o} /\ o \notin roots
  <2>1. {1} \cap (1 .. Len(parse)) = {1} /\ 2 .. Len(parse) = {} /\ 1 \in 1 .. Len(parse)
    BY <1>1
  <2> QED
    BY <1>1, <2>1 DEF Trees, Tops, Calls
<1>3. CASE call.pc = "after"
  <2>1. roots' = roots \cup {o} /\ nodes' = nodes /\ next' = next /\ prev' = prev /\ child' = child
    BY <1>1, <1>3 DEF EndParse, call, treeVars
  <2> QED
    BY <1>1, <1>2, <2>1, QuietAgain
<1>4. CASE call.pc # "after"
  <2>1. Free(Deleted(o, next, child), next, prev, child) /\ roots' = roots
    BY <1>1, <1>4 DEF EndParse, call
  <2>2. Forest(nodes, roots \cup {o}, next, prev, child) /\ \A r \in roots : next[r] = Null
    BY <1>1, <1>2
  <2> QED
    BY <1>1, <1>2, <2>1, <2>2, FreedAgain
<1> QED
  BY <1>3, <1>4

\* So does the next item of a list, whether its name can be parsed or not
\* (cJSON.c:1524-1569).
LEMMA AfterNextItem ==
    ASSUME JsonInv, NextItem
    PROVE  JsonInv'
<1>1. PICK m \in Nat : m = Len(parse)
  BY ParseForest
<1>2. /\ Forest(nodes, Tops, next, prev, child) /\ \A r \in Trees : next[r] = Null
      /\ nodes \subseteq Node /\ Tops \subseteq nodes /\ Trees \subseteq Tops
      /\ \A k \in Node \ nodes : next[k] = Null /\ prev[k] = Null /\ child[k] = Null
      /\ next \in [Node -> Link] /\ child \in [Node -> Link]
      /\ Calls /\ parse \in Seq(ParseCall) /\ m <= NestingLimit + 1
  BY <1>1, ParseForest
<1>3. PICK o, c : o = parse[m].first /\ c = parse[m].current
  OBVIOUS
<1>4. PICK n \in Node \ nodes :
        /\ nodes' = nodes \cup {n}
        /\ next' = [next EXCEPT ![c] = n] /\ prev' = [prev EXCEPT ![n] = c]
        /\ parse' \in {[parse EXCEPT ![Len(parse)].current = n, ![Len(parse)].pc = pc] :
                         pc \in {"value", "failed"}}
  BY <1>1, <1>3 DEF NextItem, call
<1>5. m > 1 /\ child' = child /\ roots' = roots
  BY <1>1 DEF NextItem
<1>6. PICK pc \in {"value", "failed"} :
        parse' = [parse EXCEPT ![m].current = n, ![m].pc = pc]
  BY <1>1, <1>4
<1>7. /\ m \in 1 .. m /\ m \in 2 .. m /\ 1 \in 1 .. m /\ m # 1 /\ 2 .. m \subseteq 1 .. m
      /\ \A i \in 2 .. m : i - 1 \in 1 .. m /\ i - 1 # m
  BY <1>5
<1>8. \A i \in 1 .. m : parse[i] \in ParseCall
  BY <1>1, <1>2
<1>9. PICK s : s = [parse EXCEPT ![m].current = n]
  OBVIOUS
<1>10. s \in Seq(ParseCall) /\ Len(s) = m
       /\ \A i \in 1 .. m : s[i] = IF i = m THEN [parse[i] EXCEPT !.current = n] ELSE parse[i]
  <2>1. [parse[m] EXCEPT !.current = n] \in ParseCall
    BY <1>7, <1>8 DEF ParseCall, Link
  <2> QED
    BY <1>1, <1>2, <1>7, <1>9, <2>1
<1>11. parse' \in Seq(ParseCall) /\ Len(parse') = m
       /\ \A i \in 1 .. m : parse'[i] = IF i = m THEN [s[i] EXCEPT !.pc = pc] ELSE s[i]
  <2>1. parse' = [s EXCEPT ![m].pc = pc]
    BY <1>6, <1>9
  <2>2. s[m] \in ParseCall
    BY <1>7, <1>10
  <2>3. [s[m] EXCEPT !.pc = pc] \in ParseCall
    BY <2>2 DEF ParseCall
  <2> QED
    BY <1>1, <1>7, <1>10, <2>1, <2>3
<1>12. \A i \in 1 .. m : parse'[i].item = parse[i].item /\ parse'[i].first = parse[i].first
  BY <1>8, <1>10, <1>11 DEF ParseCall
<1>13. parse'[m].current = n /\ \A i \in 1 .. m : i # m => parse'[i].current = parse[i].current
  BY <1>7, <1>8, <1>10, <1>11 DEF ParseCall
<1>14. Trees' = Trees
  BY <1>1, <1>5, <1>7, <1>11, <1>12 DEF Trees
<1>15. Tops' = Tops
  <2>1. \A i \in 2 .. m : parse'[i].first = parse[i].first
    BY <1>7, <1>12
  <2>2. {parse'[i].first : i \in 2 .. m} = {parse[i].first : i \in 2 .. m}
    BY <2>1
  <2> QED
    BY <1>1, <1>11, <1>14, <2>2 DEF Tops
<1>16. /\ o \in Tops /\ o \notin Trees /\ c \in From(o, next, next) /\ next[c] = Null
  <2>1. o \in Tops
    BY <1>1, <1>3, <1>7 DEF Tops
  <2> QED
    BY <1>1, <1>2, <1>3, <1>7, <2>1 DEF Calls, List
<1>17. /\ Forest(nodes \cup {n}, Tops, next', prev', child)
       /\ n \in From(o, next', next') /\ Kept(Tops \ {o}, next, next')
  <2>1. Forest(nodes, Tops, next, prev, child)
    BY <1>2
  <2>2. /\ n \in Node \ nodes /\ c \in From(o, next, next) /\ o \in Tops /\ next[c] = Null
        /\ next' = Put(next, c, n) /\ prev' = Put(prev, n, c)
    BY <1>4, <1>16 DEF Put
  <2> QED
    BY <2>1, <2>2, ForestNext
<1>18. \A q : From(q, next, next) \subseteq From(q, next', next')
  BY <1>2, <1>4, <1>16, ListsGrow
<1>19. c \in Node
  <2>1. o \in Link
    BY <1>2, <1>16 DEF Link
  <2> QED
    BY <1>2, <1>16, <2>1, FromClosed
<1>20. next'[n] = Null /\ child[n] = Null /\ \A k \in Node : k # c => next'[k] = next[k]
  <2>1. next[n] = Null /\ child[n] = Null
    BY <1>2
  <2>2. c \in nodes
    BY <1>2, <1>16, ListInClosed, ForestFacts
  <2> QED
    BY <1>2, <1>4, <2>1, <2>2
<1>21. ParsedBy(m) = c
  BY <1>3, <1>7 DEF ParsedBy
<1>22. \A i \in 1 .. m : i # m => ParsedBy(i)' = ParsedBy(i)
  BY <1>7, <1>12, <1>13 DEF ParsedBy
<1>23. ASSUME NEW i \in 2 .. m
       PROVE  /\ parse'[i].item = ParsedBy(i - 1)' /\ child'[parse'[i].item] = Null
              /\ parse'[i].first \notin Trees'
              /\ \A j \in 2 .. m : parse'[j].first = parse'[i].first => j = i
              /\ parse'[i].current \in From(parse'[i].first, next', next')
              /\ next'[parse'[i].current] = Null
  <2>1. /\ parse[i].item = ParsedBy(i - 1) /\ child[parse[i].item] = Null
        /\ parse[i].first \notin Trees
        /\ \A j \in 2 .. m : parse[j].first = parse[i].first => j = i
        /\ parse[i].current \in From(parse[i].first, next, next)
        /\ next[parse[i].current] = Null
    BY <1>1, <1>2 DEF Calls, List
  <2>2. parse'[i].item = ParsedBy(i - 1)' /\ child'[parse'[i].item] = Null
    BY <1>5, <1>7, <1>12, <1>22, <2>1
  <2>3. parse'[i].first = parse[i].first /\ \A j \in 2 .. m : parse'[j].first = parse[j].first
    BY <1>7, <1>12
  <2>4. /\ parse'[i].first \notin Trees'
        /\ \A j \in 2 .. m : parse'[j].first = parse'[i].first => j = i
    BY <1>14, <2>1, <2>3
  <2>5. CASE i = m
    BY <1>3, <1>13, <1>17, <1>20, <2>2, <2>3, <2>4, <2>5
  <2>6. CASE i # m
    <3>1. parse'[i].current = parse[i].current /\ i \in 1 .. m
      BY <1>7, <1>13, <2>6
    <3>2. parse[i].current # c /\ parse[i].current \in Node
      <4>1. ParsedBy(i) = parse[i].current
        BY DEF ParsedBy
      <4> QED
        BY <1>1, <1>2, <1>7, <1>21, <2>6, <3>1, <4>1, CallFacts
    <3>3. next'[parse'[i].current] = Null
      BY <1>20, <2>1, <3>1, <3>2
    <3>4. parse'[i].current \in From(parse'[i].first, next', next')
      BY <1>18, <2>1, <2>3, <3>1
    <3> QED
      BY <2>2, <2>4, <3>3, <3>4
  <2> QED
    BY <2>5, <2>6
<1>24. parse'[1].item \notin roots'
  BY <1>1, <1>2, <1>5, <1>7, <1>12 DEF Calls
<1>25. Parsed' = n
  BY <1>7, <1>11, <1>13 DEF Parsed, call
<1>26. Calls'
  <2>1. child'[Parsed'] = Null
    BY <1>5, <1>20, <1>25
  <2> QED
    BY <1>11, <1>23, <1>24, <2>1 DEF Calls, List
<1>27. \A r \in Trees' : next'[r] = Null
  BY <1>2, <1>14, <1>16, <1>17 DEF Kept
<1> QED
  BY <1>2, <1>4, <1>5, <1>11, <1>15, <1>17, <1>26, <1>27, ParseAgain

-----------------------------------------------------------------------------
\* Before anything is allocated.
LEMMA JsonStart == JsonInit => JsonInv
<1>1. SUFFICES ASSUME JsonInit
               PROVE  JsonInv
  OBVIOUS
<1>2. /\ nodes = {} /\ roots = {} /\ parse = <<>> /\ Len(parse) = 0
      /\ next = NullLinks /\ prev = NullLinks /\ child = NullLinks
  BY <1>1 DEF JsonInit
<1>3. NullLinks \in [Node -> {} \cup {Null}] /\ \A n \in Node : NullLinks[n] = Null
  BY DEF NullLinks
<1>4. Trees = {} /\ Tops = {}
  BY <1>2 DEF Trees, Tops
<1>5. Pointers({}, next, prev, child)
  BY <1>2, <1>3 DEF Pointers
<1>6. OneWay(next, child) /\ NoWay({}, next, child)
  BY <1>2, <1>3 DEF OneWay, NoWay
<1>7. Covered({}, {}, next, child) /\ WaysBack({}, next, prev, child)
  BY <1>2, <1>3 DEF Covered, WaysBack
<1>8. Forest(nodes, Tops, next, prev, child)
  BY <1>2, <1>4, <1>5, <1>6, <1>7 DEF Forest
<1>9. Calls
  BY <1>2 DEF Calls, parsing
<1>10. JsonTypeOK
  <2>1. next \in [Node -> Link] /\ prev \in [Node -> Link] /\ child \in [Node -> Link]
    BY <1>2, <1>3 DEF Link, NullLinks
  <2> QED
    BY <1>2, <2>1, JsonAssumption DEF JsonTypeOK
<1> QED
  BY <1>4, <1>8, <1>9, <1>10 DEF JsonInv

\* Every operation and every step of the parser keeps the forest.
LEMMA JsonStep == JsonInv /\ [JsonNext]_jsonVars => JsonInv'
<1>1. SUFFICES ASSUME JsonInv, [JsonNext]_jsonVars
               PROVE  JsonInv'
  OBVIOUS
<1>2. CASE StartParse
  BY <1>1, <1>2, AfterStartParse
<1>3. CASE ParseScalar
  <2>1. parse # <<>> /\ (GoOn("after") \/ GoOn("failed")) /\ UNCHANGED <<treeVars, roots>>
    BY <1>3 DEF ParseScalar, parsing
  <2> QED
    BY <1>1, <2>1, AfterGoOn
<1>4. CASE ParseList
  BY <1>1, <1>4, AfterParseList
<1>5. CASE NextItem
  BY <1>1, <1>5, AfterNextItem
<1>6. CASE ParseFails
  <2>1. parse # <<>> /\ GoOn("failed") /\ UNCHANGED <<treeVars, roots>>
    BY <1>6 DEF ParseFails, parsing
  <2> QED
    BY <1>1, <2>1, AfterGoOn
<1>7. CASE EndList
  BY <1>1, <1>7, AfterEndList
<1>8. CASE FailList
  BY <1>1, <1>8, AfterFailList
<1>9. CASE EndParse
  BY <1>1, <1>9, AfterEndParse
<1>10. CASE Create
  BY <1>1, <1>10, AfterCreate
<1>11. CASE CreateFilledArray
  BY <1>1, <1>11, AfterCreateFilledArray
<1>12. roots \subseteq nodes /\ \A parent \in nodes : Children(parent) \subseteq nodes
  <2>1. Forest(nodes, Tops, next, prev, child)
    BY <1>1 DEF JsonInv
  <2>2. nodes \subseteq Node /\ Closed(nodes, next, child)
    BY <2>1, ForestFacts
  <2>3. ASSUME NEW parent \in nodes PROVE Children(parent) \subseteq nodes
    <3>1. child[parent] \in nodes \cup {Null}
      BY <2>2 DEF Closed
    <3> QED
      BY <2>2, <3>1, ListInClosed DEF Children, List
  <2> QED
    BY <1>1, <2>3 DEF JsonInv, JsonTypeOK
<1>13. ASSUME NEW parent \in nodes, NEW item \in roots, AddItem(parent, item)
       PROVE  JsonInv'
  BY <1>1, <1>12, <1>13, AfterAddItem
<1>14. ASSUME NEW parent \in nodes, NEW old \in Children(parent),
              DetachItem(parent, old) \/ DeleteItem(parent, old)
       PROVE  JsonInv'
  <2>1. old \in nodes
    BY <1>12, <1>14
  <2> QED
    BY <1>1, <1>14, <2>1, AfterDetachItem, AfterDeleteItem
<1>15. ASSUME NEW parent \in nodes, NEW old \in Children(parent), NEW item \in roots,
              InsertItem(parent, old, item)
       PROVE  JsonInv'
  <2>1. old \in nodes /\ item \in nodes
    BY <1>12, <1>15
  <2> QED
    BY <1>1, <1>15, <2>1, AfterInsertItem
<1>16. ASSUME NEW parent \in nodes, NEW old \in Children(parent), NEW item \in roots,
              ReplaceItem(parent, old, item)
       PROVE  JsonInv'
  <2>1. old \in nodes /\ item \in nodes
    BY <1>12, <1>16
  <2> QED
    BY <1>1, <1>16, <2>1, AfterReplaceItem
<1>17. ASSUME NEW root \in nodes, AddNew(root)
       PROVE  JsonInv'
  BY <1>1, <1>17, AfterAddNew
<1>18. ASSUME NEW root \in nodes, Duplicate(root)
       PROVE  JsonInv'
  BY <1>1, <1>18, AfterDuplicate
<1>19. ASSUME NEW root \in nodes, Delete(root)
       PROVE  JsonInv'
  BY <1>1, <1>19, AfterDelete
<1>20. CASE UNCHANGED jsonVars
  BY <1>1, <1>20 DEF jsonVars, JsonInv, JsonTypeOK, Tops, Trees, Calls, ParsedBy, List, parsing,
                     Parsed, call
<1> QED
  BY <1>1, <1>2, <1>3, <1>4, <1>5, <1>6, <1>7, <1>8, <1>9, <1>10, <1>11, <1>13, <1>14,
     <1>15, <1>16, <1>17, <1>18, <1>19, <1>20 DEF JsonNext

\* What the forest of tops means for the owners that a reader sees.
LEMMA ForestIntact == JsonInv => TreeIntact
<1>1. SUFFICES ASSUME JsonInv
               PROVE  TreeIntact
  OBVIOUS
<1>2. /\ Forest(nodes, Tops, next, prev, child)
      /\ nodes \subseteq Node /\ Tops \subseteq nodes /\ roots \subseteq Trees /\ Trees \subseteq Tops
      /\ next \in [Node -> Link] /\ \A r \in Trees : next[r] = Null
      /\ Calls /\ Len(parse) \in Nat
  BY <1>1, ParseForest
<1>3. \A q \in nodes : Below(q) \subseteq nodes /\ Reach(q) \subseteq nodes
  BY <1>2, BelowInReach
<1>4. Owners \subseteq nodes /\ ParserOwned \subseteq nodes
  <2>1. ASSUME NEW i \in 1 .. Len(parse)
        PROVE  parse[i].item \in nodes
    <3>1. CASE i = 1
      BY <1>2, <3>1 DEF Trees
    <3>2. CASE i # 1
      <4>1. i \in 2 .. Len(parse) /\ i - 1 \in 1 .. Len(parse)
        BY <1>2, <3>2
      <4> QED
        BY <1>1, <1>2, <4>1, CallFacts DEF Calls
    <3> QED
      BY <3>1, <3>2
  <2>2. \A i \in 2 .. Len(parse) : parse[i].first \in nodes
    BY <1>2 DEF Tops
  <2> QED
    BY <1>2, <2>1, <2>2 DEF Owners, ParserOwned
<1>5. Tops \subseteq roots \cup ParserOwned
  BY DEF Tops, Trees, ParserOwned
<1>6. nodes = (UNION {Below(n) : n \in Owners}) \cup UNION {Reach(n) : n \in ParserOwned}
  <2>1. nodes = UNION {From(o, next, child) : o \in Tops}
    BY <1>2, InSomeTree
  <2>2. \A r \in roots : From(r, next, child) = Below(r)
    BY <1>2, BelowInReach
  <2>3. \A o \in Tops : From(o, next, child) = Reach(o)
    BY DEF Reach
  <2>4. nodes \subseteq (UNION {Below(n) : n \in Owners}) \cup UNION {Reach(n) : n \in ParserOwned}
    BY <1>5, <2>1, <2>2, <2>3 DEF Owners
  <2> QED
    BY <1>3, <1>4, <2>4
<1>7. ASSUME NEW n \in nodes
      PROVE  /\ {next[n], prev[n], child[n]} \subseteq nodes \cup {Null}
             /\ WellLinked(n)
             /\ \A q \in nodes : q # n => Children(q) \cap Children(n) = {}
  <2>1. n \in Node
    BY <1>2
  <2>2. {next[n], prev[n], child[n]} \subseteq nodes \cup {Null}
    BY <1>2, <2>1 DEF Forest, Pointers
  <2>3. WellLinked(n)
    <3>1. SUFFICES ASSUME child[n] # Null
                   PROVE  /\ prev[child[n]] \in Children(n) /\ next[prev[child[n]]] = Null
                          /\ \A m \in Children(n) : next[m] # Null => prev[next[m]] = m
      BY DEF WellLinked
    <3>2. prev[child[n]] \in Children(n) /\ next[prev[child[n]]] = Null
      BY <1>2, <2>1, <3>1 DEF Forest, WaysBack, Children, List
    <3>3. Children(n) \subseteq Node
      <4>1. child[n] \in Link
        BY <1>2, <2>2 DEF Link
      <4> QED
        BY <1>2, <4>1, FromClosed DEF Children, List
    <3>4. \A m \in Node : next[m] # Null => prev[next[m]] = m
      BY <1>2 DEF Forest, WaysBack
    <3> QED
      BY <3>2, <3>3, <3>4
  <2>4. \A q \in nodes : q # n => Children(q) \cap Children(n) = {}
    BY <1>2, <2>1, ListsApart DEF Children, List
  <2> QED
    BY <2>2, <2>3, <2>4
<1>8. ASSUME NEW r \in roots
      PROVE  /\ next[r] = Null
             /\ \A n \in nodes : r \notin Children(n)
             /\ \A q \in roots : q # r => Below(q) \cap Below(r) = {}
  <2>1. r \in Tops /\ r \in nodes /\ next[r] = Null
    BY <1>2
  <2>2. r \in From(r, next, next)
    BY <1>2, <2>1, FromClosed, NodesAreNotNull DEF Link
  <2>3. \A n \in nodes : Children(n) \cap From(r, next, next) = {}
    BY <1>2, <2>1, ListsApart DEF Children, List
  <2>4. ASSUME NEW q \in roots, q # r
        PROVE  Below(q) \cap Below(r) = {}
    <3>1. From(q, next, child) \cap From(r, next, child) = {}
      BY <1>2, <2>1, <2>4, TreesApart
    <3>2. Below(q) \subseteq From(q, next, child) /\ Below(r) \subseteq From(r, next, child)
      BY <1>2, <2>1, <2>4, BelowInReach
    <3> QED
      BY <3>1, <3>2
  <2> QED
    BY <2>1, <2>2, <2>3, <2>4
<1> QED
  BY <1>6, <1>7, <1>8 DEF TreeIntact

\* Every pointer is to an item that the library can have allocated, the client holds
\* only items that are allocated, and the calls of the parser nest no deeper than
\* CJSON_NESTING_LIMIT (cJSON.c:1359-1361, 1500-1502).
THEOREM JsonTypesRespected == JsonSpec => []JsonTypeOK
<1>1. JsonInv => JsonTypeOK
  BY DEF JsonInv
<1> QED
  BY JsonStart, JsonStep, <1>1, PTL DEF JsonSpec

\* Whatever fails while a text is parsed, and however trees are put together and
\* taken apart, every item belongs to exactly one tree or to the parser.
THEOREM TreesIntact == JsonSpec => []TreeIntact
<1> QED
  BY JsonStart, JsonStep, ForestIntact, PTL DEF JsonSpec
=============================================================================
