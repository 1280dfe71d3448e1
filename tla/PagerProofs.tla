----------------------------- MODULE PagerProofs -----------------------------
(***************************************************************************)
(* Theorems about the two loops that send requests until something is the  *)
(* case: Pager, for collections and pages of every size, any set of hidden *)
(* items and any number of changes by other users; and Polling, for every  *)
(* set of statuses, every lifecycle of a resource and every set of waits,  *)
(* whether or not the service answers.                                     *)
(***************************************************************************)
EXTENDS Pager, Polling, FiniteSetTheorems, TLAPS

Hows == [call : {"EachPage", "AllPages"}, kind : {"marker", "linked", "single"}, shape : Shapes]

LEMMA ItemTypes ==
  /\ Items \subseteq Nat /\ IsFiniteSet(Items) /\ 0 \notin Items
  /\ \A x, y \in Items : x <= y \/ y < x
  BY PagerAssumption, FS_Interval DEF Items

LEMMA MarkersAreNatural == \A m \in {0} \cup Items : m \in Nat
  BY ItemTypes

-----------------------------------------------------------------------------
(* The order of the items. *)

(* Of the sets of items up to some item, one has no other below it. *)
LEMMA HasFirst ==
  ASSUME NEW S \in SUBSET Items, S # {}
  PROVE  \E x \in S : \A y \in S : x <= y
<1> DEFINE Below(x) == {y \in S : y <= x}
           T == {Below(x) : x \in S}
<1>1. IsFiniteSet(S) /\ S \subseteq Nat
  BY ItemTypes, FS_Subset
<1>2. T \subseteq FiniteSubsetsOf(S) /\ T # {}
  <2>1. FiniteSubsetsOf(S) = SUBSET S
    BY <1>1, FS_FiniteSubsetsOfFinite
  <2>2. T \subseteq SUBSET S /\ T # {}
    OBVIOUS
  <2> QED
    BY <2>1, <2>2
<1>3. PICK t \in T : \A u \in T : ~(<<u, t>> \in StrictSubsetOrdering(S))
  BY <1>2, FS_StrictSubsetOrderingWellFounded, WFMin
<1>4. PICK x \in S : t = Below(x)
  BY <1>3
<1>5. ASSUME NEW y \in S, ~(x <= y) PROVE FALSE
  <2>1. x \in Nat /\ y \in Nat /\ y < x
    BY <1>1, <1>5
  <2>2. ASSUME NEW z \in S, z <= y PROVE z <= x
    <3>1. z \in Nat
      BY <1>1
    <3> QED
      BY <2>1, <2>2, <3>1
  <2>3. x \in Below(x) /\ x \notin Below(y)
    BY <2>1
  <2>4. <<Below(y), Below(x)>> \in StrictSubsetOrdering(S)
    BY <2>2, <2>3 DEF StrictSubsetOrdering
  <2> QED
    BY <1>3, <1>4, <2>4
<1> QED
  BY <1>5

LEMMA HasLast ==
  ASSUME NEW S \in SUBSET Items, S # {}
  PROVE  Last(S) \in S /\ \A y \in S : y <= Last(S)
<1> DEFINE Above(x) == {y \in S : x <= y}
           T == {Above(x) : x \in S}
<1>1. IsFiniteSet(S) /\ S \subseteq Nat
  BY ItemTypes, FS_Subset
<1>2. T \subseteq FiniteSubsetsOf(S) /\ T # {}
  <2>1. FiniteSubsetsOf(S) = SUBSET S
    BY <1>1, FS_FiniteSubsetsOfFinite
  <2>2. T \subseteq SUBSET S /\ T # {}
    OBVIOUS
  <2> QED
    BY <2>1, <2>2
<1>3. PICK t \in T : \A u \in T : ~(<<u, t>> \in StrictSubsetOrdering(S))
  BY <1>2, FS_StrictSubsetOrderingWellFounded, WFMin
<1>4. PICK x \in S : t = Above(x)
  BY <1>3
<1>5. ASSUME NEW y \in S, ~(y <= x) PROVE FALSE
  <2>1. x \in Nat /\ y \in Nat /\ x < y
    BY <1>1, <1>5
  <2>2. ASSUME NEW z \in S, y <= z PROVE x <= z
    <3>1. z \in Nat
      BY <1>1
    <3> QED
      BY <2>1, <2>2, <3>1
  <2>3. x \in Above(x) /\ x \notin Above(y)
    BY <2>1
  <2>4. <<Above(y), Above(x)>> \in StrictSubsetOrdering(S)
    BY <2>2, <2>3 DEF StrictSubsetOrdering
  <2> QED
    BY <1>3, <1>4, <2>4
<1>6. \E z \in S : \A y \in S : y <= z
  BY <1>5
<1> QED
  BY <1>6, Zenon DEF Last

-----------------------------------------------------------------------------
(* What the service puts on a page. *)

LEMMA CutIsInitial ==
  ASSUME coll \subseteq Items, NEW m \in {0} \cup Items
  PROVE  /\ Cut(m) \subseteq Behind(m) /\ Behind(m) \subseteq Items
         /\ \A x \in Cut(m), y \in Behind(m) : y <= x => y \in Cut(m)
<1>1. Cut(m) \subseteq Behind(m) /\ Behind(m) \subseteq Items
  BY DEF Cut, Behind
<1>2. ASSUME NEW x \in Cut(m), NEW y \in Behind(m), y <= x PROVE y \in Cut(m)
  <2> DEFINE X == {z \in Behind(m) : z <= x}
             Y == {z \in Behind(m) : z <= y}
  <2>1. x \in Nat /\ y \in Nat /\ Behind(m) \subseteq Nat /\ IsFiniteSet(Behind(m))
    BY <1>1, ItemTypes, FS_Subset
  <2>2. Y \subseteq X /\ IsFiniteSet(X)
    BY <1>2, <2>1, FS_Subset
  <2>3. Cardinality(Y) <= Cardinality(X) /\ Cardinality(X) \in Nat /\ Cardinality(Y) \in Nat
    BY <2>2, FS_Subset, FS_CardinalityType
  <2>4. Cardinality(X) <= Limit
    BY DEF Cut
  <2>5. Cardinality(Y) <= Limit
    BY <2>3, <2>4, PagerAssumption
  <2> QED
    BY <2>5 DEF Cut
<1> QED
  BY <1>1, <1>2

(* A page that leaves something behind is full. *)
LEMMA CutIsFull ==
  ASSUME coll \subseteq Items, NEW m \in {0} \cup Items, Cut(m) # Behind(m)
  PROVE  Cardinality(Cut(m)) >= Limit /\ Cut(m) # {}
<1>1. /\ Cut(m) \subseteq Behind(m) /\ Behind(m) \subseteq Items
      /\ \A x \in Cut(m), y \in Behind(m) : y <= x => y \in Cut(m)
  BY CutIsInitial
<1>2. Behind(m) \ Cut(m) \in SUBSET Items /\ Behind(m) \ Cut(m) # {}
  BY <1>1
<1>3. PICK x \in Behind(m) \ Cut(m) : \A y \in Behind(m) \ Cut(m) : x <= y
  BY <1>2, HasFirst
<1>4. {y \in Behind(m) : y <= x} = Cut(m) \cup {x}
  <2>0. x \in Nat /\ Behind(m) \subseteq Nat /\ Cut(m) \subseteq Nat
    BY <1>1, <1>3, ItemTypes
  <2>1. ASSUME NEW y \in Behind(m), y <= x PROVE y \in Cut(m) \cup {x}
    <3>1. y \notin Cut(m) => x <= y
      BY <1>3
    <3> QED
      BY <2>0, <2>1, <3>1
  <2>2. ASSUME NEW y \in Cut(m), ~(y <= x) PROVE FALSE
    <3>1. x <= y
      BY <2>0, <2>2
    <3> QED
      BY <1>1, <1>3, <3>1
  <2> QED
    BY <1>1, <1>3, <2>0, <2>1, <2>2
<1>5. IsFiniteSet(Cut(m))
  BY <1>1, ItemTypes, FS_Subset
<1>6. Cardinality(Cut(m) \cup {x}) = Cardinality(Cut(m)) + 1 /\ Cardinality(Cut(m)) \in Nat
  BY <1>3, <1>5, FS_AddElement, FS_CardinalityType
<1>7. ~(Cardinality(Cut(m) \cup {x}) <= Limit)
  <2>1. ~(Cardinality({y \in Behind(m) : y <= x}) <= Limit)
    BY <1>3 DEF Cut
  <2> QED
    BY <1>4, <2>1
<1>8. Cardinality(Cut(m)) >= Limit
  <2>1. Limit \in Nat
    BY PagerAssumption
  <2> QED
    BY <1>6, <1>7, <2>1
<1>9. Cut(m) # {}
  BY <1>8, FS_EmptySet, PagerAssumption
<1> QED
  BY <1>8, <1>9

(* What a page behind the marker u is good for, also when the collection    *)
(* has changed since.                                                       *)
GoodPage(p, u) ==
  /\ p \in Pages
  /\ \A x \in p.items : x > u
  /\ p.link # 0 => \A x \in p.items : x <= p.link
  /\ \A x \in stable \ Hidden : x > u /\ (p.link = 0 \/ x <= p.link) => x \in p.items
  /\ p.items = {} /\ Cardinality(Hidden) < Limit => p.link = 0
  /\ how.kind = "single" => p.link = 0

LEMMA ServeIsGood ==
  ASSUME coll \subseteq Items, stable \subseteq coll, NEW m \in {0} \cup Items,
         how.kind # "single"
  PROVE  GoodPage(Serve(m), m)
<1>1. /\ Cut(m) \subseteq Behind(m) /\ Behind(m) \subseteq Items
      /\ \A x \in Cut(m), y \in Behind(m) : y <= x => y \in Cut(m)
  BY CutIsInitial
<1>2. CASE Cut(m) = Behind(m)
  <2>1. Serve(m).link = 0 /\ Serve(m).items = Behind(m) \ Hidden
    BY <1>2 DEF Serve
  <2>2. Serve(m) \in Pages
    BY <1>1, <1>2 DEF Serve, Pages
  <2> QED
    BY <2>1, <2>2, ItemTypes DEF GoodPage, Behind
<1>3. CASE Cut(m) # Behind(m)
  <2>1. Cardinality(Cut(m)) >= Limit /\ Cut(m) # {}
    BY <1>3, CutIsFull
  <2>2. Last(Cut(m)) \in Cut(m) /\ \A y \in Cut(m) : y <= Last(Cut(m))
    BY <1>1, <2>1, HasLast
  <2>3. Serve(m).link = Last(Cut(m)) /\ Serve(m).items = Cut(m) \ Hidden
    BY <1>3 DEF Serve
  <2>4. Serve(m) \in Pages /\ Serve(m).link \in Items
    BY <1>1, <2>2, <2>3 DEF Serve, Pages
  <2>5. \A x \in Serve(m).items : x > m
    BY <1>1, <2>3 DEF Behind
  <2>6. \A x \in stable \ Hidden : x > m /\ x <= Last(Cut(m)) => x \in Cut(m) \ Hidden
    BY <1>1, <2>2 DEF Behind
  <2>7. ASSUME Serve(m).items = {} PROVE ~(Cardinality(Hidden) < Limit)
    <3>1. Cut(m) \subseteq Hidden /\ IsFiniteSet(Hidden)
      BY <2>3, <2>7, PagerAssumption, ItemTypes, FS_Subset
    <3>2. /\ Cardinality(Cut(m)) <= Cardinality(Hidden)
          /\ Cardinality(Cut(m)) \in Nat /\ Cardinality(Hidden) \in Nat
      BY <3>1, FS_Subset, FS_CardinalityType
    <3> QED
      BY <2>1, <3>2, PagerAssumption
  <2>8. Serve(m).link # 0
    BY <2>4, ItemTypes
  <2> QED
    BY <2>2, <2>3, <2>4, <2>5, <2>6, <2>7, <2>8 DEF GoodPage
<1> QED
  BY <1>2, <1>3

LEMMA WholeIsGood ==
  ASSUME coll \subseteq Items, stable \subseteq coll
  PROVE  GoodPage(WholeCollection, 0)
<1>1. WholeCollection \in Pages /\ WholeCollection.link = 0
      /\ WholeCollection.items = coll \ Hidden
  BY DEF WholeCollection, Pages
<1>2. \A x \in coll : x > 0
  BY ItemTypes
<1> QED
  BY <1>1, <1>2 DEF GoodPage

LEMMA FetchIsGood ==
  ASSUME coll \subseteq Items, stable \subseteq coll, NEW m \in {0} \cup Items,
         how.kind = "single" => m = 0
  PROVE  GoodPage(FetchNextPage(m), m)
  BY ServeIsGood, WholeIsGood DEF FetchNextPage

-----------------------------------------------------------------------------
(* The inductive invariant. *)

(* Everything up to u has been dealt with, and nothing behind it. *)
Walked(u) ==
  /\ \A x \in listed : x <= u
  /\ key # "other" => \A x \in stable \ Hidden : x <= u => x \in listed

(* The same, with the current page on top of it. *)
WalkedPage ==
  /\ \A x \in listed : x <= url \/ x \in page.items
  /\ key # "other" => \A x \in stable \ Hidden : x <= url \/ x \in page.items => x \in listed

Order ==
  /\ stable \subseteq coll
  /\ pc # "done" => result = "none"
  /\ how.call = "AllPages" /\ key = "none" => pc \in {"first", "done"}
  /\ pc = "first" => listed = {} /\ url = 0 /\ firstPage = NoPage
  /\ firstPage # NoPage => pc = "turn" /\ url = 0 /\ GoodPage(firstPage, 0)
  /\ pc = "turn" => Walked(url) /\ (how.kind = "single" => url = 0)
  /\ pc \in {"look", "visit"} => Walked(url) /\ GoodPage(page, url)
  /\ pc = "next" => WalkedPage /\ GoodPage(page, url)
  /\ pc \in {"visit", "next"} => page.items # {}

IInv == TypeOK /\ Order /\ NoItemTwice /\ StableItemsListed

LEMMA PageTypes ==
  ASSUME NEW p \in Pages
  PROVE  p.items \subseteq Items /\ p.link \in {0} \cup Items /\ p # NoPage
  BY PagerAssumption DEF Pages

LEMMA InitIInv == Init => IInv
<1> SUFFICES ASSUME Init PROVE IInv
  OBVIOUS
<1>1. TypeOK
  BY PagerAssumption DEF Init, TypeOK, Results
<1>2. \A x \in coll : ~(x <= 0)
  BY <1>1, ItemTypes DEF TypeOK
<1>3. Order
  BY <1>2 DEF Init, Order, Walked
<1> QED
  BY <1>1, <1>3 DEF Init, IInv, NoItemTwice, StableItemsListed

(* Other users: what has been fetched stays as good as it was. *)
LEMMA ServiceStep == ASSUME IInv, Create \/ Remove PROVE IInv'
<1>1. /\ pc # "done" /\ writes' \in 0 .. MaxWrites
      /\ UNCHANGED <<how, pc, url, firstPage, page, key, listed, twice, result>>
      /\ coll' \subseteq Items /\ stable' \subseteq stable /\ stable' \subseteq coll'
  <2>1. CASE Create
    BY <2>1, PagerAssumption DEF Create, IInv, TypeOK, Order
  <2>2. CASE Remove
    BY <2>2, PagerAssumption DEF Remove, IInv, TypeOK, Order
  <2> QED
    BY <2>1, <2>2
<1>2. TypeOK'
  BY <1>1 DEF IInv, TypeOK
<1>3. ASSUME NEW p, NEW u, GoodPage(p, u)
      PROVE  /\ p \in Pages
             /\ \A x \in p.items : x > u
             /\ p.link # 0 => \A x \in p.items : x <= p.link
             /\ \A x \in stable' \ Hidden : x > u /\ (p.link = 0 \/ x <= p.link) => x \in p.items
             /\ p.items = {} /\ Cardinality(Hidden) < Limit => p.link = 0
             /\ how'.kind = "single" => p.link = 0
  BY <1>1, <1>3 DEF GoodPage
<1>4. Order'
  BY <1>1, <1>3 DEF IInv, Order, Walked, WalkedPage, GoodPage
<1>5. NoItemTwice' /\ StableItemsListed'
  BY <1>1 DEF IInv, Order, NoItemTwice, StableItemsListed
<1> QED
  BY <1>2, <1>4, <1>5 DEF IInv

LEMMA FetchFirstStep == ASSUME IInv, FetchFirst PROVE IInv'
<1>1. /\ UNCHANGED <<how, coll, writes, stable, url, page>>
      /\ pc = "first" /\ listed = {} /\ url = 0 /\ firstPage = NoPage /\ twice = {}
      /\ stable \subseteq coll /\ coll \subseteq Items
  BY DEF FetchFirst, service, IInv, Order, NoItemTwice, TypeOK
<1>2. CASE how.kind = "single" /\ Collect(FetchNextPage(0).items) /\ End("ok")
           /\ UNCHANGED <<firstPage, key>>
  <2>1. listed' = coll \ Hidden /\ twice' = {}
    BY <1>1, <1>2 DEF Collect, FetchNextPage, WholeCollection
  <2>2. TypeOK'
    BY <1>1, <1>2, <2>1 DEF IInv, TypeOK, End, Results
  <2>3. Order'
    BY <1>1, <1>2 DEF Order, End
  <2>4. NoItemTwice' /\ StableItemsListed'
    BY <1>1, <2>1 DEF NoItemTwice, StableItemsListed
  <2> QED
    BY <2>2, <2>3, <2>4 DEF IInv
<1>3. CASE how.kind # "single" /\ key' \in Keys[how.shape]
           /\ firstPage' = FetchNextPage(0) /\ pc' = "turn" /\ UNCHANGED <<listed, twice, result>>
  <2>1. GoodPage(firstPage', 0)
    BY <1>1, <1>3, FetchIsGood
  <2>2. key' \in {"items", "absent", "other"}
    BY <1>3 DEF IInv, TypeOK, Keys, Shapes
  <2>3. firstPage' \in Pages /\ firstPage' # NoPage
    BY <2>1, PageTypes DEF GoodPage
  <2>4. TypeOK'
    BY <1>1, <1>3, <2>2, <2>3 DEF IInv, TypeOK
  <2>5. \A x \in stable : ~(x <= 0)
    BY <1>1, ItemTypes
  <2>6. GoodPage(firstPage, 0)'
    BY <1>1, <2>1 DEF GoodPage
  <2>7. Walked(url)'
    BY <1>1, <1>3, <2>5 DEF Walked
  <2>8. Order'
    BY <1>1, <1>3, <2>2, <2>6, <2>7 DEF IInv, Order
  <2>9. NoItemTwice' /\ StableItemsListed'
    BY <1>1, <1>3 DEF IInv, Order, NoItemTwice, StableItemsListed
  <2> QED
    BY <2>4, <2>8, <2>9 DEF IInv
<1>4. CASE End("error") /\ UNCHANGED <<firstPage, key, listed, twice>>
  BY <1>1, <1>4 DEF IInv, TypeOK, Order, NoItemTwice, StableItemsListed, End, Results
<1> QED
  BY <1>2, <1>3, <1>4 DEF FetchFirst

LEMMA TurnStep == ASSUME IInv, Turn PROVE IInv'
<1>1. /\ UNCHANGED <<how, coll, writes, stable, url, key, listed, twice>>
      /\ pc = "turn" /\ Walked(url) /\ (how.kind = "single" => url = 0)
      /\ (how.call = "AllPages" => key # "none")
      /\ stable \subseteq coll /\ coll \subseteq Items /\ url \in {0} \cup Items /\ result = "none"
  BY DEF Turn, service, IInv, Order, TypeOK
<1>2. ASSUME pc' = "look", GoodPage(page', url), firstPage' = NoPage, result' = result PROVE IInv'
  <2>1. page' \in Pages
    BY <1>2 DEF GoodPage
  <2>2. TypeOK'
    BY <1>1, <1>2, <2>1 DEF IInv, TypeOK
  <2>3. GoodPage(page, url)' /\ Walked(url)'
    BY <1>1, <1>2 DEF GoodPage, Walked
  <2>4. Order'
    BY <1>1, <1>2, <2>3 DEF Order
  <2>5. NoItemTwice' /\ StableItemsListed'
    BY <1>1, <1>2 DEF IInv, NoItemTwice, StableItemsListed
  <2> QED
    BY <2>2, <2>4, <2>5 DEF IInv
<1>3. CASE firstPage # NoPage
  BY <1>1, <1>2, <1>3 DEF Turn, IInv, Order
<1>4. CASE firstPage = NoPage /\ page' = FetchNextPage(url) /\ pc' = "look"
           /\ UNCHANGED <<result, firstPage>>
  BY <1>1, <1>2, <1>4, FetchIsGood
<1>5. CASE firstPage = NoPage /\ End("error") /\ UNCHANGED <<page, firstPage>>
  BY <1>1, <1>5 DEF IInv, TypeOK, Order, NoItemTwice, StableItemsListed, End, Results
<1> QED
  BY <1>3, <1>4, <1>5 DEF Turn

LEMMA LookStep == ASSUME IInv, Look PROVE IInv'
<1>1. /\ UNCHANGED <<how, coll, writes, stable, url, firstPage, page, key, listed, twice>>
      /\ pc = "look" /\ Walked(url) /\ GoodPage(page, url) /\ firstPage = NoPage
      /\ (how.call = "AllPages" => key # "none")
      /\ stable \subseteq coll /\ coll \subseteq Items /\ url \in {0} \cup Items /\ result = "none"
  BY DEF Look, service, IInv, Order, TypeOK
<1>2. TypeOK' /\ NoItemTwice'
  BY <1>1 DEF Look, IInv, TypeOK, NoItemTwice, End, Results
<1>3. Order'
  <2>1. (pc' = "visit" /\ ~IsEmpty /\ result' = result) \/ (pc' = "done")
    BY DEF Look, End
  <2>2. GoodPage(page, url)' /\ Walked(url)'
    BY <1>1 DEF GoodPage, Walked
  <2> QED
    BY <1>1, <2>1, <2>2 DEF Order, IsEmpty
<1>4. StableItemsListed'
  <2> SUFFICES ASSUME result' = "ok", Cardinality(Hidden) < Limit, key # "other",
                      NEW x \in stable \ Hidden
               PROVE  x \in listed
    BY <1>1 DEF StableItemsListed
  <2>1. page.items = {}
    BY <1>1 DEF Look, End, IsEmpty
  <2>2. page.link = 0
    BY <1>1, <2>1 DEF GoodPage
  <2>3. ~(x > url)
    BY <1>1, <2>1, <2>2 DEF GoodPage
  <2>4. x \in Nat /\ url \in Nat
    BY <1>1, ItemTypes
  <2> QED
    BY <1>1, <2>3, <2>4 DEF Walked
<1> QED
  BY <1>2, <1>3, <1>4 DEF IInv

LEMMA VisitStep == ASSUME IInv, Visit PROVE IInv'
<1>1. /\ UNCHANGED <<how, coll, writes, stable, url, firstPage, page, key>>
      /\ pc = "visit" /\ Walked(url) /\ GoodPage(page, url) /\ firstPage = NoPage
      /\ (how.call = "AllPages" => key # "none")
      /\ page.items # {} /\ page.items \subseteq Items /\ listed \subseteq Items /\ twice = {}
      /\ stable \subseteq coll /\ coll \subseteq Items /\ url \in {0} \cup Items /\ result = "none"
  BY PageTypes DEF Visit, service, IInv, Order, TypeOK, NoItemTwice, GoodPage
<1>2. result' # "ok" /\ result' \in Results /\ pc' \in {"next", "done"}
      /\ (pc' = "next" => result' = "none")
  BY <1>1 DEF Visit, End, Results
<1>3. listed \cap page.items = {}
  <2>1. ASSUME NEW x \in listed, x \in page.items PROVE FALSE
    <3>1. x <= url
      BY <1>1 DEF Walked
    <3>2. x > url
      BY <1>1, <2>1 DEF GoodPage
    <3>3. x \in Nat /\ url \in Nat
      BY <1>1, ItemTypes
    <3> QED
      BY <3>1, <3>2, <3>3
  <2> QED
    BY <2>1
<1>4. \/ listed' = listed \cup page.items /\ twice' = {}
      \/ listed' = listed /\ twice' = {} /\ (pc' = "done" \/ key = "other")
  <2>1. key \in {"none", "items", "absent", "other"}
    BY DEF IInv, TypeOK
  <2>2. CASE how.call = "EachPage" /\ Collect(page.items)
    BY <1>1, <1>3, <2>2 DEF Collect
  <2>3. CASE how.call = "AllPages" /\ key = "absent" /\ End("missingKey") /\ UNCHANGED <<listed, twice>>
    BY <1>1, <2>3 DEF End
  <2>4. CASE how.call = "AllPages" /\ key # "absent" /\ pc' = "next"
             /\ Collect(IF key = "items" THEN page.items ELSE {})
    <3>1. key # "none"
      BY <1>1, <2>4
    <3> QED
      BY <1>1, <1>3, <2>1, <2>4, <3>1 DEF Collect
  <2> QED
    BY <2>2, <2>3, <2>4 DEF Visit
<1>5. TypeOK' /\ NoItemTwice' /\ StableItemsListed'
  BY <1>1, <1>2, <1>4 DEF IInv, TypeOK, NoItemTwice, StableItemsListed
<1>6. GoodPage(page, url)'
  BY <1>1 DEF GoodPage
<1>7. pc' = "next" => WalkedPage'
  BY <1>1, <1>4 DEF Walked, WalkedPage
<1>8. Order'
  BY <1>1, <1>2, <1>6, <1>7 DEF Order
<1> QED
  BY <1>5, <1>8 DEF IInv

LEMMA AdvanceStep == ASSUME IInv, Advance PROVE IInv'
<1>1. /\ UNCHANGED <<how, coll, writes, stable, firstPage, page, key, listed, twice>>
      /\ pc = "next" /\ WalkedPage /\ GoodPage(page, url) /\ firstPage = NoPage
      /\ page.items # {} /\ page.items \subseteq Items /\ listed \subseteq Items
      /\ page.link \in {0} \cup Items
      /\ stable \subseteq coll /\ coll \subseteq Items /\ url \in {0} \cup Items /\ result = "none"
  BY PageTypes DEF Advance, service, IInv, Order, TypeOK, GoodPage
<1>2. Last(page.items) \in page.items /\ \A y \in page.items : y <= Last(page.items)
  BY <1>1, HasLast
<1>3. NextURL = IF how.kind = "marker" THEN Last(page.items)
                ELSE IF how.kind = "linked" THEN page.link ELSE 0
  BY <1>1 DEF NextURL, NextMarker, IsEmpty
<1>4. NextURL \in {0} \cup Items
  BY <1>1, <1>2, <1>3
<1>5. TypeOK' /\ NoItemTwice'
  BY <1>1, <1>4 DEF Advance, IInv, TypeOK, NoItemTwice, End, Results
<1>6. CASE NextURL = 0 /\ End("ok") /\ UNCHANGED url
  <2>1. Order'
    BY <1>1, <1>6 DEF Order, IInv, End
  <2>2. page.link = 0
    <3>1. how.kind # "marker"
      BY <1>1, <1>2, <1>3, <1>6, ItemTypes
    <3> QED
      BY <1>1, <1>3, <1>6, <3>1 DEF GoodPage, IInv, TypeOK
  <2>3. StableItemsListed'
    <3> SUFFICES ASSUME key # "other", NEW x \in stable \ Hidden
                 PROVE  x \in listed
      BY <1>1 DEF StableItemsListed
    <3>1. x \in Nat /\ url \in Nat
      BY <1>1, ItemTypes
    <3>2. x <= url \/ x \in page.items
      BY <1>1, <2>2, <3>1 DEF GoodPage
    <3> QED
      BY <1>1, <3>2 DEF WalkedPage
  <2> QED
    BY <1>5, <2>1, <2>3 DEF IInv
<1>7. CASE NextURL # 0 /\ url' = NextURL /\ pc' = "turn" /\ UNCHANGED result
  <2> DEFINE u == NextURL
  <2>1. u \in Nat /\ url \in Nat /\ page.items \subseteq Nat /\ page.link \in Nat
        /\ listed \subseteq Nat /\ stable \subseteq Nat
    <3>1. Items \subseteq Nat
      BY ItemTypes
    <3>2. NextURL \in Nat
      BY <1>4, <3>1
    <3>3. url \in Nat /\ page.link \in Nat
      BY <1>1, MarkersAreNatural, Zenon
    <3>4. page.items \subseteq Nat /\ listed \subseteq Nat
      BY <1>1, <3>1
    <3>5. stable \subseteq Nat
      BY <1>1, <3>1
    <3> QED
      BY <3>2, <3>3, <3>4, <3>5
  <2>2. \A x \in page.items : x <= u /\ url < x
    <3>1. \A x \in page.items : x <= u
      BY <1>1, <1>2, <1>3, <1>7 DEF GoodPage
    <3> QED
      BY <1>1, <2>1, <3>1 DEF GoodPage
  <2>3. PICK i \in page.items : url < i /\ i <= u
    BY <1>1, <2>2
  <2>4. \A x \in listed : x <= u
    <3> SUFFICES ASSUME NEW x \in listed PROVE x <= u
      OBVIOUS
    <3>1. x <= url \/ x \in page.items
      BY <1>1 DEF WalkedPage
    <3>2. x \in Nat /\ i \in Nat
      BY <2>1
    <3> QED
      BY <2>1, <2>2, <2>3, <3>1, <3>2
  <2>5. page.link = 0 \/ u <= page.link
    BY <1>1, <1>2, <1>3, <1>7, <2>1 DEF GoodPage
  <2>6. ASSUME key # "other", NEW x \in stable \ Hidden, x <= u PROVE x \in listed
    <3>1. x \in Nat
      BY <2>1
    <3>2. page.link = 0 \/ x <= page.link
      BY <2>1, <2>5, <2>6, <3>1
    <3>3. x <= url \/ x \in page.items
      BY <1>1, <2>1, <3>1, <3>2 DEF GoodPage
    <3> QED
      BY <1>1, <2>6, <3>3 DEF WalkedPage
  <2>7. Walked(url)'
    BY <1>1, <1>7, <2>4, <2>6 DEF Walked
  <2>8. how.kind # "single"
    BY <1>3, <1>7
  <2>9. Order' /\ StableItemsListed'
    BY <1>1, <1>7, <2>7, <2>8 DEF Order, IInv, StableItemsListed
  <2> QED
    BY <1>5, <2>9 DEF IInv
<1>8. CASE End("error") /\ UNCHANGED url
  BY <1>1, <1>5, <1>8 DEF Order, IInv, StableItemsListed, End
<1> QED
  BY <1>6, <1>7, <1>8 DEF Advance

LEMMA StillStep == ASSUME IInv, UNCHANGED vars PROVE IInv'
<1>1. TypeOK' /\ NoItemTwice' /\ StableItemsListed'
  BY DEF vars, IInv, TypeOK, NoItemTwice, StableItemsListed
<1>2. Order'
  BY DEF vars, IInv, Order, Walked, WalkedPage, GoodPage
<1> QED
  BY <1>1, <1>2 DEF IInv

LEMMA IInvStep == IInv /\ [Next]_vars => IInv'
<1> SUFFICES ASSUME IInv, [Next]_vars PROVE IInv'
  OBVIOUS
<1>1. CASE Walk
  BY <1>1, FetchFirstStep, TurnStep, LookStep, VisitStep, AdvanceStep DEF Walk
<1>2. CASE Create \/ Remove
  BY <1>2, ServiceStep
<1>3. CASE Finished \/ UNCHANGED vars
  BY <1>3, StillStep DEF Finished
<1> QED
  BY <1>1, <1>2, <1>3 DEF Next

LEMMA Inductive == Spec => []IInv
  BY InitIInv, IInvStep, PTL DEF Spec

(* The walk of a Pager stays within its types, for every size.              *)
THEOREM TypeCorrect == Spec => []TypeOK
<1>1. IInv => TypeOK
  BY DEF IInv
<1> QED
  BY <1>1, Inductive, PTL

(* EachPage and AllPages list what stays in the collection, over marker,    *)
(* linked and single pages, for collections and pages of every size and any *)
(* number of changes by other users between the pages.                      *)
THEOREM NothingStableIsMissed == Spec => []StableItemsListed
<1>1. IInv => StableItemsListed
  BY DEF IInv
<1> QED
  BY <1>1, Inductive, PTL

(* EachPage and AllPages list nothing twice: the first page is used once,   *)
(* and each page begins behind the one before.                              *)
THEOREM NothingIsListedTwice == Spec => []NoItemTwice
<1>1. IInv => NoItemTwice
  BY DEF IInv
<1> QED
  BY <1>1, Inductive, PTL
-----------------------------------------------------------------------------
(* WaitFor. *)
Flags == over \in BOOLEAN /\ late \in BOOLEAN /\ ticker \in BOOLEAN /\ tick \in BOOLEAN

Places ==
  /\ place \in {"called", "poll", "select", "returned"} /\ wait \in Waits
  /\ answer \in Statuses \cup Failures \cup {NoAnswer}
  /\ outcome \in {"none", "nil", "context", "error"} /\ (outcome = "none" <=> place # "returned")
  /\ polls \in Nat /\ latePolls \in Nat

Resource ==
  /\ status \in Statuses \cup {Gone} /\ status \in since
  /\ since \subseteq Statuses \cup {Gone}

(* The ticker is made by the first poll that does not end the wait. *)
Ticking ==
  /\ place = "select" => ticker
  /\ tick => ticker

(* A tick in the channel says that a second has begun in which nobody has   *)
(* asked yet.                                                               *)
Seconds ==
  /\ place = "called" => polls = 0 /\ ~ticker
  /\ tick => polls = 0
  /\ polls <= 1

(* What the predicate is shown was the case at some moment since the call. *)
Honest ==
  /\ answer = "404" => Gone \in since
  /\ answer \in Statuses => answer \in since
  /\ answer = "context" => over

(* A late poll is the last one: it sees nothing but its own cancellation. *)
Late ==
  /\ ~late => latePolls = 0
  /\ late => /\ over /\ latePolls = 1
             /\ place \in {"poll", "returned"} /\ answer \in {NoAnswer, "context"}
             /\ outcome # "nil"

PollInv == Flags /\ Places /\ Resource /\ Ticking /\ Seconds /\ Honest /\ Late /\ ResultIsEarned

LEMMA PollInvInit == WaitInit => PollInv
<1> SUFFICES ASSUME WaitInit PROVE PollInv
  OBVIOUS
<1>1. Flags
  BY Zenon DEF WaitInit, Flags
<1>2. Places /\ Resource
  BY DEF WaitInit, Places, Resource
<1>3. Ticking /\ Seconds
  BY DEF WaitInit, Ticking, Seconds
<1>4. Honest /\ Late /\ ResultIsEarned
  BY PollingAssumption DEF WaitInit, Honest, Late, ResultIsEarned, NoAnswer, Failures
<1> QED
  BY <1>1, <1>2, <1>3, <1>4 DEF PollInv

LEMMA PollFlagsStep == Flags /\ [WaitNext]_waitVars => Flags'
<1> SUFFICES ASSUME over \in BOOLEAN, late \in BOOLEAN, ticker \in BOOLEAN, tick \in BOOLEAN,
                    [WaitNext]_waitVars
             PROVE  over' \in BOOLEAN /\ late' \in BOOLEAN /\ ticker' \in BOOLEAN /\ tick' \in BOOLEAN
  BY DEF Flags
<1>1. CASE FirstPoll
  BY <1>1, Zenon DEF FirstPoll, BeginPoll
<1>2. CASE PollEnds
  BY <1>2, Zenon DEF PollEnds
<1>3. CASE TakeTick
  BY <1>3, Zenon DEF TakeTick, BeginPoll
<1>4. CASE TakeDone
  BY <1>4, Zenon DEF TakeDone
<1>5. CASE Answered
  BY <1>5, Zenon DEF Answered
<1>6. CASE GetCancelled
  BY <1>6, Zenon DEF GetCancelled
<1>7. CASE Second
  BY <1>7, Zenon DEF Second
<1>8. CASE Evolve
  BY <1>8, Zenon DEF Evolve
<1>9. CASE ContextEnds
  BY <1>9, Zenon DEF ContextEnds
<1>10. CASE Returned \/ UNCHANGED waitVars
  BY <1>10, Zenon DEF Returned, waitVars
<1> QED
  BY <1>1, <1>2, <1>3, <1>4, <1>5, <1>6, <1>7, <1>8, <1>9, <1>10, Zenon DEF WaitNext, Wait

(* A predicate that ends a wait well has seen what was waited for. *)
LEMMA SuccessSeesTheGoal ==
  ASSUME Places, Honest, answer # NoAnswer,
         Predicate(answer).done, ~Predicate(answer).err
  PROVE  Goal \cap since # {}
<1>1. CASE wait.kind \in {"status", "status or error"}
  <2>1. answer = wait.wanted /\ answer \notin Failures
    BY <1>1 DEF Predicate, Reached, ReachedOrFailed
  <2>2. answer \in since
    BY <2>1 DEF Places, Honest
  <2> QED
    BY <1>1, <2>1, <2>2 DEF Goal
<1>2. CASE wait.kind = "deleted"
  <2>1. answer = "404"
    BY <1>2 DEF Predicate, Deleted
  <2> QED
    BY <1>2, <2>1 DEF Goal, Honest
<1>3. CASE wait.kind = "detached"
  <2>1. answer \in {"404", "ACTIVE"}
    BY <1>3 DEF Predicate, Detached
  <2>2. answer = "ACTIVE" => answer \in since
    BY DEF Places, Honest, Failures, NoAnswer
  <2> QED
    BY <1>3, <2>1, <2>2 DEF Goal, Honest
<1> QED
  BY <1>1, <1>2, <1>3, PollingAssumption DEF Places, Kinds

(* A cancelled poll ends the wait, whatever was waited for. *)
LEMMA CancellationEnds ==
  ASSUME Places, answer = "context" PROVE Predicate(answer).err
<1>1. wait.kind \in Kinds
  BY PollingAssumption DEF Places
<1> QED
  BY <1>1 DEF Predicate, Kinds, Failures, Reached, ReachedOrFailed, Deleted, Detached

LEMMA PollInvStep == PollInv /\ [WaitNext]_waitVars => PollInv'
<1> SUFFICES ASSUME PollInv, [WaitNext]_waitVars PROVE PollInv'
  OBVIOUS
<1>f. Flags'
  BY PollFlagsStep DEF PollInv
<1>1. CASE FirstPoll
  <2>1. Places' /\ Resource' /\ Ticking' /\ Seconds'
    BY <1>1 DEF PollInv, FirstPoll, BeginPoll, Flags, Places, Resource, Ticking, Seconds
  <2>2. ~late
    BY <1>1 DEF PollInv, FirstPoll, Late
  <2>3. Honest'
    <3>1. answer' = NoAnswer /\ NoAnswer \notin Statuses
      BY <1>1, PollingAssumption DEF FirstPoll, BeginPoll
    <3> QED BY <3>1 DEF Honest, NoAnswer
  <2>4. outcome' = "none"
    BY <1>1 DEF PollInv, FirstPoll, Places
  <2>5. Late'
    BY <1>1, <2>2, <2>4 DEF PollInv, FirstPoll, BeginPoll, Flags, Late
  <2>6. ResultIsEarned'
    BY <2>4 DEF ResultIsEarned
  <2> QED BY <1>f, <2>1, <2>3, <2>5, <2>6 DEF PollInv
<1>2. CASE PollEnds
  <2>1. Places' /\ Resource' /\ Ticking' /\ Seconds'
    BY <1>2 DEF PollInv, PollEnds, Flags, Places, Resource, Ticking, Seconds
  <2>2. Honest' /\ Late'
    BY <1>2, CancellationEnds DEF PollInv, PollEnds, Flags, Honest, Late
  <2>3. ResultIsEarned'
    BY <1>2, SuccessSeesTheGoal DEF PollInv, PollEnds, Honest, ResultIsEarned, Goal, Places
  <2> QED BY <1>f, <2>1, <2>2, <2>3 DEF PollInv
<1>3. CASE TakeTick
  <2>1. Places' /\ Resource' /\ Ticking' /\ Seconds'
    BY <1>3 DEF PollInv, TakeTick, BeginPoll, Flags, Places, Resource, Ticking, Seconds
  <2>2. ~late
    BY <1>3 DEF PollInv, TakeTick, Late
  <2>3. Honest'
    <3>1. answer' = NoAnswer /\ NoAnswer \notin Statuses
      BY <1>3, PollingAssumption DEF TakeTick, BeginPoll
    <3> QED BY <3>1 DEF Honest, NoAnswer
  <2>4. outcome' = "none"
    BY <1>3 DEF PollInv, TakeTick, Places
  <2>5. Late'
    BY <1>3, <2>2, <2>4 DEF PollInv, TakeTick, BeginPoll, Flags, Late
  <2>6. ResultIsEarned'
    BY <2>4 DEF ResultIsEarned
  <2> QED BY <1>f, <2>1, <2>3, <2>5, <2>6 DEF PollInv
<1>4. CASE TakeDone
  <2>1. ~late
    BY <1>4 DEF PollInv, TakeDone, Late
  <2> QED
    BY <1>f, <1>4, <2>1 DEF PollInv, TakeDone, Places, Resource, Ticking, Seconds, Honest, Late, ResultIsEarned
<1>5. CASE Answered
  <2>1. answer' \in Statuses \cup {"404", "409", "failure"} /\ (answer' = "404" => Gone \in since)
        /\ (answer' \in Statuses => answer' \in since)
    BY <1>5, PollingAssumption DEF PollInv, Answered, Resource, Failures
  <2> QED
    BY <1>f, <1>5, <2>1, PollingAssumption DEF PollInv, Answered, Flags, Places, Resource, Ticking, Seconds, Honest, Late,
      ResultIsEarned, Failures, Goal
<1>6. CASE GetCancelled
  BY <1>f, <1>6, PollingAssumption DEF PollInv, GetCancelled, Flags, Places, Resource, Ticking, Seconds, Honest, Late,
    ResultIsEarned, Failures, Goal
<1>7. CASE Second
  BY <1>f, <1>7 DEF PollInv, Second, Places, Resource, Ticking, Seconds, Honest, Late, ResultIsEarned, Goal
<1>8. CASE Evolve
  BY <1>f, <1>8 DEF PollInv, Evolve, Places, Resource, Ticking, Seconds, Honest, Late, ResultIsEarned, Goal
<1>9. CASE ContextEnds
  BY <1>f, <1>9 DEF PollInv, ContextEnds, Places, Resource, Ticking, Seconds, Honest, Late, ResultIsEarned, Goal
<1>10. CASE Returned \/ UNCHANGED waitVars
  BY <1>f, <1>10 DEF PollInv, Returned, waitVars, Places, Resource, Ticking, Seconds, Honest, Late, ResultIsEarned, Goal
<1> QED
  BY <1>1, <1>2, <1>3, <1>4, <1>5, <1>6, <1>7, <1>8, <1>9, <1>10 DEF WaitNext, Wait

LEMMA PollInvAlways == WaitSpec => []PollInv
<1> QED
  BY PollInvInit, PollInvStep, PTL DEF WaitSpec

(* Every variable keeps its type. *)
THEOREM PollingTypeCorrect == WaitSpec => []WaitTypeOK
<1>1. PollInv => WaitTypeOK
  BY DEF PollInv, WaitTypeOK, Flags, Places, Resource, Ticking
<1> QED
  BY <1>1, PollInvAlways, PTL

(* WaitFor (util.go:82): nil is returned only when what was waited for has  *)
(* been the case, and a context error only when the context was over.       *)
THEOREM ResultsAreEarned == WaitSpec => []ResultIsEarned
<1>1. PollInv => ResultIsEarned
  BY DEF PollInv
<1> QED
  BY <1>1, PollInvAlways, PTL

(* The select of WaitFor may begin one poll after its context is over, and  *)
(* that poll ends the wait without success.                                 *)
THEOREM LatePollIsTheLast == WaitSpec => []AtMostOneLatePoll
<1>1. PollInv => AtMostOneLatePoll
  BY DEF PollInv, AtMostOneLatePoll, Late
<1> QED
  BY <1>1, PollInvAlways, PTL

(* The ticker of WaitFor never lets two polls begin in one second. *)
THEOREM PollsAreSpaced == WaitSpec => []OnePollPerSecond
<1>1. PollInv => OnePollPerSecond
  BY DEF PollInv, OnePollPerSecond, Seconds
<1> QED
  BY <1>1, PollInvAlways, PTL
=============================================================================
