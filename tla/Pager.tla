------------------------------- MODULE Pager --------------------------------
(***************************************************************************)
(* pagination.Pager walking through a collection that other users change   *)
(* while it does: EachPage with a handler, or AllPages, which fetches the  *)
(* first page to learn what it is dealing with and then lets EachPage      *)
(* collect everything.                                                     *)
(*                                                                         *)
(* The service orders the collection and answers a request for a marker    *)
(* with the next Limit items behind it.  Pages are of the two kinds the    *)
(* package offers: a MarkerPage asks for what follows its last item until  *)
(* a page is empty, a LinkedPage follows the link the service put on it    *)
(* until there is none.  The service may keep some items from this user    *)
(* after it has cut the page (Hidden).                                     *)
(***************************************************************************)
EXTENDS Naturals, FiniteSets

CONSTANTS
  MaxItem,    \* bound: items are 1..MaxItem, in the order of the collection
  Limit,      \* items per page
  Hidden,     \* items of the collection this user is not shown
  MaxWrites,  \* bound: how often other users change the collection
  NoPage      \* the nil Page

Items == 1 .. MaxItem

ASSUME PagerAssumption ==
  /\ MaxItem \in Nat /\ MaxWrites \in Nat
  /\ Limit \in Nat \ {0}
  /\ Hidden \subseteq Items
  /\ NoPage \notin [items : SUBSET Items, link : {0} \cup Items]

VARIABLES
  how,        \* [call, kind, shape]: EachPage or AllPages, the kind of page, its body
  coll,       \* the collection, in the service
  writes,     \* how often it was changed
  pc,
  url,        \* currentURL, by its marker; 0 is initialURL
  firstPage,  \* Pager.firstPage
  page,       \* currentPage
  key,        \* the key under which AllPages expects the items
  listed,     \* what the handler was given, or AllPages collected
  twice,      \* history: items listed more than once
  stable,     \* history: items that were in the collection all the time
  result

vars == <<how, coll, writes, pc, url, firstPage, page, key, listed, twice,
          stable, result>>
service == <<coll, writes, stable>>

Pages == [items : SUBSET Items, link : {0} \cup Items]
Results == {"none", "ok", "stopped", "error", "missingKey"}

(* The body: a bare list; an object whose page names the key of its list,   *)
(* rightly or not; an object searched for a list, with one or two to find.  *)
Shapes == {"list", "keyed", "misnamed", "scanned", "ambiguous"}

Keys == [list |-> {"items"}, keyed |-> {"items"}, misnamed |-> {"absent"},
         scanned |-> {"items"}, ambiguous |-> {"items", "other"}]

Last(S) == CHOOSE x \in S : \A y \in S : y <= x

(* The service's answer: the first Limit items behind the marker, and a     *)
(* link when there are more.                                                *)
Behind(m) == {x \in coll : x > m}
Cut(m) == {x \in Behind(m) : Cardinality({y \in Behind(m) : y <= x}) <= Limit}
Serve(m) == [items |-> Cut(m) \ Hidden,
             link  |-> IF Cut(m) = Behind(m) THEN 0 ELSE Last(Cut(m))]

Init ==
  /\ how \in [call : {"EachPage", "AllPages"}, kind : {"marker", "linked", "single"},
              shape : Shapes]
  /\ coll \in SUBSET Items
  /\ writes = 0
  /\ pc = IF how.call = "AllPages" THEN "first" ELSE "turn"
  /\ url = 0
  /\ firstPage = NoPage
  /\ page = NoPage
  /\ key = "none"
  /\ listed = {}
  /\ twice = {}
  /\ stable = coll
  /\ result = "none"

(* fetchNextPage: a SinglePageBase is the whole collection and leads        *)
(* nowhere.                                                                 *)
WholeCollection == [items |-> coll \ Hidden, link |-> 0]
FetchNextPage(m) == IF how.kind = "single" THEN WholeCollection ELSE Serve(m)

End(r) == pc' = "done" /\ result' = r

Collect(S) == listed' = listed \cup S /\ twice' = twice \cup (listed \cap S)

-----------------------------------------------------------------------------
(* Broken: AllPages looks at the first page and starts behind it. *)
FetchFirst_Dropped ==
  /\ pc = "first"
  /\ key' \in Keys[how.shape]
  /\ firstPage' = NoPage
  /\ url' = IF Cut(0) = {} THEN 0 ELSE Last(Cut(0))
  /\ pc' = "turn"
  /\ UNCHANGED <<how, service, page, listed, twice, result>>

(* AllPages: the first page decides.  A SinglePageBase is the result as it  *)
(* is; otherwise the page is kept for EachPage, and the key of the items is *)
(* the page's ResourceKey or a list found in the body, in the random order  *)
(* of its keys.  The error stands for Pager.Err, for a request that failed  *)
(* and for a body of no known type.                                         *)
FetchFirst ==
  /\ pc = "first"
  /\ \/ /\ how.kind = "single"
        /\ Collect(FetchNextPage(0).items)
        /\ End("ok")
        /\ UNCHANGED <<firstPage, key>>
     \/ /\ how.kind # "single"
        /\ key' \in Keys[how.shape]
        /\ firstPage' = FetchNextPage(0)
        /\ pc' = "turn"
        /\ UNCHANGED <<listed, twice, result>>
     \/ End("error") /\ UNCHANGED <<firstPage, key, listed, twice>>
  /\ UNCHANGED <<how, service, url, page>>

(* Broken: the first page stays, and is visited again and again. *)
Turn_KeepFirst ==
  /\ pc = "turn"
  /\ page' = IF firstPage # NoPage THEN firstPage ELSE Serve(url)
  /\ pc' = "look"
  /\ UNCHANGED <<how, service, url, firstPage, key, listed, twice, result>>

(* EachPage: the page kept by AllPages, or a new one from the service; the  *)
(* error of the first turn may be Pager.Err.                                *)
Turn ==
  /\ pc = "turn"
  /\ IF firstPage # NoPage
     THEN /\ page' = firstPage
          /\ firstPage' = NoPage
          /\ pc' = "look"
          /\ UNCHANGED result
     ELSE /\ \/ /\ page' = FetchNextPage(url)
                /\ pc' = "look"
                /\ UNCHANGED result
             \/ End("error") /\ UNCHANGED page
          /\ UNCHANGED firstPage
  /\ UNCHANGED <<how, service, url, key, listed, twice>>

(* Broken: an empty page is a page like any other. *)
Look_GoOn ==
  /\ pc = "look"
  /\ pc' = "visit"
  /\ UNCHANGED <<how, service, url, firstPage, page, key, listed, twice, result>>

(* An empty page ends the listing; IsEmpty refuses a body that is no list.  *)
IsEmpty == page.items = {}

Look ==
  /\ pc = "look"
  /\ \/ IsEmpty /\ End("ok")
     \/ ~IsEmpty /\ pc' = "visit" /\ UNCHANGED result
     \/ End("error")
  /\ UNCHANGED <<how, service, url, firstPage, page, key, listed, twice>>

(* The handler: the caller's may stop or fail, the one of AllPages collects *)
(* the items under the key, or fails when a page has no such key.           *)
Visit ==
  /\ pc = "visit"
  /\ \/ /\ how.call = "EachPage"
        /\ Collect(page.items)
        /\ \/ pc' = "next" /\ UNCHANGED result
           \/ End("stopped")
           \/ End("error")
     \/ /\ how.call = "AllPages" /\ key = "absent"
        /\ End("missingKey")
        /\ UNCHANGED <<listed, twice>>
     \/ /\ how.call = "AllPages" /\ key # "absent"
        /\ Collect(IF key = "items" THEN page.items ELSE {})
        /\ pc' = "next"
        /\ UNCHANGED result
  /\ UNCHANGED <<how, service, url, firstPage, page, key>>

(* NextPageURL: behind the last item of the page, or where its link leads;  *)
(* 0 is the empty string.                                                   *)
NextMarker == IF IsEmpty THEN url ELSE Last(page.items)
NextURL ==
  CASE how.kind = "marker" -> NextMarker
    [] how.kind = "linked" -> page.link
    [] OTHER -> 0

Advance ==
  /\ pc = "next"
  /\ \/ /\ NextURL = 0
        /\ End("ok")
        /\ UNCHANGED url
     \/ /\ NextURL # 0
        /\ url' = NextURL
        /\ pc' = "turn"
        /\ UNCHANGED result
     \/ End("error") /\ UNCHANGED url
  /\ UNCHANGED <<how, service, firstPage, page, key, listed, twice>>

(* Other users. *)
Create ==
  /\ pc # "done" /\ writes < MaxWrites
  /\ \E x \in Items \ coll : coll' = coll \cup {x}
  /\ writes' = writes + 1
  /\ UNCHANGED <<how, pc, url, firstPage, page, key, listed, twice, stable, result>>

Remove ==
  /\ pc # "done" /\ writes < MaxWrites
  /\ \E x \in coll : coll' = coll \ {x} /\ stable' = stable \ {x}
  /\ writes' = writes + 1
  /\ UNCHANGED <<how, pc, url, firstPage, page, key, listed, twice, result>>

Walk == FetchFirst \/ Turn \/ Look \/ Visit \/ Advance
Finished == pc = "done" /\ UNCHANGED vars

Next == Walk \/ Create \/ Remove \/ Finished

Spec == Init /\ [][Next]_vars
FairSpec == Spec /\ WF_vars(Walk)

-----------------------------------------------------------------------------
(* Properties *)

TypeOK ==
  /\ how \in [call : {"EachPage", "AllPages"}, kind : {"marker", "linked", "single"},
              shape : Shapes]
  /\ coll \subseteq Items
  /\ writes \in 0 .. MaxWrites
  /\ pc \in {"first", "turn", "look", "visit", "next", "done"}
  /\ url \in {0} \cup Items
  /\ firstPage \in Pages \cup {NoPage}
  /\ page \in Pages \cup {NoPage}
  /\ key \in {"none", "items", "absent", "other"}
  /\ listed \subseteq Items
  /\ twice \subseteq Items
  /\ stable \subseteq Items
  /\ result \in Results

(* A listing that ends well has listed every item that was there all the    *)
(* time, whatever other users created and removed between two pages.  It    *)
(* takes a service that hides fewer items than a page holds, for an empty   *)
(* page ends the listing whatever is behind it, and a body that does not    *)
(* have two lists and no ResourceKey to tell them.                          *)
StableItemsListed ==
  result = "ok" /\ Cardinality(Hidden) < Limit /\ key # "other"
    => stable \ Hidden \subseteq listed

(* No item is listed twice: the first page, which AllPages fetches itself,  *)
(* is not visited again, and no page overlaps an earlier one.               *)
NoItemTwice == twice = {}

(* The listing comes to an end: pages that follow each other move forward.  *)
ListingEnds == <>(pc = "done")
=============================================================================
