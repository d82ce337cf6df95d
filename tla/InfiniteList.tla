---------------------------- MODULE InfiniteList ----------------------------
(* The endless lists of the dashboard: pages of the newest files first, the  *)
(* next one asked for when a sentinel below the list comes into view, all of *)
(* them again, one after another, when the cache refetches. A page is two    *)
(* statements of the API, the count and the rows, and files come and go      *)
(* between any two of them.                                                  *)
EXTENDS Naturals, Sequences

CONSTANTS
  Screen,         \* "library" or "search"
  Limit,          \* rows of a page
  Files,          \* files at first
  MaxPages,       \* pages loaded
  MaxChanges,     \* files confirmed or deleted meanwhile
  MaxFails        \* pages that fail

InfiniteListAssumption ==
  /\ Screen \in {"library", "search"} /\ Limit \in Nat \ {0} /\ MaxPages \in Nat
  /\ Files \in Nat /\ MaxChanges \in Nat /\ MaxFails \in Nat

VARIABLES
  rows,           \* the files that match, newest first, as the server has them
  newest,         \* files ever confirmed
  pages,          \* what is shown
  fetch,          \* the page being fetched, or the run of pages
  changed,        \* files have come or gone since the first page shown was read
  inView,         \* the sentinel is within the margin of the viewport
  armed,          \* the observer will report where the sentinel is
  fails

vars == <<rows, newest, pages, fetch, changed, inView, armed, fails>>

(* The rows of the pages loaded, how many they are, the total of the first.  *)
NoPages == [data |-> <<>>, number |-> 0, total |-> 0]

(* getNextPageParam: the total of the first page against what is loaded. *)
HasNext(list) == list.number > 0 /\ Len(list.data) < list.total

(* The library asks from what it has loaded, the search by page number. *)
RowOffset(list) == IF Screen = "library" THEN Len(list.data) ELSE list.number * Limit

(* mode "more" appends a page, "all" reads as many again as are shown. *)
Fetch(mode, list, since) == [mode |-> mode, read |-> list, total |-> {}, changed |-> since]
Idle == Fetch("none", NoPages, FALSE)
LoadsMore == fetch.mode = "more"

TypeOK ==
  /\ newest \in 0..(Files + MaxChanges) /\ \A i \in DOMAIN rows : rows[i] \in 1..newest
  /\ fetch.mode \in {"none", "more", "all"} /\ changed \in BOOLEAN /\ fetch.changed \in BOOLEAN
  /\ \A list \in {pages, fetch.read} : Len(list.data) <= list.number * Limit
  /\ inView \in BOOLEAN /\ armed \in BOOLEAN /\ fails \in 0..MaxFails

Init ==
  /\ newest = Files /\ rows = [i \in 1..Files |-> Files + 1 - i]
  /\ pages = NoPages /\ fetch = Fetch("all", NoPages, FALSE)
  /\ changed = FALSE /\ inView = TRUE /\ armed = FALSE /\ fails = 0

(* The count, under the filters of the list. *)
Counts ==
  /\ fetch.mode # "none" /\ fetch.total = {}
  /\ fetch' = [fetch EXCEPT !.total = {Len(rows)}, !.changed = @ /\ fetch.read # NoPages]
  /\ UNCHANGED <<rows, newest, pages, changed, inView, armed, fails>>

(* The rows of the next page. *)
PageAt(offset) ==
  SubSeq(rows, offset + 1, IF offset + Limit < Len(rows) THEN offset + Limit ELSE Len(rows))

WithPage(list) ==
  [data |-> list.data \o PageAt(RowOffset(list)), number |-> list.number + 1,
   total |-> IF list.number = 0 THEN CHOOSE t \in fetch.total : TRUE ELSE list.total]

(* Mutant: the library's effect watches no more than the search's. *)
RearmsOnNext(before, after) == HasNext(before) # HasNext(after)

(* Which changes make the effect observe the sentinel anew: the library also *)
(* watches isFetchingNextPage, the search only whether there is a next page. *)
Rearms(before, after) ==
  \/ HasNext(before) # HasNext(after)
  \/ Screen = "library" /\ LoadsMore

(* The rows are read and the answer arrives: a run of pages goes on until it *)
(* has as many as are shown, or finds no next one. New rows may push the     *)
(* sentinel out of view.                                                     *)
Reads ==
  /\ fetch.total # {}
  /\ LET read == WithPage(fetch.read)
     IN IF fetch.mode = "all" /\ read.number < pages.number /\ HasNext(read)
        THEN /\ fetch' = Fetch("all", read, fetch.changed)
             /\ UNCHANGED <<pages, changed, inView, armed>>
        ELSE /\ pages' = read /\ changed' = fetch.changed /\ fetch' = Idle
             /\ inView' \in {inView, FALSE}
             /\ armed' = (HasNext(read) /\ (armed \/ Rearms(pages, read) \/ inView' # inView))
  /\ UNCHANGED <<rows, newest, fails>>

(* The observer's callback. It starts on the pages shown, and cancels a run  *)
(* of pages under way; the search does not look whether it is loading.       *)
SentinelSeen ==
  /\ armed /\ pages.number < MaxPages
  /\ IF inView /\ HasNext(pages) /\ (Screen = "library" => ~LoadsMore)
     THEN /\ fetch' = Fetch("more", pages, changed)
          /\ armed' = (Screen = "library")
     ELSE armed' = FALSE /\ UNCHANGED fetch
  /\ UNCHANGED <<rows, newest, pages, changed, inView, fails>>

Scrolls ==
  /\ inView' = ~inView /\ armed' = HasNext(pages)
  /\ UNCHANGED <<rows, newest, pages, fetch, changed, fails>>

(* The window is focused and the list is older than half a minute. *)
Refetch ==
  /\ fetch.mode = "none" /\ fetch' = Fetch("all", NoPages, FALSE)
  /\ UNCHANGED <<rows, newest, pages, changed, inView, armed, fails>>

(* The page and its retry fail: what is shown stays. *)
FetchFails ==
  /\ fetch.mode # "none" /\ fails < MaxFails
  /\ fails' = fails + 1 /\ fetch' = Idle
  /\ armed' = (armed \/ (Screen = "library" /\ LoadsMore /\ HasNext(pages)))
  /\ UNCHANGED <<rows, newest, pages, changed, inView>>

Changes == (newest - Files) + (newest - Len(rows))

Touched ==
  /\ changed' = TRUE /\ fetch' = [fetch EXCEPT !.changed = TRUE]
  /\ UNCHANGED <<pages, inView, armed, fails>>

Confirmed ==
  /\ Changes < MaxChanges
  /\ newest' = newest + 1 /\ rows' = <<newest + 1>> \o rows /\ Touched

Deleted(i) ==
  /\ Changes < MaxChanges
  /\ rows' = SubSeq(rows, 1, i - 1) \o SubSeq(rows, i + 1, Len(rows)) /\ UNCHANGED newest /\ Touched

Next ==
  \/ Counts \/ Reads \/ SentinelSeen \/ Scrolls \/ Refetch \/ FetchFails \/ Confirmed
  \/ \E i \in DOMAIN rows : Deleted(i)

Fairness == WF_vars(Counts \/ Reads) /\ WF_vars(SentinelSeen)

Spec == Init /\ [][Next]_vars /\ Fairness

-----------------------------------------------------------------------------
(* As long as no file came or went since the first page shown was read, the  *)
(* list is the newest files, each once and in order, and when it says that   *)
(* there is no more it holds them all.                                       *)
ListIsWhole ==
  (pages # NoPages /\ ~changed) =>
    /\ Len(pages.data) <= Len(rows) /\ pages.data = SubSeq(rows, 1, Len(pages.data))
    /\ ~HasNext(pages) => pages.data = rows

(* A list that has more to load and whose end is in view goes on loading,    *)
(* until it has it all or the bound on its pages is met.                     *)
EndInViewLoads == []<>((inView /\ HasNext(pages)) => pages.number = MaxPages)
=============================================================================
