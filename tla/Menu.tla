--------------------------------- MODULE Menu ---------------------------------
(***************************************************************************)
(* The menu of an interactive session (pkg/handler: Dispatch and           *)
(* UserSelectHandler with its pageInfo): searching the pods of the store,  *)
(* paging through the answer, and choosing a pod by number or by name,     *)
(* while a goroutine started at login loads the first pods and the         *)
(* synchronisation (KubeSync) adds rows to the store.                      *)
(*                                                                         *)
(* A line that searches or pages first sets currentResult and then looks   *)
(* at it again, to choose (SearchOrProxy) or to display it: these are two  *)
(* steps, and the goroutine may come between them.  What is searched in a  *)
(* pod's row and its status do not change here, and no row goes: the store *)
(* refuses every delete.                                                   *)
(***************************************************************************)
EXTENDS Integers, Sequences, FiniteSets, Functions

CONSTANTS
    Pods,          \* pods of all clusters
    Nil,           \* no pod
    AtFirst,       \* those in the store at login
    Rank,          \* the place of each pod's cluster_ref in their order
    Inactive,      \* pods that are not running
    Keys, Finds,   \* what is searched for, and the pods each key finds
    NoKey,         \* "", which finds all
    Sizes,         \* page sizes the window's height gives; 0 is "all"
    DefaultLimit   \* PaginatePods: the limit for a page size of 0, 10

ASSUME MenuAssumption ==
    /\ IsFiniteSet(Pods) /\ Nil \notin Pods /\ AtFirst \subseteq Pods /\ Inactive \subseteq Pods
    /\ Rank \in [Pods -> Nat] /\ NoKey \in Keys
    /\ Finds \in [Keys -> SUBSET Pods] /\ Finds[NoKey] = Pods
    /\ Sizes \subseteq Nat /\ DefaultLimit \in Nat \ {0}

VARIABLES
    mode,       \* "menu" (reading a line), "choose", "display", "proxy", "quit",
                \* "refresh" (left by r), "panic"
    loader,     \* the goroutine of firstLoadData: "run", "end"
    initialed,  \* Dispatch's flag: Enter turns the page
    size,       \* getPageSize now
    stored,     \* pods in the store
    page,       \* currentResult and pageInfo: rows, start, offset, hasPre, hasNext
    found,      \* SearchOrProxy's own currentResult
    key,        \* searchKey
    shown,      \* pods in the list on the screen
    resized     \* history: the window has changed

menuVars == <<mode, loader, initialed, size, stored, page, found, key, shown, resized>>

Live == {"menu", "choose", "display", "proxy"}
Results == Seq(Pods \cup {Nil})
NoPage == [rows |-> <<>>, start |-> -1, offset |-> 0, hasPre |-> FALSE, hasNext |-> FALSE]

MenuTypeOK ==
    /\ mode \in Live \cup {"quit", "refresh", "panic"} /\ loader \in {"run", "end"}
    /\ initialed \in BOOLEAN /\ size \in Sizes /\ stored \subseteq Pods /\ key \in Keys
    /\ page \in [rows : Results, start : -1..Cardinality(Pods), offset : 0..Cardinality(Pods),
                 hasPre : BOOLEAN, hasNext : BOOLEAN]
    /\ found \in Results /\ shown \in Seq(Pods) /\ resized \in BOOLEAN

MenuInit ==
    /\ mode = "menu" /\ loader = "run" /\ initialed = FALSE /\ size \in Sizes
    /\ stored = AtFirst /\ page = NoPage /\ found = <<>> /\ key = NoKey /\ shown = <<>>
    /\ resized = FALSE
-----------------------------------------------------------------------------
(***************************************************************************)
(* Pages.                                                                  *)
(***************************************************************************)
Limit == IF size = 0 THEN DefaultLimit ELSE size

\* SearchPodBy
Matching(k) == Finds[k] \cap stored

\* Some pods in every order.
Arranged(S) == {list \in [1..Cardinality(S) -> S] : IsInjective(list)}

\* "cluster_ref desc": whatever the order of the pods of a cluster, their places are
\* behind those of the clusters before it.
Places(pod, S) ==
    LET before == Cardinality({p \in S : Rank[p] > Rank[pod]})
    IN  before + 1..before + Cardinality({p \in S : Rank[p] = Rank[pod]})

InPlace(list, start, S) == \A i \in DOMAIN list : start + i \in Places(list[i], S)

\* LIMIT and OFFSET: the rows behind the first ones, as many as there are up to a limit.
RowsLeft(start, S) ==
    IF start + Limit <= Cardinality(S) THEN Limit
    ELSE IF start <= Cardinality(S) THEN Cardinality(S) - start ELSE 0

\* Pods of the same cluster come in any order, and in another one in the next query.
RowsOf(S, start) ==
    {list \in [1..RowsLeft(start, S) -> S] : IsInjective(list) /\ InPlace(list, start, S)}

\* Fault: pageInfo.update does not count a page that is not full.
PageNoDown(n, per) == IF per = 0 THEN 1 ELSE n \div per

\* pageInfo.update: the pages of per rows that n rows take.
PageNo(n, per) == IF per = 0 THEN 1 ELSE (n + per - 1) \div per

\* Fault: the offset moves by a whole page also where fewer rows are left.
PageOfWhole(rows, start, total) ==
    LET per == IF size = 0 THEN Len(rows) ELSE size
        offset == start + per
    IN  [rows |-> rows, start |-> start, offset |-> offset,
         hasPre |-> PageNo(offset, per) > 1,
         hasNext |-> PageNo(offset, per) < PageNo(total, per)]

\* updateRemotePageData
PageOf(rows, start, total) ==
    LET per == IF size = 0 THEN Len(rows) ELSE size
        offset == start + Len(rows)
    IN  [rows |-> rows, start |-> start, offset |-> offset,
         hasPre |-> PageNo(offset, per) > 1,
         hasNext |-> PageNo(offset, per) < PageNo(total, per)]

\* PreloadPodsWithPager counts the pods and then asks for their rows; pods may come in
\* between.
Retrieve(start, k, next) ==
    \E new \in SUBSET (Pods \ stored) :
        /\ stored' = stored \cup new /\ mode' = next
        /\ \E list \in RowsOf(Finds[k] \cap stored', start) :
              page' = PageOf(list, start, Cardinality(Matching(k)))

\* When a query fails updateRemotePageData uses the response, of which there is none.
RetrieveFails == mode' = "panic" /\ UNCHANGED <<stored, page, found, key>>

\* Turning to the page at start if there is one, else to the one in hand again.
Turn(there, start) ==
    \/ there /\ Retrieve(start, key, "display") /\ UNCHANGED <<key, found>>
    \/ there /\ RetrieveFails
    \/ ~ there /\ mode' = "display" /\ UNCHANGED <<stored, page, found, key>>

MoveNextPage == Turn(page.hasNext, page.offset)

\* Two pages back from the offset, which is behind the page.
PageBefore == LET back == page.offset - 2 * size IN IF back < 0 THEN 0 ELSE back

MovePrePage == Turn(page.hasPre, PageBefore)

\* Fault: the key of the search before stays in force.
SearchOnce(k) ==
    \/ Retrieve(0, k, "display") /\ UNCHANGED <<key, found>>
    \/ RetrieveFails

Search(k) ==
    \/ Retrieve(0, k, "display") /\ key' = k /\ UNCHANGED found
    \/ RetrieveFails

\* Fault: what is shown is a sorted copy.
DisplayCopy ==
    /\ mode = "display"
    /\ IF Nil \in Range(page.rows) THEN mode' = "panic" /\ UNCHANGED shown
       ELSE mode' = "menu" /\ shown' \in Arranged(Range(page.rows))
    /\ UNCHANGED <<loader, initialed, size, stored, page, found, key, resized>>

\* DisplayCurrentResult sorts the rows in place, by cluster name or by address, among
\* equals in any order, and lists them; a nil asset panics.  Of no rows it only says so,
\* below the list that is there.
Display ==
    /\ mode = "display"
    /\ \/ /\ Nil \in Range(page.rows) /\ mode' = "panic" /\ UNCHANGED <<page, shown>>
       \/ /\ page.rows = <<>> /\ mode' = "menu" /\ UNCHANGED <<page, shown>>
       \/ /\ Nil \notin Range(page.rows) /\ page.rows # <<>> /\ mode' = "menu"
          /\ \E list \in Arranged(Range(page.rows)) :
                page' = [page EXCEPT !.rows = list] /\ shown' = list
    /\ UNCHANGED <<loader, initialed, size, stored, found, key, resized>>
-----------------------------------------------------------------------------
(***************************************************************************)
(* Dispatch: the lines of the user.                                        *)
(***************************************************************************)
Line == mode = "menu" /\ initialed' = TRUE /\ UNCHANGED <<loader, size, shown, resized>>

Enter == Line /\ IF initialed THEN MoveNextPage ELSE Search(NoKey)
PageDown == Line /\ MoveNextPage
PageUp == Line /\ MovePrePage
Slash == Line /\ \E k \in Keys : Search(k)

Help ==
    /\ mode = "menu" /\ initialed' = FALSE /\ shown' = <<>>
    /\ UNCHANGED <<mode, loader, size, stored, page, found, key, resized>>

Quit ==
    /\ mode = "menu" /\ mode' = "quit"
    /\ UNCHANGED <<loader, initialed, size, stored, page, found, key, shown, resized>>

Refresh ==
    /\ mode = "menu" /\ mode' = "refresh"
    /\ UNCHANGED <<loader, initialed, size, stored, page, found, key, shown, resized>>

\* Proxy: only a running pod is entered; a nil one panics.
Proxy(pod) ==
    mode' = IF pod = Nil THEN "panic" ELSE IF pod \in Inactive THEN "menu" ELSE "proxy"

\* SearchOrProxy with the number of a row.
Number ==
    /\ Line /\ \E i \in DOMAIN page.rows : Proxy(page.rows[i])
    /\ UNCHANGED <<stored, page, found, key>>

\* SearchOrProxy with anything else is a search first.
Name ==
    /\ Line
    /\ \/ \E k \in Keys \ {NoKey} :
              Retrieve(0, k, "choose") /\ key' = k /\ found' = page'.rows
       \/ RetrieveFails

\* Then it looks how many rows there are, and enters the pod of a single one.
Choose ==
    /\ mode = "choose" /\ found' = <<>>
    /\ \/ Len(page.rows) = 1 /\ found # <<>> /\ Proxy(found[1])
       \/ Len(page.rows) = 1 /\ found = <<>> /\ mode' = "panic"
       \/ Len(page.rows) # 1 /\ mode' = "display"
    /\ UNCHANGED <<loader, initialed, size, stored, page, key, shown, resized>>

\* The list is still there if no shell came to draw over it.
ProxyEnds ==
    /\ mode = "proxy" /\ mode' = "menu" /\ shown' \in {shown, <<>>}
    /\ UNCHANGED <<loader, initialed, size, stored, page, found, key, resized>>
-----------------------------------------------------------------------------
\* firstLoadData: SetAllLocalAssetData makes currentResult as many nil assets as
\* pods were loaded.  A query that fails leaves it alone.
Load ==
    /\ mode \in Live /\ loader = "run" /\ loader' = "end"
    /\ LET n == IF Limit < Cardinality(stored) THEN Limit ELSE Cardinality(stored)
       IN  page' = [page EXCEPT !.rows = [i \in 1..n |-> Nil]] \/ UNCHANGED page
    /\ UNCHANGED <<mode, initialed, size, stored, found, key, shown, resized>>

Resize ==
    /\ mode \in Live /\ size' \in Sizes \ {size} /\ resized' = TRUE
    /\ UNCHANGED <<mode, loader, initialed, stored, page, found, key, shown>>

\* CreateOrUpdatePod puts the row of a new pod in the store.
Sync ==
    /\ mode \in Live /\ \E pod \in Pods \ stored : stored' = stored \cup {pod}
    /\ UNCHANGED <<mode, loader, initialed, size, page, found, key, shown, resized>>

MenuNext ==
    \/ Enter \/ PageDown \/ PageUp \/ Slash \/ Help \/ Quit \/ Refresh \/ Number \/ Name
    \/ Choose \/ Display \/ ProxyEnds \/ Load \/ Resize \/ Sync

MenuSpec == MenuInit /\ [][MenuNext]_menuVars
-----------------------------------------------------------------------------
\* The rows in hand are distinct pods that the search in force finds, as many as lie
\* between the page's two offsets, whatever the user searched, paged and chose, unless
\* the loader put nil assets there; and while the store has no new pods they are of the
\* clusters that have these places: the next page follows on what is shown, up to the
\* order of the pods of a cluster.
PageIsOfSearch ==
    page.start >= 0 /\ Nil \notin Range(page.rows) =>
        /\ IsInjective(page.rows) /\ Range(page.rows) \subseteq Matching(key)
        /\ Len(page.rows) = page.offset - page.start
        /\ stored = AtFirst => \E list \in Arranged(Range(page.rows)) :
               InPlace(list, page.start, Matching(key))

\* In a window that keeps its size, over a store that gets no new pods, the flags tell
\* the ends of the list: where there is no next page no pod of the search is left to
\* show, and where there is no page before it is the first one (except of "all" pods,
\* where b leads past the end).
FlagsTellTheEnds ==
    ~ resized /\ stored = AtFirst /\ page.start >= 0 =>
        /\ ~ page.hasNext => page.offset = Cardinality(Matching(key))
        /\ ~ page.hasPre /\ size # 0 => page.start = 0

\* The number of each row on the screen stands for the pod shown in that row.
NumbersAreOfScreen ==
    mode = "menu" => \A i \in DOMAIN shown : i \in DOMAIN page.rows /\ page.rows[i] = shown[i]

\* The numbers the menu offers come to mean other pods only by the first load, by a
\* search that finds nothing, or by a name whose page is a single pod that is not
\* entered or is left again: the list of before is still on the screen then.
NumbersMeanRows ==
    [][NumbersAreOfScreen =>
           \/ NumbersAreOfScreen'
           \/ Nil \in Range(page'.rows)
           \/ page'.rows = <<>>
           \/ mode \in {"choose", "proxy"} /\ Len(page'.rows) = 1]_menuVars
=============================================================================
