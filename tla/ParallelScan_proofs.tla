------------------------- MODULE ParallelScan_proofs -------------------------
(***************************************************************************)
(* Theorems about ParallelScan, for any number of scans, queries, pages,    *)
(* proxies and workers.                                                     *)
(***************************************************************************)
EXTENDS ParallelScan, FiniteSetTheorems, WellFoundedInduction, TLAPS

(***************************************************************************)
(* The proxy that is chosen.                                                *)
(***************************************************************************)
\* A nonempty set of numbers has a least one: the intervals below them are
\* finite sets, which are well founded by inclusion.
LEMMA Least ==
  ASSUME NEW T \in SUBSET Nat, T # {}
  PROVE  \E m \in T : \A k \in T : m <= k
<1> DEFINE Below == {1..k : k \in T}
           R == StrictSubsetOrdering(Nat)
           S == FiniteSubsetsOf(Nat)
<1>1. IsWellFoundedOn(R, S)
  BY FS_StrictSubsetOrderingWellFounded
<1>2. \A k \in T : 1..k \in S
  <2> TAKE k \in T
  <2>1. k \in Int /\ 1 \in Int /\ 1..k \subseteq Nat
    OBVIOUS
  <2>2. IsFiniteSet(1..k)
    BY <2>1, FS_Interval
  <2> QED
    BY <2>1, <2>2 DEF FiniteSubsetsOf
<1>3. Below \subseteq S /\ Below # {}
  BY <1>2
<1>4. PICK b \in Below : \A a \in Below : <<a, b>> \notin R
  BY <1>1, <1>3, WFMin
<1>5. PICK m \in T : b = 1..m
  BY <1>4
<1>6. ASSUME NEW k \in T
      PROVE  m <= k
  <2>1. SUFFICES ASSUME k < m
                 PROVE  FALSE
    BY <1>5, <1>6
  <2>2. 1..k \subseteq 1..m /\ 1..k # 1..m
    <3>1. m \in 1..m /\ m \notin 1..k
      BY <2>1, <1>5, <1>6
    <3> QED
      BY <2>1, <3>1, <1>6
  <2>3. 1..k \in SUBSET Nat /\ 1..m \in SUBSET Nat
    OBVIOUS
  <2>4. <<1..k, 1..m>> \in R
    BY <2>2, <2>3 DEF StrictSubsetOrdering
  <2> QED
    BY <1>4, <1>5, <1>6, <2>4
<1> QED
  BY <1>6, <1>5

\* What getNextHealthyProxy returns is in the pool, unless the pool is empty.
LEMMA NextProxyIsProxy ==
  ASSUME TypeOK, NProxies # 0
  PROVE  NextProxy \in Proxies
<1> DEFINE usable == {p \in Proxies : Usable(p)}
<1>1. 1 \in Proxies /\ Proxies \subseteq Nat /\ NProxies \in Nat \ {0}
  BY ScanAssumption DEF Proxies
<1>2. \A p \in Proxies : Ahead(p) \in Nat
  BY <1>1 DEF TypeOK, Ahead
<1>3. CASE usable # {}
  <2> DEFINE T == {Ahead(p) : p \in usable}
  <2>1. T \in SUBSET Nat /\ T # {}
    BY <1>2, <1>3
  <2>2. PICK m \in T : \A k \in T : m <= k
    BY <2>1, Least
  <2>3. PICK p \in usable : m = Ahead(p)
    BY <2>2
  <2>4. \A q \in usable : Ahead(p) <= Ahead(q)
    BY <2>2, <2>3
  <2>5. \E x \in usable : \A q \in usable : Ahead(x) <= Ahead(q)
    BY <2>3, <2>4
  <2>6. (CHOOSE x \in usable : \A q \in usable : Ahead(x) <= Ahead(q)) \in usable
    BY <2>5
  <2> QED
    BY <1>3, <2>6 DEF NextProxy
<1>4. CASE usable = {}
  <2> DEFINE T == {pool[p].failures : p \in Proxies}
             few(m) == {p \in Proxies : pool[p].failures = m}
  <2>0. \A p \in Proxies : pool[p].failures \in Nat
    BY DEF TypeOK, Proxy
  <2>1. T \in SUBSET Nat /\ T # {}
    BY <1>1, <2>0
  <2>2. PICK m \in T : \A k \in T : m <= k
    BY <2>1, Least
  <2>3. few(m) \in SUBSET Nat /\ few(m) # {}
    BY <1>1, <2>2
  <2>4. PICK p \in few(m) : \A q \in few(m) : p <= q
    BY <2>3, Least
  <2>5. p \in Proxies /\ pool[p].failures = m
    OBVIOUS
  <2>6. \A q \in Proxies : Better(p, q)
    <3> TAKE q \in Proxies
    <3>1. m <= pool[q].failures /\ m \in Nat /\ pool[q].failures \in Nat
      BY <2>0, <2>1, <2>2
    <3>2. CASE pool[q].failures = m
      BY <2>4, <2>5, <3>2 DEF Better
    <3>3. CASE pool[q].failures # m
      BY <2>5, <3>1, <3>3 DEF Better
    <3> QED
      BY <3>2, <3>3
  <2>7. (CHOOSE x \in Proxies : \A q \in Proxies : Better(x, q)) \in Proxies
    BY <2>5, <2>6
  <2> QED
    BY <1>4, <2>7 DEF NextProxy
<1> QED
  BY <1>3, <1>4

(***************************************************************************)
(* The strengthenings: what the loop of a scan keeps in range, and which    *)
(* pages it has started.                                                    *)
(***************************************************************************)
InRange(c) ==
  /\ scan[c].query \in 1..NQueries[c]
  /\ scan[c].found \in 0..NPages[c]
  /\ scan[c].index \in 0..scan[c].found
  /\ scan[c].busy \subseteq 1..scan[c].index
  /\ Cardinality(scan[c].busy) <= Concurrency
  /\ scan[c].at # "scrape" => scan[c].index = 0 /\ scan[c].busy = {}

\* A timer is only set for a page that was started.
TimersOfStarted == \A s \in Pages : page[s].main \/ page[s].title => page[s].at # "none"

Ranges == (\A c \in Scans : InRange(c)) /\ TimersOfStarted

\* What the loop of c knows of the page i of the query q.
Seen(c, q, i) ==
  /\ q = scan[c].query /\ scan[c].at = "scrape" =>
       (page[<<c, q, i>>].at # "none" <=> i <= scan[c].index)
  /\ q > scan[c].query => page[<<c, q, i>>].at = "none"
  /\ q = scan[c].query /\ scan[c].at \in {"search", "direct", "failed"} =>
       page[<<c, q, i>>].at = "none"
  /\ Running(<<c, q, i>>) =>
       scan[c].at = "scrape" /\ q = scan[c].query /\ i \in scan[c].busy

PagesSeen == \A c \in Scans : \A q \in 1..NQueries[c], i \in 1..NPages[c] : Seen(c, q, i)

\* The pages that run are finitely many, so that they can be counted.
SlotsCounted == IsFiniteSet({s \in Pages : Running(s)}) /\ SlotsAreGivenBack

\* A page is known by its scan, its query and its number.
LEMMA PageKeys ==
  ASSUME NEW c, NEW q, NEW i
  PROVE  <<c, q, i>> \in Pages <=> c \in Scans /\ q \in 1..NQueries[c] /\ i \in 1..NPages[c]
BY DEF Pages

\* What the workers of a scan hold can be counted.
LEMMA BusyIsFinite ==
  ASSUME NEW c \in Scans, InRange(c)
  PROVE  IsFiniteSet(scan[c].busy)
<1>1. scan[c].index \in Int /\ 1 \in Int
  BY ScanAssumption DEF InRange
<1>2. IsFiniteSet(1..scan[c].index)
  BY <1>1, FS_Interval
<1> QED
  BY <1>2, FS_Subset DEF InRange

(***************************************************************************)
(* What the actions do.                                                     *)
(***************************************************************************)
\* An event that ends the page s, or its text, which starts the timer of the title.
PageOver(s) ==
  /\ page[s].at # "none"
  /\ page' \in [Pages -> Page]
  /\ page'[s].at = "over"
  /\ \A t \in Pages \ {s} : page'[t] = page[t]
  /\ counter' \in Int /\ counter' <= counter - DoneWith(s)

PageHasText(s) ==
  /\ page[s].at = "markdown"
  /\ page' \in [Pages -> Page]
  /\ page'[s].at = "title"
  /\ \A t \in Pages \ {s} : page'[t] = page[t]
  /\ counter' = counter

\* An event that ends a page gives its slot back once, or more than once.
LEMMA EndEffect ==
  ASSUME TypeOK, NEW s \in Pages, page[s].at # "none", NEW p \in Page, NEW n \in {0, 1},
         End(s, p, n)
  PROVE  PageOver(s)
<1>1. [p EXCEPT !.at = "over"] \in Page /\ [p EXCEPT !.at = "over"].at = "over"
  BY DEF Page
<1>2. DoneWith(s) \in {0, 1}
  BY DEF DoneWith
<1> QED
  BY <1>1, <1>2 DEF TypeOK, End, PageOver

\* Every event of a page ends it or brings its text.
LEMMA PageStepEffect ==
  ASSUME TypeOK, Ranges, NEW s \in Pages, PageStep(s)
  PROVE  /\ PageOver(s) \/ PageHasText(s)
         /\ UNCHANGED <<pool, cursor, scan>>
<1>1. page[s] \in Page
  BY DEF TypeOK
<1>2. [page[s] EXCEPT !.title = FALSE] \in Page /\ [page[s] EXCEPT !.main = FALSE] \in Page
  BY <1>1 DEF Page
<1>3. CASE MarkdownAnswers(s)
  <2>1. CASE End(s, page[s], 0)
    BY <1>1, <1>3, <2>1, EndEffect DEF MarkdownAnswers, End
  <2>2. CASE /\ page' = [page EXCEPT ![s].at = "title", ![s].title = TRUE]
             /\ UNCHANGED <<pool, cursor, scan, counter>>
    <3>1. [page[s] EXCEPT !.at = "title", !.title = TRUE] \in Page
      BY <1>1 DEF Page
    <3>2. [page[s] EXCEPT !.at = "title", !.title = TRUE].at = "title"
      BY <1>1 DEF Page
    <3>3. page' = [page EXCEPT ![s] = [page[s] EXCEPT !.at = "title", !.title = TRUE]]
      BY <2>2 DEF TypeOK
    <3> QED
      BY <1>3, <2>2, <3>1, <3>2, <3>3 DEF MarkdownAnswers, PageHasText, TypeOK
  <2> QED
    BY <1>3, <2>1, <2>2 DEF MarkdownAnswers
<1>4. CASE TitleAnswers(s)
  BY <1>1, <1>4, EndEffect DEF TitleAnswers, End
<1>5. CASE TitleTimeout(s)
  BY <1>2, <1>5, EndEffect DEF TitleTimeout, End, Ranges, TimersOfStarted
<1>6. CASE MainTimeout(s)
  BY <1>2, <1>6, EndEffect DEF MainTimeout, End, Ranges, TimersOfStarted
<1>7. CASE ProcessEnds(s)
  <2>1. page[s].at # "none"
    BY <1>7 DEF ProcessEnds, Running
  <2> QED
    BY <1>2, <1>7, <2>1, EndEffect DEF ProcessEnds, End
<1> QED
  BY <1>3, <1>4, <1>5, <1>6, <1>7 DEF PageStep

\* A step of the scan c that starts no page: its record is r afterwards.
ScanBecomes(c, r) ==
  /\ scan' = [scan EXCEPT ![c] = r]
  /\ UNCHANGED <<page, counter>>

\* The shapes of r: the search of the same query goes on, ends with n results, or fails.
Searching(c, r) ==
  /\ scan[c].at \in {"search", "direct"} /\ r.at \in {"search", "direct", "failed"}
  /\ r.query = scan[c].query /\ r.found = scan[c].found
  /\ r.index = scan[c].index /\ r.busy = scan[c].busy

Finding(c, r) ==
  /\ scan[c].at \in {"search", "direct"} /\ r.at = "scrape"
  /\ r.query = scan[c].query /\ r.found \in 0..NPages[c]
  /\ r.index = scan[c].index /\ r.busy = scan[c].busy

AskingAgain(c, r) ==
  /\ scan[c].at = "failed" /\ r.at = "search"
  /\ scan[c].query < NQueries[c] /\ r.query = scan[c].query + 1
  /\ r.found = scan[c].found /\ r.index = scan[c].index /\ r.busy = scan[c].busy

Returning(c, r) ==
  /\ scan[c].at = "scrape" /\ r.at = "scrape"
  /\ r.query = scan[c].query /\ r.found = scan[c].found /\ r.index = scan[c].index
  /\ \E i \in 1..NPages[c] : /\ page[<<c, scan[c].query, i>>].at = "over"
                             /\ r.busy = scan[c].busy \ {i}

Finishing(c, r) ==
  /\ scan[c].at = "scrape" /\ scan[c].busy = {}
  /\ r.found = 0 /\ r.index = 0 /\ r.busy = {}
  /\ \/ scan[c].query < NQueries[c] /\ r.at = "search" /\ r.query = scan[c].query + 1
     \/ r.at = "done" /\ r.query = scan[c].query

Shaped(c, r) ==
  \/ Searching(c, r) \/ Finding(c, r) \/ AskingAgain(c, r) \/ Returning(c, r) \/ Finishing(c, r)

\* The last part of a step of a scan: the record is typed and has one of the shapes.
LEMMA ScanEffect ==
  ASSUME TypeOK, Ranges, NEW c \in Scans, ScanStep(c) \/ AskAgain(c), ~TakePage(c)
  PROVE  /\ \E r \in Scan : ScanBecomes(c, r) /\ Shaped(c, r)
         /\ cursor' \in 1..(NProxies + 1)
<1>1. scan \in [Scans -> Scan] /\ scan[c] \in Scan /\ InRange(c)
  BY DEF TypeOK, Ranges
<1>2. NQueries[c] \in Nat \ {0} /\ NPages[c] \in Nat
  BY ScanAssumption
<1>3. cursor \in 1..(NProxies + 1) /\ NProxies \in Nat
  BY ScanAssumption DEF TypeOK
<1>4. ASSUME NEW n \in 0..NPages[c], scan' = Found(c, n), UNCHANGED <<page, counter>>,
             scan[c].at \in {"search", "direct"}
      PROVE  \E r \in Scan : ScanBecomes(c, r) /\ Shaped(c, r)
  <2> DEFINE r == [scan[c] EXCEPT !.at = "scrape", !.via = 0, !.found = n]
  <2>0. n \in Nat
    BY <1>2
  <2>1. r \in Scan
    BY <1>1, <2>0 DEF Scan
  <2>2. Finding(c, r)
    BY <1>1, <1>4 DEF Scan, Finding
  <2>3. scan' = [scan EXCEPT ![c] = r]
    BY <1>1, <1>4 DEF Found
  <2> QED
    BY <1>4, <2>1, <2>2, <2>3 DEF ScanBecomes, Shaped
<1>5. ASSUME NEW r \in Scan, Searching(c, r), scan' = [scan EXCEPT ![c] = r],
             UNCHANGED <<page, counter>>
      PROVE  \E x \in Scan : ScanBecomes(c, x) /\ Shaped(c, x)
  BY <1>5 DEF ScanBecomes, Shaped
<1>6. CASE StartSearch(c)
  <2>1. scan[c].at = "search" /\ UNCHANGED <<page, counter>>
    BY <1>6 DEF StartSearch
  <2>2. CASE (\E n \in 0..NPages[c] : scan' = Found(c, n)) /\ UNCHANGED cursor
    BY <1>3, <1>4, <2>1, <2>2
  <2>3. CASE /\ NProxies = 0 /\ scan' = [scan EXCEPT ![c].at = "direct"]
             /\ cursor' = cursor
    <3> DEFINE r == [scan[c] EXCEPT !.at = "direct"]
    <3>1. r \in Scan /\ Searching(c, r)
      BY <1>1, <2>1 DEF Scan, Searching
    <3>2. scan' = [scan EXCEPT ![c] = r]
      BY <1>1, <2>3
    <3> QED
      BY <1>3, <1>5, <2>1, <2>3, <3>1, <3>2
  <2>4. CASE /\ NProxies # 0 /\ scan' = [scan EXCEPT ![c].via = NextProxy]
             /\ cursor' = CursorAfter(NextProxy)
    <3> DEFINE r == [scan[c] EXCEPT !.via = NextProxy]
    <3>1. NextProxy \in 1..NProxies
      BY <2>4, NextProxyIsProxy DEF Proxies
    <3>2. r \in Scan /\ Searching(c, r)
      BY <1>1, <1>3, <2>1, <3>1 DEF Scan, Searching
    <3>3. scan' = [scan EXCEPT ![c] = r]
      BY <1>1, <2>4
    <3>4. CursorAfter(NextProxy) \in 1..(NProxies + 1)
      BY <1>3, <3>1 DEF CursorAfter
    <3> QED
      BY <1>5, <2>1, <2>4, <3>2, <3>3, <3>4
  <2> QED
    BY <1>6, <2>2, <2>3, <2>4 DEF StartSearch
<1>7. CASE ProxyAnswers(c)
  <2>1. scan[c].at = "search" /\ UNCHANGED <<cursor, page, counter>>
    BY <1>7 DEF ProxyAnswers
  <2>2. CASE \E n \in 1..NPages[c] : scan' = Found(c, n)
    BY <1>2, <1>3, <1>4, <2>1, <2>2
  <2>3. CASE scan' = [scan EXCEPT ![c].at = "direct"]
    <3> DEFINE r == [scan[c] EXCEPT !.at = "direct"]
    <3>1. r \in Scan /\ Searching(c, r)
      BY <1>1, <2>1 DEF Scan, Searching
    <3>2. scan' = [scan EXCEPT ![c] = r]
      BY <1>1, <2>3
    <3> QED
      BY <1>3, <1>5, <2>1, <3>1, <3>2
  <2> QED
    BY <1>7, <2>2, <2>3 DEF ProxyAnswers
<1>8. CASE ProxyFails(c)
  <2> DEFINE r == [scan[c] EXCEPT !.at = "direct", !.broken = TRUE]
  <2>1. r \in Scan /\ Searching(c, r)
    BY <1>1, <1>8 DEF Scan, Searching, ProxyFails
  <2>2. scan' = [scan EXCEPT ![c] = r]
    BY <1>1, <1>8 DEF ProxyFails
  <2> QED
    BY <1>3, <1>5, <1>8, <2>1, <2>2 DEF ProxyFails
<1>9. ASSUME scan[c].at = "direct", scan' = [scan EXCEPT ![c].at = "failed"],
             UNCHANGED <<cursor, page, counter>>
      PROVE  \E r \in Scan : ScanBecomes(c, r) /\ Shaped(c, r)
  <2> DEFINE r == [scan[c] EXCEPT !.at = "failed"]
  <2>1. r \in Scan /\ Searching(c, r)
    BY <1>1, <1>9 DEF Scan, Searching
  <2>2. scan' = [scan EXCEPT ![c] = r]
    BY <1>1, <1>9
  <2> QED
    BY <1>5, <1>9, <2>1, <2>2
<1>10. CASE DirectAnswers(c)
  <2>1. scan[c].at = "direct" /\ UNCHANGED <<cursor, page, counter>>
    BY <1>10 DEF DirectAnswers
  <2>2. CASE \E n \in 0..NPages[c] : scan' = Found(c, n)
    BY <1>3, <1>4, <2>1, <2>2
  <2>3. \/ \E n \in 0..NPages[c] : scan' = Found(c, n)
        \/ scan' = [scan EXCEPT ![c].at = "failed"]
    BY <1>2, <1>10 DEF DirectAnswers
  <2> QED
    BY <1>3, <1>9, <2>1, <2>2, <2>3
<1>11. CASE DirectFails(c)
  BY <1>3, <1>9, <1>11 DEF DirectFails
<1>12. CASE AskAgain(c)
  <2> DEFINE r == [scan[c] EXCEPT !.at = "search", !.query = @ + 1, !.via = 0,
                                  !.broken = FALSE]
  <2>1. r \in Scan /\ AskingAgain(c, r)
    BY <1>1, <1>12 DEF Scan, AskingAgain, AskAgain
  <2>2. scan' = [scan EXCEPT ![c] = r]
    BY <1>1, <1>12 DEF AskAgain
  <2> QED
    BY <1>3, <1>12, <2>1, <2>2 DEF AskAgain, ScanBecomes, Shaped
<1>13. CASE QueryDone(c)
  <2> DEFINE r ==
         [at |-> IF scan[c].query < NQueries[c] THEN "search" ELSE "done",
          query |-> IF scan[c].query < NQueries[c] THEN scan[c].query + 1
                    ELSE scan[c].query,
          via |-> 0, broken |-> FALSE, found |-> 0, index |-> 0, busy |-> {}]
  <2>1. r \in Scan /\ Finishing(c, r)
    BY <1>1, <1>13 DEF Scan, Finishing, QueryDone
  <2>2. scan' = [scan EXCEPT ![c] = r]
    BY <1>13 DEF QueryDone
  <2> QED
    BY <1>3, <1>13, <2>1, <2>2 DEF QueryDone, ScanBecomes, Shaped
<1>14. CASE \E i \in 1..NPages[c] : WorkerReturns(c, i)
  <2>1. PICK i \in 1..NPages[c] : WorkerReturns(c, i)
    BY <1>14
  <2> DEFINE r == [scan[c] EXCEPT !.busy = @ \ {i}]
  <2>2. r \in Scan /\ Returning(c, r)
    BY <1>1, <2>1 DEF Scan, Returning, WorkerReturns
  <2>3. scan' = [scan EXCEPT ![c] = r]
    BY <1>1, <2>1 DEF WorkerReturns
  <2> QED
    BY <1>3, <2>1, <2>2, <2>3 DEF WorkerReturns, ScanBecomes, Shaped
<1> QED
  BY <1>6, <1>7, <1>8, <1>10, <1>11, <1>12, <1>13, <1>14 DEF ScanStep

\* A worker that takes a page: the next one, which no other has.
LEMMA TakeEffect ==
  ASSUME TypeOK, Ranges, NEW c \in Scans, TakePage(c)
  PROVE  \E r \in Scan, i \in 1..NPages[c] :
           /\ i = scan[c].index + 1 /\ i <= scan[c].found
           /\ scan[c].at = "scrape" /\ Cardinality(scan[c].busy) < Concurrency
           /\ scan' = [scan EXCEPT ![c] = r]
           /\ r.at = "scrape" /\ r.query = scan[c].query /\ r.found = scan[c].found
           /\ r.index = i /\ r.busy = scan[c].busy \cup {i}
           /\ <<c, scan[c].query, i>> \in Pages
           /\ page' \in [Pages -> Page]
           /\ \A s \in Pages \ {<<c, scan[c].query, i>>} : page'[s] = page[s]
           /\ \/ page'[<<c, scan[c].query, i>>].at = "over" /\ counter' = counter
              \/ page'[<<c, scan[c].query, i>>].at = "markdown" /\ counter' = counter + 1
<1> DEFINE i == scan[c].index + 1
           s == <<c, scan[c].query, i>>
           r == [scan[c] EXCEPT !.index = i, !.busy = @ \cup {i}]
<1>1. scan[c] \in Scan /\ scan \in [Scans -> Scan] /\ InRange(c) /\ NPages[c] \in Nat
  BY ScanAssumption DEF TypeOK, Ranges
<1>2. scan[c].at = "scrape" /\ i <= scan[c].found /\ Cardinality(scan[c].busy) < Concurrency
  BY DEF TakePage
<1>3. i \in 1..NPages[c] /\ i \in Nat
  BY <1>1, <1>2 DEF InRange
<1>4. s \in Pages
  BY <1>1, <1>3, PageKeys DEF InRange
<1>5. r \in Scan /\ r.at = "scrape" /\ r.query = scan[c].query /\ r.found = scan[c].found
      /\ r.index = i /\ r.busy = scan[c].busy \cup {i}
  BY <1>1, <1>2, <1>3 DEF Scan
<1>6. scan' = [scan EXCEPT ![c] = r]
  BY <1>1 DEF TakePage
<1>7. /\ page' \in [Pages -> Page]
      /\ \A t \in Pages \ {s} : page'[t] = page[t]
      /\ \/ page'[s].at = "over" /\ counter' = counter
         \/ page'[s].at = "markdown" /\ counter' = counter + 1
  <2>1. page \in [Pages -> Page] /\ page[s] \in Page
    BY <1>4 DEF TypeOK
  <2>2. CASE page' = [page EXCEPT ![s].at = "over"] /\ counter' = counter
    BY <1>4, <2>1, <2>2 DEF Page
  <2>3. CASE /\ page' = [page EXCEPT ![s] = [at |-> "markdown", main |-> TRUE,
                                            title |-> FALSE]]
             /\ counter' = counter + 1
    BY <1>4, <2>1, <2>3 DEF Page
  <2> QED
    BY <2>2, <2>3 DEF TakePage
<1> QED
  BY <1>2, <1>3, <1>4, <1>5, <1>6, <1>7

(***************************************************************************)
(* Status and counters of the proxies.                                      *)
(***************************************************************************)
\* What a proxy is after a report, whichever searches reported before.
InStep(x) ==
  /\ x.status = "healthy" => x.failures = 0
  /\ x.streak > 0 => x.failures = 0
  /\ x.status = "unhealthy" => x.streak < SuccessStreak

\* recordSuccess keeps a proxy typed and in step.
LEMMA Succeeded ==
  ASSUME NEW x \in Proxy, InStep(x)
  PROVE  AfterSuccess(x) \in Proxy /\ InStep(AfterSuccess(x))
<1> DEFINE a == IF x.streak < SuccessStreak THEN x.streak + 1 ELSE x.streak
           st == IF x.streak + 1 >= SuccessStreak THEN "healthy" ELSE x.status
           y == AfterSuccess(x)
<1>1. SuccessStreak \in Nat \ {0}
  BY ScanAssumption
<1>2. x.streak \in Nat /\ x.status \in {"healthy", "cooldown", "unhealthy"}
  BY DEF Proxy
<1>3. a \in Nat /\ st \in {"healthy", "cooldown", "unhealthy"}
  BY <1>1, <1>2
<1>4. y = [x EXCEPT !.streak = a, !.failures = 0, !.status = st]
  BY DEF AfterSuccess
<1>5. st = "unhealthy" => a < SuccessStreak
  BY <1>1, <1>2
<1> HIDE DEF a, st, y
<1>6. y \in Proxy /\ y.streak = a /\ y.failures = 0 /\ y.status = st
  BY <1>3, <1>4 DEF Proxy
<1>7. InStep(y)
  BY <1>5, <1>6 DEF InStep
<1> QED
  BY <1>6, <1>7 DEF y

\* recordFailure keeps a proxy typed and in step.
LEMMA Failed ==
  ASSUME NEW x \in Proxy
  PROVE  AfterFailure(x) \in Proxy /\ InStep(AfterFailure(x))
<1> DEFINE b == x.failures + 1
           st == CASE x.failures + 1 >= MaxFailures -> "unhealthy"
                   [] x.failures + 1 < MaxFailures /\ x.status = "healthy" -> "cooldown"
                   [] OTHER -> x.status
           y == AfterFailure(x)
<1>1. SuccessStreak \in Nat \ {0} /\ MaxFailures \in Nat \ {0}
  BY ScanAssumption
<1>2. x.failures \in Nat /\ x.status \in {"healthy", "cooldown", "unhealthy"}
  BY DEF Proxy
<1>3. st \in {"cooldown", "unhealthy"}
  <2>1. CASE x.failures + 1 >= MaxFailures
    <3>1. ~(x.failures + 1 < MaxFailures)
      BY <1>1, <1>2, <2>1
    <3> QED
      BY <2>1, <3>1
  <2>2. CASE ~(x.failures + 1 >= MaxFailures)
    <3>1. x.failures + 1 < MaxFailures
      BY <1>1, <1>2, <2>2
    <3> QED
      BY <1>2, <2>2, <3>1
  <2> QED
    BY <2>1, <2>2
<1>4. y = [x EXCEPT !.failures = b, !.streak = 0, !.rested = FALSE, !.status = st]
  BY DEF AfterFailure
<1>5. b \in Nat /\ 0 \in Nat
  BY <1>2
<1> HIDE DEF b, st, y
<1>6. y \in Proxy /\ y.streak = 0 /\ y.failures = b /\ y.status = st
  BY <1>3, <1>4, <1>5 DEF Proxy
<1>7. InStep(y)
  BY <1>1, <1>3, <1>6 DEF InStep
<1> QED
  BY <1>6, <1>7 DEF y

\* Whatever happens, each proxy stays typed and in step.
LEMMA PoolStep ==
  ASSUME TypeOK, Ranges, StatusFollowsCounters, [Next]_vars
  PROVE  pool' \in [Proxies -> Proxy] /\ StatusFollowsCounters'
<1>1. pool \in [Proxies -> Proxy]
  BY DEF TypeOK
<1>2. ASSUME NEW p, NEW y, pool' = [pool EXCEPT ![p] = y],
             p \in Proxies => y = AfterSuccess(pool[p]) \/ y = AfterFailure(pool[p])
      PROVE  pool' \in [Proxies -> Proxy] /\ StatusFollowsCounters'
  <2>1. CASE p \in Proxies
    <3>1. pool[p] \in Proxy /\ InStep(pool[p])
      BY <1>1, <2>1 DEF StatusFollowsCounters, InStep
    <3>2. y \in Proxy /\ InStep(y)
      BY <1>2, <2>1, <3>1, Succeeded, Failed
    <3> QED
      BY <1>1, <1>2, <2>1, <3>2 DEF StatusFollowsCounters, InStep
  <2>2. CASE p \notin Proxies
    BY <1>1, <1>2, <2>2 DEF StatusFollowsCounters
  <2> QED
    BY <2>1, <2>2
<1>3. ASSUME pool' = pool
      PROVE  pool' \in [Proxies -> Proxy] /\ StatusFollowsCounters'
  BY <1>1, <1>3 DEF StatusFollowsCounters
<1>4. ASSUME NEW c \in Scans, ScanStep(c)
      PROVE  pool' \in [Proxies -> Proxy] /\ StatusFollowsCounters'
  <2>1. CASE ProxyAnswers(c)
    BY <1>2, <2>1 DEF ProxyAnswers
  <2>2. CASE ProxyFails(c)
    BY <1>2, <2>2 DEF ProxyFails
  <2>3. CASE \/ StartSearch(c) \/ DirectAnswers(c) \/ DirectFails(c) \/ TakePage(c)
             \/ QueryDone(c) \/ \E i \in 1..NPages[c] : WorkerReturns(c, i)
    BY <1>3, <2>3 DEF StartSearch, DirectAnswers, DirectFails, TakePage, QueryDone,
                      WorkerReturns
  <2> QED
    BY <1>4, <2>1, <2>2, <2>3 DEF ScanStep
<1>5. ASSUME NEW s \in Pages, PageStep(s)
      PROVE  pool' \in [Proxies -> Proxy] /\ StatusFollowsCounters'
  BY <1>3, <1>5, PageStepEffect
<1>6. ASSUME NEW c \in Scans, AskAgain(c)
      PROVE  pool' \in [Proxies -> Proxy] /\ StatusFollowsCounters'
  BY <1>3, <1>6 DEF AskAgain
<1>7. ASSUME NEW p \in Proxies, CooldownElapses(p)
      PROVE  pool' \in [Proxies -> Proxy] /\ StatusFollowsCounters'
  <2>1. pool[p] \in Proxy /\ pool' = [pool EXCEPT ![p].rested = TRUE]
    BY <1>1, <1>7 DEF CooldownElapses
  <2>2. /\ pool'[p] \in Proxy /\ pool'[p].status = pool[p].status
        /\ pool'[p].failures = pool[p].failures /\ pool'[p].streak = pool[p].streak
    BY <1>1, <2>1 DEF Proxy
  <2> QED
    BY <1>1, <1>7, <2>1, <2>2 DEF StatusFollowsCounters
<1>8. CASE HealthCheck
  <2>1. \A p \in Proxies :
          \/ pool'[p] = pool[p]
          \/ pool'[p] = [pool[p] EXCEPT !.status = "cooldown"]
    BY <1>8 DEF HealthCheck
  <2>2. \A p \in Proxies :
          \/ pool'[p] = pool[p]
          \/ /\ pool'[p] \in Proxy /\ pool'[p].status = "cooldown"
             /\ pool'[p].failures = pool[p].failures /\ pool'[p].streak = pool[p].streak
    BY <1>1, <2>1 DEF Proxy
  <2>3. pool' \in [Proxies -> Proxy]
    <3>1. DOMAIN pool' = Proxies /\ pool' = [p \in Proxies |-> pool'[p]]
      BY <1>8 DEF HealthCheck
    <3> QED
      BY <1>1, <2>2, <3>1
  <2> QED
    BY <2>2, <2>3 DEF StatusFollowsCounters
<1>9. CASE UNCHANGED vars
  BY <1>3, <1>9 DEF vars
<1> QED
  BY <1>4, <1>5, <1>6, <1>7, <1>8, <1>9 DEF Next

(***************************************************************************)
(* Types and ranges.                                                        *)
(***************************************************************************)
\* Each shape keeps the loop of a scan in range.
LEMMA ScanRanges ==
  ASSUME TypeOK, Ranges, NEW c \in Scans, NEW r \in Scan, Shaped(c, r),
         scan' = [scan EXCEPT ![c] = r]
  PROVE  /\ scan' \in [Scans -> Scan]
         /\ \A d \in Scans : InRange(d)'
<1>1. scan \in [Scans -> Scan] /\ InRange(c) /\ NPages[c] \in Nat /\ NQueries[c] \in Nat
  BY ScanAssumption DEF TypeOK, Ranges
<1>2. \A d \in Scans \ {c} : scan'[d] = scan[d]
  BY <1>1
<1>3. scan'[c] = r /\ scan' \in [Scans -> Scan]
  BY <1>1
<1>4. InRange(c)'
  <2>1. CASE Searching(c, r)
    BY <1>1, <1>3, <2>1 DEF Searching, InRange
  <2>2. CASE Finding(c, r)
    <3>1. scan[c].index = 0 /\ scan[c].busy = {}
      BY <1>1, <2>2 DEF Finding, InRange
    <3> QED
      BY <1>1, <1>3, <2>2, <3>1 DEF Finding, InRange
  <2>3. CASE AskingAgain(c, r)
    BY <1>1, <1>3, <2>3 DEF AskingAgain, InRange
  <2>4. CASE Returning(c, r)
    <3>1. PICK i \in 1..NPages[c] : r.busy = scan[c].busy \ {i}
      BY <2>4 DEF Returning
    <3>2. Cardinality(r.busy) <= Concurrency
      <4>1. IsFiniteSet(scan[c].busy) /\ Cardinality(scan[c].busy) <= Concurrency
        BY <1>1, BusyIsFinite DEF InRange
      <4>2. Cardinality(r.busy) <= Cardinality(scan[c].busy)
        BY <3>1, <4>1, FS_Subset
      <4>3. /\ Cardinality(scan[c].busy) \in Nat /\ Cardinality(r.busy) \in Nat
            /\ Concurrency \in Nat
        BY <3>1, <4>1, FS_CardinalityType, FS_RemoveElement, ScanAssumption
      <4> QED
        BY <4>1, <4>2, <4>3
    <3> QED
      BY <1>1, <1>3, <2>4, <3>1, <3>2 DEF Returning, InRange
  <2>5. CASE Finishing(c, r)
    <3>1. Cardinality({}) = 0 /\ Concurrency \in Nat
      BY FS_EmptySet, ScanAssumption
    <3>2. r.found = 0 /\ r.index = 0 /\ r.busy = {} /\ r.query \in 1..NQueries[c]
      BY <1>1, <2>5 DEF Finishing, InRange
    <3>3. /\ r.found \in 0..NPages[c] /\ r.index \in 0..r.found
          /\ r.busy \subseteq 1..r.index /\ Cardinality(r.busy) <= Concurrency
      BY <1>1, <3>1, <3>2
    <3> QED
      BY <1>3, <3>2, <3>3 DEF InRange
  <2> QED
    BY <2>1, <2>2, <2>3, <2>4, <2>5 DEF Shaped
<1>5. ASSUME NEW d \in Scans \ {c}
      PROVE  InRange(d)'
  BY <1>2 DEF Ranges, InRange
<1> QED
  BY <1>3, <1>4, <1>5

\* Types and ranges after a step; the pool is PoolStep's.
LEMMA TypeStep ==
  ASSUME TypeOK, Ranges, StatusFollowsCounters, [Next]_vars
  PROVE  TypeOK' /\ Ranges'
<1>1. pool' \in [Proxies -> Proxy]
  BY PoolStep
<1>2. /\ scan \in [Scans -> Scan] /\ page \in [Pages -> Page] /\ counter \in Int
      /\ cursor \in 1..(NProxies + 1)
      /\ (\A c \in Scans : InRange(c)) /\ TimersOfStarted
  BY DEF TypeOK, Ranges
<1>3. ASSUME UNCHANGED <<cursor, scan, page, counter>>
      PROVE  TypeOK' /\ Ranges'
  BY <1>1, <1>2, <1>3 DEF TypeOK, Ranges, InRange, TimersOfStarted
<1>4. ASSUME NEW c \in Scans, ScanStep(c) \/ AskAgain(c)
      PROVE  TypeOK' /\ Ranges'
  <2>1. CASE TakePage(c)
    <3>1. PICK r \in Scan, i \in 1..NPages[c] :
           /\ i = scan[c].index + 1 /\ i <= scan[c].found
           /\ scan[c].at = "scrape" /\ Cardinality(scan[c].busy) < Concurrency
           /\ scan' = [scan EXCEPT ![c] = r]
           /\ r.at = "scrape" /\ r.query = scan[c].query /\ r.found = scan[c].found
           /\ r.index = i /\ r.busy = scan[c].busy \cup {i}
           /\ <<c, scan[c].query, i>> \in Pages
           /\ page' \in [Pages -> Page]
           /\ \A s \in Pages \ {<<c, scan[c].query, i>>} : page'[s] = page[s]
           /\ \/ page'[<<c, scan[c].query, i>>].at = "over" /\ counter' = counter
              \/ page'[<<c, scan[c].query, i>>].at = "markdown" /\ counter' = counter + 1
      BY <2>1, TakeEffect
    <3>2. counter' \in Int /\ cursor' = cursor
      BY <1>2, <2>1, <3>1 DEF TakePage
    <3>3. scan'[c] = r /\ scan' \in [Scans -> Scan] /\ \A d \in Scans \ {c} : scan'[d] = scan[d]
      BY <1>2, <3>1
    <3>4. InRange(c)'
      <4>1. Cardinality(r.busy) <= Concurrency
        <5>1. IsFiniteSet(scan[c].busy)
          BY <1>2, BusyIsFinite
        <5>2. /\ Cardinality(scan[c].busy) \in Nat
              /\ Cardinality(r.busy) \in {Cardinality(scan[c].busy),
                                          Cardinality(scan[c].busy) + 1}
          BY <3>1, <5>1, FS_CardinalityType, FS_AddElement
        <5>3. Concurrency \in Nat
          BY ScanAssumption
        <5> QED
          BY <3>1, <5>2, <5>3
      <4>2. InRange(c) /\ NPages[c] \in Nat
        BY <1>2, ScanAssumption
      <4>3. r.index \in 0..r.found /\ r.found \in 0..NPages[c]
        BY <3>1, <4>2 DEF InRange
      <4>4. r.busy \subseteq 1..r.index
        BY <3>1, <4>2 DEF InRange
      <4> QED
        BY <3>1, <3>3, <4>1, <4>2, <4>3, <4>4 DEF InRange
    <3>5. \A d \in Scans : InRange(d)'
      BY <1>2, <3>3, <3>4 DEF InRange
    <3>6. TimersOfStarted'
      BY <1>2, <3>1 DEF TimersOfStarted
    <3> QED
      BY <1>1, <1>2, <3>1, <3>2, <3>3, <3>5, <3>6 DEF TypeOK, Ranges
  <2>2. CASE ~TakePage(c)
    <3>1. PICK r \in Scan : ScanBecomes(c, r) /\ Shaped(c, r)
      BY <1>4, <2>2, ScanEffect
    <3>2. scan' \in [Scans -> Scan] /\ \A d \in Scans : InRange(d)'
      BY <3>1, ScanRanges DEF ScanBecomes
    <3>3. cursor' \in 1..(NProxies + 1)
      BY <1>4, <2>2, ScanEffect
    <3> QED
      BY <1>1, <1>2, <3>1, <3>2, <3>3 DEF ScanBecomes, TypeOK, Ranges, TimersOfStarted
  <2> QED
    BY <2>1, <2>2
<1>5. ASSUME NEW s \in Pages, PageStep(s)
      PROVE  TypeOK' /\ Ranges'
  <2>1. (PageOver(s) \/ PageHasText(s)) /\ UNCHANGED <<pool, cursor, scan>>
    BY <1>5, PageStepEffect
  <2>2. /\ page' \in [Pages -> Page] /\ page'[s].at # "none" /\ counter' \in Int
        /\ \A t \in Pages \ {s} : page'[t] = page[t]
    BY <1>2, <2>1 DEF PageOver, PageHasText
  <2>3. TimersOfStarted'
    BY <1>2, <2>2 DEF TimersOfStarted
  <2> QED
    BY <1>1, <1>2, <2>1, <2>2, <2>3 DEF TypeOK, Ranges, InRange
<1>6. ASSUME NEW p \in Proxies, CooldownElapses(p)
      PROVE  TypeOK' /\ Ranges'
  BY <1>3, <1>6 DEF CooldownElapses
<1>7. CASE HealthCheck
  BY <1>3, <1>7 DEF HealthCheck
<1>8. CASE UNCHANGED vars
  BY <1>3, <1>8 DEF vars
<1> QED
  BY <1>4, <1>5, <1>6, <1>7, <1>8 DEF Next

(***************************************************************************)
(* Which pages are started.                                                 *)
(***************************************************************************)
\* Another scan's step leaves what a scan knows of its pages.
LEMMA SeenKept ==
  ASSUME NEW d \in Scans, NEW q, NEW i, Seen(d, q, i), scan'[d] = scan[d],
         page'[<<d, q, i>>] = page[<<d, q, i>>]
  PROVE  Seen(d, q, i)'
BY DEF Seen, Running

\* What scans know of their pages stays true.
LEMMA SeenStep ==
  ASSUME TypeOK, Ranges, PagesSeen, [Next]_vars
  PROVE  PagesSeen'
<1>1. /\ scan \in [Scans -> Scan] /\ page \in [Pages -> Page]
      /\ \A c \in Scans : InRange(c) /\ NQueries[c] \in Nat /\ NPages[c] \in Nat
  BY ScanAssumption DEF TypeOK, Ranges
<1>2. ASSUME UNCHANGED <<scan, page>>
      PROVE  PagesSeen'
  BY <1>2 DEF PagesSeen, Seen, Running
<1>3. ASSUME NEW c \in Scans, ScanStep(c) \/ AskAgain(c), ~TakePage(c)
      PROVE  PagesSeen'
  <2>1. PICK r \in Scan : ScanBecomes(c, r) /\ Shaped(c, r)
    BY <1>3, ScanEffect
  <2>2. scan'[c] = r /\ page' = page /\ \A d \in Scans \ {c} : scan'[d] = scan[d]
    BY <1>1, <2>1 DEF ScanBecomes
  <2>3. ASSUME NEW q \in 1..NQueries[c], NEW i \in 1..NPages[c]
        PROVE  Seen(c, q, i)'
    <3>1. Seen(c, q, i) /\ InRange(c) /\ q \in Nat /\ i \in Nat /\ scan[c].query \in Nat
      BY <1>1 DEF PagesSeen, InRange
    <3>2. CASE Searching(c, r)
      BY <2>2, <3>1, <3>2 DEF Searching, Seen, Running
    <3>3. CASE Finding(c, r)
      <4>1. r.index = 0 /\ (page[<<c, q, i>>].at = "none" \/ q # scan[c].query)
        BY <3>1, <3>3 DEF Finding, Seen, InRange
      <4>2. ~Running(<<c, q, i>>)
        BY <3>1, <3>3 DEF Finding, Seen
      <4>3. ~(i <= 0)
        OBVIOUS
      <4> QED
        BY <2>2, <3>1, <3>3, <4>1, <4>2, <4>3 DEF Finding, Seen, Running
    <3>4. CASE AskingAgain(c, r)
      <4>1. ~Running(<<c, q, i>>)
        BY <3>1, <3>4 DEF AskingAgain, Seen
      <4>2. q >= r.query => page[<<c, q, i>>].at = "none"
        <5>1. q >= r.query => q > scan[c].query
          BY <3>1, <3>4 DEF AskingAgain
        <5> QED
          BY <3>1, <5>1 DEF Seen
      <4> QED
        BY <2>2, <3>1, <3>4, <4>1, <4>2 DEF AskingAgain, Seen, Running
    <3>5. CASE Returning(c, r)
      <4>1. PICK k \in 1..NPages[c] : /\ page[<<c, scan[c].query, k>>].at = "over"
                                      /\ r.busy = scan[c].busy \ {k}
        BY <3>5 DEF Returning
      <4>2. Running(<<c, q, i>>) => q = scan[c].query /\ i \in r.busy
        BY <3>1, <4>1 DEF Seen, Running
      <4> QED
        BY <2>2, <3>1, <3>5, <4>2 DEF Returning, Seen, Running
    <3>6. CASE Finishing(c, r)
      <4>1. ~Running(<<c, q, i>>)
        BY <3>1, <3>6 DEF Finishing, Seen
      <4>2. q > scan[c].query => page[<<c, q, i>>].at = "none"
        BY <3>1 DEF Seen
      <4>3. CASE r.at = "search" /\ r.query = scan[c].query + 1
        <5>1. q >= r.query => q > scan[c].query
          BY <3>1, <4>3
        <5> QED
          BY <2>2, <3>1, <4>1, <4>2, <4>3, <5>1 DEF Seen, Running
      <4>4. CASE r.at = "done" /\ r.query = scan[c].query
        BY <2>2, <4>1, <4>2, <4>4 DEF Seen, Running
      <4> QED
        BY <3>6, <4>3, <4>4 DEF Finishing
    <3> QED
      BY <2>1, <3>2, <3>3, <3>4, <3>5, <3>6 DEF Shaped
  <2>4. ASSUME NEW d \in Scans \ {c}, NEW q \in 1..NQueries[d], NEW i \in 1..NPages[d]
        PROVE  Seen(d, q, i)'
    <3>1. Seen(d, q, i)
      BY DEF PagesSeen
    <3> QED
      BY <2>2, <3>1, SeenKept
  <2> QED
    BY <2>3, <2>4 DEF PagesSeen
<1>4. ASSUME NEW c \in Scans, TakePage(c)
      PROVE  PagesSeen'
  <2>1. PICK r \in Scan, k \in 1..NPages[c] :
           /\ k = scan[c].index + 1 /\ k <= scan[c].found
           /\ scan[c].at = "scrape" /\ Cardinality(scan[c].busy) < Concurrency
           /\ scan' = [scan EXCEPT ![c] = r]
           /\ r.at = "scrape" /\ r.query = scan[c].query /\ r.found = scan[c].found
           /\ r.index = k /\ r.busy = scan[c].busy \cup {k}
           /\ <<c, scan[c].query, k>> \in Pages
           /\ page' \in [Pages -> Page]
           /\ \A s \in Pages \ {<<c, scan[c].query, k>>} : page'[s] = page[s]
           /\ \/ page'[<<c, scan[c].query, k>>].at = "over" /\ counter' = counter
              \/ page'[<<c, scan[c].query, k>>].at = "markdown" /\ counter' = counter + 1
    BY <1>4, TakeEffect
  <2>2. scan'[c] = r /\ \A d \in Scans \ {c} : scan'[d] = scan[d]
    BY <1>1, <2>1
  <2>3. ASSUME NEW q \in 1..NQueries[c], NEW i \in 1..NPages[c]
        PROVE  Seen(c, q, i)'
    <3>1. /\ Seen(c, q, i) /\ q \in Nat /\ i \in Nat /\ k \in Nat
          /\ scan[c].query \in Nat /\ scan[c].index \in Nat
      BY <1>1 DEF PagesSeen, InRange, Scan
    <3>2. CASE q = scan[c].query /\ i = k
      <4>1. page'[<<c, q, i>>].at \in {"over", "markdown"}
        BY <2>1, <3>2
      <4> QED
        BY <2>1, <2>2, <3>1, <3>2, <4>1 DEF Seen, Running
    <3>3. CASE ~(q = scan[c].query /\ i = k)
      <4>1. <<c, q, i>> \in Pages /\ <<c, q, i>> # <<c, scan[c].query, k>>
        BY <3>3, PageKeys
      <4>2. page'[<<c, q, i>>] = page[<<c, q, i>>]
        BY <2>1, <4>1
      <4>3. q = scan[c].query => (i <= scan[c].index <=> i <= k)
        BY <2>1, <3>1, <3>3
      <4> QED
        BY <2>1, <2>2, <3>1, <4>2, <4>3 DEF Seen, Running
    <3> QED
      BY <3>2, <3>3
  <2>4. ASSUME NEW d \in Scans \ {c}, NEW q \in 1..NQueries[d], NEW i \in 1..NPages[d]
        PROVE  Seen(d, q, i)'
    <3>1. Seen(d, q, i) /\ <<d, q, i>> \in Pages
      BY PageKeys DEF PagesSeen
    <3>2. page'[<<d, q, i>>] = page[<<d, q, i>>]
      BY <2>1, <3>1
    <3> QED
      BY <2>2, <3>1, <3>2, SeenKept
  <2> QED
    BY <2>3, <2>4 DEF PagesSeen
<1>5. ASSUME NEW s \in Pages, PageStep(s)
      PROVE  PagesSeen'
  <2>1. (PageOver(s) \/ PageHasText(s)) /\ UNCHANGED <<pool, cursor, scan>>
    BY <1>5, PageStepEffect
  <2>2. /\ page[s].at # "none" /\ page'[s].at # "none"
        /\ page'[s].at \in {"markdown", "title"} => page[s].at \in {"markdown", "title"}
        /\ \A t \in Pages \ {s} : page'[t] = page[t]
    BY <2>1 DEF PageOver, PageHasText
  <2>3. ASSUME NEW d \in Scans, NEW q \in 1..NQueries[d], NEW i \in 1..NPages[d]
        PROVE  Seen(d, q, i)'
    <3>1. Seen(d, q, i) /\ <<d, q, i>> \in Pages
      BY PageKeys DEF PagesSeen
    <3>2. CASE <<d, q, i>> = s
      <4>1. /\ page[<<d, q, i>>].at # "none" /\ page'[<<d, q, i>>].at # "none"
            /\ page'[<<d, q, i>>].at \in {"markdown", "title"} =>
                 page[<<d, q, i>>].at \in {"markdown", "title"}
        BY <2>2, <3>2
      <4> QED
        BY <2>1, <3>1, <4>1 DEF Seen, Running
    <3>3. CASE <<d, q, i>> # s
      <4>1. page'[<<d, q, i>>] = page[<<d, q, i>>]
        BY <2>2, <3>1, <3>3
      <4> QED
        BY <2>1, <3>1, <4>1, SeenKept
    <3> QED
      BY <3>2, <3>3
  <2> QED
    BY <2>3 DEF PagesSeen
<1>6. ASSUME NEW p \in Proxies, CooldownElapses(p)
      PROVE  PagesSeen'
  BY <1>2, <1>6 DEF CooldownElapses
<1>7. CASE HealthCheck
  BY <1>2, <1>7 DEF HealthCheck
<1>8. CASE UNCHANGED vars
  BY <1>2, <1>8 DEF vars
<1> QED
  BY <1>3, <1>4, <1>5, <1>6, <1>7, <1>8 DEF Next

(***************************************************************************)
(* The slots.                                                               *)
(***************************************************************************)
\* The counter stays at most the number of pages that run.
LEMMA SlotsStep ==
  ASSUME TypeOK, Ranges, PagesSeen, SlotsCounted, [Next]_vars
  PROVE  SlotsCounted'
<1> DEFINE R == {s \in Pages : Running(s)}
           n == Cardinality(R)
<1>1. page \in [Pages -> Page] /\ counter \in Int /\ IsFiniteSet(R) /\ counter <= n /\ n \in Nat
  BY FS_CardinalityType DEF TypeOK, SlotsCounted, SlotsAreGivenBack
<1>2. ASSUME UNCHANGED page, counter' = counter
      PROVE  SlotsCounted'
  BY <1>1, <1>2 DEF SlotsCounted, SlotsAreGivenBack, Running
<1>3. ASSUME NEW c \in Scans, ScanStep(c) \/ AskAgain(c), ~TakePage(c)
      PROVE  SlotsCounted'
  BY <1>2, <1>3, ScanEffect DEF ScanBecomes
<1>4. ASSUME NEW c \in Scans, TakePage(c)
      PROVE  SlotsCounted'
  <2>1. PICK i \in 1..NPages[c] :
           /\ i = scan[c].index + 1
           /\ scan[c].at = "scrape"
           /\ <<c, scan[c].query, i>> \in Pages
           /\ \A t \in Pages \ {<<c, scan[c].query, i>>} : page'[t] = page[t]
           /\ \/ page'[<<c, scan[c].query, i>>].at = "over" /\ counter' = counter
              \/ page'[<<c, scan[c].query, i>>].at = "markdown" /\ counter' = counter + 1
    BY <1>4, TakeEffect
  <2> DEFINE s == <<c, scan[c].query, i>>
  <2>2. page[s].at = "none"
    <3>1. Seen(c, scan[c].query, i) /\ scan[c].index \in Int
      BY <2>1, PageKeys DEF PagesSeen, TypeOK, Scan
    <3>2. ~(i <= scan[c].index) /\ page[s] \in Page
      BY <1>1, <2>1, <3>1
    <3> QED
      BY <2>1, <3>1, <3>2 DEF Seen, Page
  <2>3. s \notin R
    BY <2>2 DEF Running
  <2>4. CASE page'[s].at = "over" /\ counter' = counter
    <3>1. R' = R
      BY <2>1, <2>2, <2>4 DEF Running
    <3> QED
      BY <1>1, <2>4, <3>1 DEF SlotsCounted, SlotsAreGivenBack
  <2>5. CASE page'[s].at = "markdown" /\ counter' = counter + 1
    <3>1. R' = R \cup {s}
      BY <2>1, <2>5 DEF Running
    <3>2. IsFiniteSet(R \cup {s}) /\ Cardinality(R \cup {s}) = n + 1
      <4> HIDE DEF R, s
      <4> QED
        BY <1>1, <2>3, FS_AddElement
    <3>3. IsFiniteSet(R') /\ Cardinality(R') = n + 1
      <4> HIDE DEF R, s
      <4> QED
        BY <3>1, <3>2
    <3> QED
      BY <1>1, <2>5, <3>3 DEF SlotsCounted, SlotsAreGivenBack
  <2> QED
    BY <2>1, <2>4, <2>5
<1>5. ASSUME NEW s \in Pages, PageStep(s)
      PROVE  SlotsCounted'
  <2>1. CASE PageHasText(s)
    <3>1. R' = R
      BY <2>1 DEF PageHasText, Running
    <3> QED
      BY <1>1, <2>1, <3>1 DEF PageHasText, SlotsCounted, SlotsAreGivenBack
  <2>2. CASE PageOver(s)
    <3>1. R' = R \ {s}
      BY <2>2 DEF PageOver, Running
    <3>2. IsFiniteSet(R') /\ Cardinality(R') = n - DoneWith(s)
      BY <1>1, <3>1, FS_RemoveElement DEF DoneWith
    <3>3. counter' \in Int /\ counter' <= counter - DoneWith(s) /\ DoneWith(s) \in {0, 1}
      BY <2>2 DEF PageOver, DoneWith
    <3>4. counter' <= Cardinality(R')
      BY <1>1, <3>2, <3>3
    <3> QED
      BY <3>2, <3>4 DEF SlotsCounted, SlotsAreGivenBack
  <2> QED
    BY <1>5, <2>1, <2>2, PageStepEffect
<1>6. ASSUME NEW p \in Proxies, CooldownElapses(p)
      PROVE  SlotsCounted'
  BY <1>2, <1>6 DEF CooldownElapses
<1>7. CASE HealthCheck
  BY <1>2, <1>7 DEF HealthCheck
<1>8. CASE UNCHANGED vars
  BY <1>2, <1>8 DEF vars
<1> QED
  BY <1>3, <1>4, <1>5, <1>6, <1>7, <1>8 DEF Next

(***************************************************************************)
(* The invariant, and the theorems.                                         *)
(***************************************************************************)
\* What the loop of a scan knows of its pages says that each is taken once.
LEMMA SeenOnce ==
  ASSUME TypeOK, Ranges, PagesSeen
  PROVE  EachPageOnce
<1> SUFFICES ASSUME NEW c \in Scans, NEW q \in 1..NQueries[c]
             PROVE  LET of(at) == {i \in 1..NPages[c] : page[<<c, q, i>>].at \in at}
                        now == q = scan[c].query /\ scan[c].at = "scrape"
                    IN  /\ now => of({"markdown", "title", "over"}) = 1..scan[c].index
                        /\ now => of({"markdown", "title"}) \subseteq scan[c].busy
                        /\ ~now => of({"markdown", "title"}) = {}
                        /\ Cardinality(of({"markdown", "title"})) <= Concurrency
  BY DEF EachPageOnce
<1> DEFINE of(at) == {i \in 1..NPages[c] : page[<<c, q, i>>].at \in at}
           now == q = scan[c].query /\ scan[c].at = "scrape"
           runs == of({"markdown", "title"})
<1>1. /\ InRange(c) /\ NPages[c] \in Nat /\ scan[c].index \in Nat /\ scan[c].found \in Nat
      /\ scan[c].index <= NPages[c]
  BY ScanAssumption DEF Ranges, InRange
<1>2. \A i \in 1..NPages[c] :
        /\ Seen(c, q, i)
        /\ page[<<c, q, i>>].at # "none" <=> page[<<c, q, i>>].at \in {"markdown", "title", "over"}
        /\ page[<<c, q, i>>].at \in {"markdown", "title"} <=> Running(<<c, q, i>>)
  BY PageKeys DEF TypeOK, PagesSeen, Page, Running
<1>3. now => of({"markdown", "title", "over"}) = 1..scan[c].index
  <2>1. now => \A i \in 1..NPages[c] :
                 page[<<c, q, i>>].at \in {"markdown", "title", "over"} <=> i <= scan[c].index
    BY <1>2 DEF Seen
  <2> QED
    BY <1>1, <2>1
<1>4. runs \subseteq scan[c].busy /\ (~now => runs = {})
  BY <1>2 DEF Seen
<1>5. Cardinality(runs) <= Concurrency
  <2>1. IsFiniteSet(scan[c].busy) /\ Cardinality(scan[c].busy) <= Concurrency
    BY <1>1, BusyIsFinite DEF InRange
  <2>2. /\ IsFiniteSet(runs) /\ Cardinality(runs) <= Cardinality(scan[c].busy)
        /\ Cardinality(runs) \in Nat /\ Cardinality(scan[c].busy) \in Nat
    <3> HIDE DEF runs
    <3> QED
      BY <1>4, <2>1, FS_Subset, FS_CardinalityType
  <2> QED
    BY <2>1, <2>2, ScanAssumption
<1> QED
  BY <1>3, <1>4, <1>5

IInv == TypeOK /\ Ranges /\ StatusFollowsCounters /\ PagesSeen /\ SlotsCounted

\* At the start nothing is started.
LEMMA InitHolds ==
  ASSUME Init
  PROVE  IInv
<1>1. TypeOK
  BY ScanAssumption DEF Init, TypeOK, Proxy, Scan, Page, Pages
<1>2. Ranges
  <2>1. TimersOfStarted
    BY DEF Init, TimersOfStarted
  <2>2. ASSUME NEW c \in Scans
        PROVE  InRange(c)
    <3>1. /\ scan[c].at = "search" /\ scan[c].query = 1 /\ scan[c].found = 0
          /\ scan[c].index = 0 /\ scan[c].busy = {}
      BY DEF Init
    <3>2. NQueries[c] \in Nat \ {0} /\ NPages[c] \in Nat /\ Concurrency \in Nat
      BY ScanAssumption
    <3>3. Cardinality(scan[c].busy) = 0
      BY <3>1, FS_EmptySet
    <3> QED
      BY <3>1, <3>2, <3>3 DEF InRange
  <2> QED
    BY <2>1, <2>2 DEF Ranges
<1>3. StatusFollowsCounters
  BY DEF Init, StatusFollowsCounters
<1>4. \A s \in Pages : page[s].at = "none"
  BY DEF Init
<1>5. PagesSeen
  <2> SUFFICES ASSUME NEW c \in Scans, NEW q \in 1..NQueries[c], NEW i \in 1..NPages[c]
               PROVE  Seen(c, q, i)
    BY DEF PagesSeen
  <2>1. page[<<c, q, i>>].at = "none" /\ scan[c].at = "search"
    BY <1>4, PageKeys DEF Init
  <2> QED
    BY <2>1 DEF Seen, Running
<1>6. SlotsCounted
  <2>1. {s \in Pages : Running(s)} = {}
    BY <1>4 DEF Running
  <2>2. /\ IsFiniteSet({s \in Pages : Running(s)})
        /\ Cardinality({s \in Pages : Running(s)}) = 0
    BY <2>1, FS_EmptySet
  <2>3. counter = 0
    BY DEF Init
  <2> QED
    BY <2>2, <2>3 DEF SlotsCounted, SlotsAreGivenBack
<1> QED
  BY <1>1, <1>2, <1>3, <1>5, <1>6 DEF IInv

\* The invariant is inductive.
LEMMA StepHolds ==
  ASSUME IInv, [Next]_vars
  PROVE  IInv'
<1>1. TypeOK /\ Ranges /\ StatusFollowsCounters /\ PagesSeen /\ SlotsCounted
  BY DEF IInv
<1>2. TypeOK' /\ Ranges'
  BY <1>1, TypeStep
<1>3. StatusFollowsCounters'
  BY <1>1, PoolStep
<1>4. PagesSeen'
  BY <1>1, SeenStep
<1>5. SlotsCounted'
  BY <1>1, SlotsStep
<1> QED
  BY <1>2, <1>3, <1>4, <1>5 DEF IInv

\* The invariant holds throughout.
LEMMA Invariance == Spec => []IInv
<1>1. Init => IInv
  BY InitHolds
<1>2. IInv /\ [Next]_vars => IInv'
  BY StepHolds
<1> QED
  BY <1>1, <1>2, PTL DEF Spec

\* The type invariant: in particular getNextHealthyProxy always returns a proxy
\* of the pool, and the rotating index stays in the pool or just past it.
THEOREM ScansTyped == Spec => []TypeOK
<1>1. IInv => TypeOK
  BY DEF IInv
<1> QED
  BY <1>1, Invariance, PTL

\* However searches overlap and report late, recordSuccess and recordFailure keep
\* a proxy's status in step with its counters.
THEOREM ProxiesInStep == Spec => []StatusFollowsCounters
<1>1. IInv => StatusFollowsCounters
  BY DEF IInv
<1> QED
  BY <1>1, Invariance, PTL

\* The workers of pMap neither scrape a page twice nor drop one, and no more
\* pages run than there are workers.
THEOREM PagesTakenOnce == Spec => []EachPageOnce
<1>1. IInv => EachPageOnce
  BY SeenOnce DEF IInv
<1> QED
  BY <1>1, Invariance, PTL

\* No event of a page, in any order, loses a slot of CONCURRENCY_COUNTER.
THEOREM SlotsComeBack == Spec => []SlotsAreGivenBack
<1>1. IInv => SlotsAreGivenBack
  BY DEF IInv, SlotsCounted
<1> QED
  BY <1>1, Invariance, PTL

=============================================================================
