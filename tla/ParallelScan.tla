---------------------------- MODULE ParallelScan ----------------------------
(***************************************************************************)
(* The parallel scans of LightServ: parallel-scanner.ts, which for each of  *)
(* its queries searches (search.ts) through a rotating pool of proxies      *)
(* (proxy.ts) and then scrapes the pages it found with a few workers, each  *)
(* page in a process of its own (lightpanda-scrape.ts).                     *)
(*                                                                          *)
(* Scans run side by side and share the pool, where each search records how *)
(* its proxy did after it has waited for the answer, and the counter that   *)
(* caps the number of processes, which is touched by every event of a page: *)
(* answers, timers that nobody clears, and the end of the process.          *)
(***************************************************************************)
EXTENDS Integers, FiniteSets

CONSTANTS
  Scans,          \* scans in progress
  NProxies,       \* length of the proxy pool
  MaxFailures,    \* PROXY_HEALTH_MAX_FAILURES
  SuccessStreak,  \* PROXY_HEALTH_SUCCESS_STREAK
  MaxConcurrent,  \* MAX_CONCURRENT_SCRAPE
  Concurrency,    \* workers of one scan
  NQueries,       \* NQueries[c] : the queries of scan c
  NPages          \* NPages[c] : the pages it scrapes for one query, at most

Proxies == 1..NProxies
Pages == UNION {{c} \X (1..NQueries[c]) \X (1..NPages[c]) : c \in Scans}

ASSUME ScanAssumption ==
  /\ NProxies \in Nat
  /\ MaxFailures \in Nat \ {0}
  /\ SuccessStreak \in Nat \ {0}
  /\ MaxConcurrent \in Nat \ {0}
  /\ Concurrency \in Nat \ {0}
  /\ NQueries \in [Scans -> Nat \ {0}]
  /\ NPages \in [Scans -> Nat]

VARIABLES
  pool,     \* proxyPool
  cursor,   \* currentProxyIndex + 1
  scan,     \* scan[c] : the loop of parallelDeepScan
  page,     \* page[s] : the scrape of the page s
  counter   \* CONCURRENCY_COUNTER.current

vars == <<pool, cursor, scan, page, counter>>

\* rested: PROXY_HEALTH_FAILURE_COOLDOWN has passed since the last failure.
Proxy == [status : {"healthy", "cooldown", "unhealthy"}, streak : Nat, failures : Nat,
          rested : BOOLEAN]

\* query: the query of the loop; via: the proxy of its search, or 0; found: pages
\* to scrape; index: the counter that the workers share; busy: what they scrape.
Scan == [at : {"search", "direct", "scrape", "done", "failed"}, query : Nat, via : Nat,
         broken : BOOLEAN, found : Nat, index : Nat, busy : SUBSET Nat]

\* main, title: the timers that are set.
Page == [at : {"none", "markdown", "title", "over"}, main : BOOLEAN, title : BOOLEAN]

(***************************************************************************)
(* The pool of proxies.                                                     *)
(***************************************************************************)
Usable(p) == pool[p].status \in {"healthy", "cooldown"}

\* The distance of p from the cursor in the direction of the rotation.
Ahead(p) == (p - cursor) % NProxies

\* Fewer failures, or as many and earlier in the pool.
Better(p, q) ==
  \/ pool[p].failures < pool[q].failures
  \/ pool[p].failures = pool[q].failures /\ p <= q

\* getNextHealthyProxy: the next usable proxy, or the one with the fewest failures.
NextProxy ==
  LET usable == {p \in Proxies : Usable(p)}
  IN  IF usable # {} THEN CHOOSE p \in usable : \A q \in usable : Ahead(p) <= Ahead(q)
      ELSE CHOOSE p \in Proxies : \A q \in Proxies : Better(p, q)

\* A usable proxy moves the index past it and around, the other one past it only.
CursorAfter(p) == IF Usable(p) THEN (p % NProxies) + 1 ELSE p + 1

AfterSuccess(x) ==
  [x EXCEPT !.streak = IF @ < SuccessStreak THEN @ + 1 ELSE @,
            !.failures = 0,
            !.status = IF x.streak + 1 >= SuccessStreak THEN "healthy" ELSE @]

\* Seeded fault: a failure leaves the streak of successes.
AfterFailureKeepsStreak(x) ==
  [x EXCEPT !.failures = @ + 1, !.rested = FALSE,
            !.status = CASE x.failures + 1 >= MaxFailures -> "unhealthy"
                         [] x.failures + 1 < MaxFailures /\ @ = "healthy" -> "cooldown"
                         [] OTHER -> @]

AfterFailure(x) ==
  [x EXCEPT !.failures = @ + 1, !.streak = 0, !.rested = FALSE,
            !.status = CASE x.failures + 1 >= MaxFailures -> "unhealthy"
                         [] x.failures + 1 < MaxFailures /\ @ = "healthy" -> "cooldown"
                         [] OTHER -> @]

CooldownElapses(p) ==
  /\ pool[p].status = "unhealthy" /\ ~pool[p].rested
  /\ pool' = [pool EXCEPT ![p].rested = TRUE]
  /\ UNCHANGED <<cursor, scan, page, counter>>

\* runHealthCheck, once a minute.
HealthCheck ==
  /\ \E p \in Proxies : pool[p].status = "unhealthy" /\ pool[p].rested
  /\ pool' = [p \in Proxies |->
                IF pool[p].status = "unhealthy" /\ pool[p].rested
                THEN [pool[p] EXCEPT !.status = "cooldown"] ELSE pool[p]]
  /\ UNCHANGED <<cursor, scan, page, counter>>

(***************************************************************************)
(* search, for the query of a scan.                                         *)
(***************************************************************************)
\* The pages a scan goes on to, when its search has succeeded with n results.
Found(c, n) == [scan EXCEPT ![c].at = "scrape", ![c].via = 0, ![c].found = n]

\* The cache may have the query; without a proxy the request is direct.
StartSearch(c) ==
  /\ scan[c].at = "search" /\ scan[c].via = 0
  /\ \/ /\ \E n \in 0..NPages[c] : scan' = Found(c, n)
        /\ UNCHANGED cursor
     \/ /\ scan' = IF NProxies = 0 THEN [scan EXCEPT ![c].at = "direct"]
                   ELSE [scan EXCEPT ![c].via = NextProxy]
        /\ cursor' = IF NProxies = 0 THEN cursor ELSE CursorAfter(NextProxy)
  /\ UNCHANGED <<pool, page, counter>>

\* An answer without results counts as a success of the proxy.
ProxyAnswers(c) ==
  /\ scan[c].at = "search" /\ scan[c].via # 0
  /\ pool' = [pool EXCEPT ![scan[c].via] = AfterSuccess(@)]
  /\ \/ \E n \in 1..NPages[c] : scan' = Found(c, n)
     \/ scan' = [scan EXCEPT ![c].at = "direct"]
  /\ UNCHANGED <<cursor, page, counter>>

ProxyFails(c) ==
  /\ scan[c].at = "search" /\ scan[c].via # 0
  /\ pool' = [pool EXCEPT ![scan[c].via] = AfterFailure(@)]
  /\ scan' = [scan EXCEPT ![c].at = "direct", ![c].broken = TRUE]
  /\ UNCHANGED <<cursor, page, counter>>

\* No results are an error only if the proxy failed before.
DirectAnswers(c) ==
  /\ scan[c].at = "direct"
  /\ \/ \E n \in 1..NPages[c] : scan' = Found(c, n)
     \/ ~scan[c].broken /\ scan' = Found(c, 0)
     \/ scan[c].broken /\ scan' = [scan EXCEPT ![c].at = "failed"]
  /\ UNCHANGED <<pool, cursor, page, counter>>

\* search throws, and so does the scan: the pages it has scraped are lost.
DirectFails(c) ==
  /\ scan[c].at = "direct"
  /\ scan' = [scan EXCEPT ![c].at = "failed"]
  /\ UNCHANGED <<pool, cursor, page, counter>>

\* Whoever asked for a scan that failed asks again, for the queries that are left.
AskAgain(c) ==
  /\ scan[c].at = "failed" /\ scan[c].query < NQueries[c]
  /\ scan' = [scan EXCEPT ![c].at = "search", ![c].query = @ + 1, ![c].via = 0,
                          ![c].broken = FALSE]
  /\ UNCHANGED <<pool, cursor, page, counter>>

(***************************************************************************)
(* pMap: the workers of a scan.                                             *)
(***************************************************************************)
\* A worker takes the next page; scrape returns null at once at the cap.
TakePage(c) ==
  LET i == scan[c].index + 1
      s == <<c, scan[c].query, i>>
  IN  /\ scan[c].at = "scrape"
      /\ i <= scan[c].found
      /\ Cardinality(scan[c].busy) < Concurrency
      /\ scan' = [scan EXCEPT ![c].index = i, ![c].busy = @ \cup {i}]
      /\ \/ /\ counter >= MaxConcurrent
            /\ page' = [page EXCEPT ![s].at = "over"]
            /\ UNCHANGED counter
         \/ /\ counter < MaxConcurrent
            /\ page' = [page EXCEPT ![s] = [at |-> "markdown", main |-> TRUE, title |-> FALSE]]
            /\ counter' = counter + 1
      /\ UNCHANGED <<pool, cursor>>

WorkerReturns(c, i) ==
  /\ scan[c].at = "scrape"
  /\ i \in scan[c].busy
  /\ page[<<c, scan[c].query, i>>].at = "over"
  /\ scan' = [scan EXCEPT ![c].busy = @ \ {i}]
  /\ UNCHANGED <<pool, cursor, page, counter>>

\* Seeded fault: the scan goes on when one worker has run out of pages.
QueryDoneEarly(c) ==
  /\ scan[c].at = "scrape"
  /\ scan[c].index = scan[c].found
  /\ scan' = [scan EXCEPT ![c] =
       [at |-> IF scan[c].query < NQueries[c] THEN "search" ELSE "done",
        query |-> IF scan[c].query < NQueries[c] THEN scan[c].query + 1 ELSE scan[c].query,
        via |-> 0, broken |-> FALSE, found |-> 0, index |-> 0, busy |-> {}]]
  /\ UNCHANGED <<pool, cursor, page, counter>>

\* All workers have returned: the next query, or the end.
QueryDone(c) ==
  /\ scan[c].at = "scrape"
  /\ scan[c].index = scan[c].found /\ scan[c].busy = {}
  /\ scan' = [scan EXCEPT ![c] =
       [at |-> IF scan[c].query < NQueries[c] THEN "search" ELSE "done",
        query |-> IF scan[c].query < NQueries[c] THEN scan[c].query + 1 ELSE scan[c].query,
        via |-> 0, broken |-> FALSE, found |-> 0, index |-> 0, busy |-> {}]]
  /\ UNCHANGED <<pool, cursor, page, counter>>

(***************************************************************************)
(* scrape: one process and its events.                                      *)
(***************************************************************************)
Running(s) == page[s].at \in {"markdown", "title"}

\* Seeded fault: a page that has no text yet keeps its slot.
DoneWithText(s) == IF page[s].at = "title" THEN 1 ELSE 0

\* done: the slot is given back once, whichever event comes first.
DoneWith(s) == IF Running(s) THEN 1 ELSE 0

\* The event of s leaves the page p and gives n slots back itself, before done.
End(s, p, n) ==
  /\ page' = [page EXCEPT ![s] = [p EXCEPT !.at = "over"]]
  /\ counter' = counter - n - DoneWith(s)
  /\ UNCHANGED <<pool, cursor, scan>>

\* The answer to the markdown request: an error, or the text.
MarkdownAnswers(s) ==
  /\ page[s].at = "markdown"
  /\ \/ End(s, page[s], 0)
     \/ /\ page' = [page EXCEPT ![s].at = "title", ![s].title = TRUE]
        /\ UNCHANGED <<pool, cursor, scan, counter>>

\* The answer to the request for the title, with or without an error.
TitleAnswers(s) ==
  /\ page[s].at = "title"
  /\ End(s, page[s], 1)

\* Three seconds after the text: also when the title has come meanwhile.
TitleTimeout(s) ==
  /\ page[s].title
  /\ End(s, [page[s] EXCEPT !.title = FALSE], 1)

\* Seeded fault: the timer is set when the text has come.
MainTimeoutLate(s) ==
  /\ page[s].main /\ page[s].at # "markdown"
  /\ End(s, [page[s] EXCEPT !.main = FALSE], 1)

\* LIGHTPANDA_TIMEOUT_MS after the start: also when the page is long over.
MainTimeout(s) ==
  /\ page[s].main
  /\ End(s, [page[s] EXCEPT !.main = FALSE], 1)

\* The process could not be started, or ended by itself with an error.
ProcessEnds(s) ==
  /\ Running(s)
  /\ End(s, [page[s] EXCEPT !.main = FALSE], 1)

Init ==
  /\ pool = [p \in Proxies |->
               [status |-> "healthy", streak |-> 0, failures |-> 0, rested |-> FALSE]]
  /\ cursor = 1
  /\ scan = [c \in Scans |-> [at |-> "search", query |-> 1, via |-> 0, broken |-> FALSE,
                              found |-> 0, index |-> 0, busy |-> {}]]
  /\ page = [s \in Pages |-> [at |-> "none", main |-> FALSE, title |-> FALSE]]
  /\ counter = 0

ScanStep(c) ==
  \/ StartSearch(c) \/ ProxyAnswers(c) \/ ProxyFails(c) \/ DirectAnswers(c) \/ DirectFails(c)
  \/ TakePage(c) \/ QueryDone(c)
  \/ \E i \in 1..NPages[c] : WorkerReturns(c, i)

PageStep(s) ==
  MarkdownAnswers(s) \/ TitleAnswers(s) \/ TitleTimeout(s) \/ MainTimeout(s) \/ ProcessEnds(s)

Next ==
  \/ \E c \in Scans : ScanStep(c)
  \/ \E s \in Pages : PageStep(s)
  \/ \E c \in Scans : AskAgain(c)
  \/ \E p \in Proxies : CooldownElapses(p)
  \/ HealthCheck

Spec == Init /\ [][Next]_vars

\* Requests have timeouts and timers run off; nothing is assumed of the answers
\* of a page, nor of the ends of its process.
Fairness ==
  /\ \A c \in Scans : WF_vars(ScanStep(c))
  /\ \A s \in Pages : WF_vars(MainTimeout(s))

FairSpec == Spec /\ Fairness

(***************************************************************************)
(* Properties.                                                              *)
(***************************************************************************)
\* Every variable has its type.
TypeOK ==
  /\ pool \in [Proxies -> Proxy]
  /\ cursor \in 1..(NProxies + 1)
  /\ scan \in [Scans -> Scan]
  /\ page \in [Pages -> Page]
  /\ counter \in Int

\* A slot is never lost: the counter is at most the number of pages that run, so
\* scrapes are refused at the cap only while that many do (CONCURRENCY_COUNTER).
SlotsAreGivenBack == counter <= Cardinality({s \in Pages : Running(s)})

\* The workers share an index, and no page is scraped twice or dropped: what is
\* started is what the index has passed, a scan goes on only when all of it is
\* over, and no more pages run than the scan has workers.
EachPageOnce ==
  \A c \in Scans : \A q \in 1..NQueries[c] :
    LET of(at) == {i \in 1..NPages[c] : page[<<c, q, i>>].at \in at}
        now == q = scan[c].query /\ scan[c].at = "scrape"
    IN  /\ now => of({"markdown", "title", "over"}) = 1..scan[c].index
        /\ now => of({"markdown", "title"}) \subseteq scan[c].busy
        /\ ~now => of({"markdown", "title"}) = {}
        /\ Cardinality(of({"markdown", "title"})) <= Concurrency

\* Searches that overlap and report late keep a proxy's status in step with its
\* counters: one that is healthy has not failed since it became so, and one that
\* has failed too often is not healthy (recordSuccess, recordFailure).
StatusFollowsCounters ==
  \A p \in Proxies :
    /\ pool[p].status = "healthy" => pool[p].failures = 0
    /\ pool[p].streak > 0 => pool[p].failures = 0
    /\ pool[p].status = "unhealthy" => pool[p].streak < SuccessStreak

\* Every scan ends, also when no page ever answers: the timer ends each of them.
ScansEnd ==
  \A c \in Scans : scan[c].at = "search" ~> scan[c].at \in {"done", "failed"}

=============================================================================
