------------------------------ MODULE HttpClients ------------------------------
(***************************************************************************)
(* The two clients that fetch from LegalInfo, request by request:          *)
(*   "engine"   SafeHttpsDownloader of the ingest (src/src/infrastructure/ *)
(*              http), one slot of its limiter for a whole download,       *)
(*   "crawler"  LegalInfoClient of the scraper (src/apps/scraper), which   *)
(*              obeys robots.txt and waits before every single fetch.      *)
(* Each tries a request a number of times and follows redirects by itself  *)
(* in each attempt.  Both have one caller that waits for the answer.       *)
(*                                                                         *)
(* Time is counted in ticks, and only as what is left: of the limiter's    *)
(* interval, of a sleep.  A URL is on an allowed host or not (protocol,    *)
(* credentials and the resolved address are part of that); bodies, cookies *)
(* and headers are left out.                                               *)
(***************************************************************************)
EXTENDS Naturals

CONSTANTS
    Urls,
    RobotsUrl,      \* https://legalinfo.mn/robots.txt
    OnHost,         \* the URLs of allowed hosts
    Denied,         \* what robots.txt disallows
    MinDelay,       \* config.minDelayMs, options.delayMs
    CrawlDelay,     \* what robots.txt asks for
    MaxRetries,
    MaxRedirects    \* MAX_REDIRECTS

ASSUME HttpAssumption ==
    /\ RobotsUrl \in OnHost /\ OnHost \subseteq Urls
    /\ Denied \subseteq OnHost \ {RobotsUrl}
    /\ MinDelay \in Nat \ {0} /\ CrawlDelay \in Nat
    /\ MaxRetries \in Nat \ {0} /\ MaxRedirects \in Nat

Larger(a, b) == IF a > b THEN a ELSE b

Longest == Larger(MinDelay, CrawlDelay)

VARIABLES
    client,     \* which of the two this is
    phase,      \* what its next step is
    request,    \* the request it works on
    policy,     \* the URLs it may not fetch, by robots.txt
    delay,      \* the limiter's interval
    wait,       \* ticks until the limiter's nextAllowedAt
    sleep,      \* ticks left of the pause before the next attempt
    since       \* ticks since the limiter last let something pass (history)

httpVars == <<client, phase, request, policy, delay, wait, sleep, since>>

Methods == {"GET", "POST"}
Phases == {"create", "idle", "slot", "hop", "response", "pause"}

Request == [url: Urls, method: Methods, robots: BOOLEAN,
            current: Urls, with: Methods, hop: Nat, attempt: Nat]

\* Of a request, the url and method it was made with stay; current and with
\* are those of the next fetch.
NewRequest(url, method, robots) ==
    [url |-> url, method |-> method, robots |-> robots,
     current |-> url, with |-> method, hop |-> 0, attempt |-> 1]

HttpInit ==
    /\ client \in {"engine", "crawler"}
    /\ phase = IF client = "crawler" THEN "create" ELSE "idle"
    /\ request = NewRequest(RobotsUrl, "GET", TRUE)
    /\ policy = {} /\ delay = MinDelay
    /\ wait = 0 /\ sleep = 0 /\ since = Longest

-----------------------------------------------------------------------------
(* A request begins and ends.                                              *)

\* LegalInfoClient.create loads robots.txt before the client is used.
LoadRobots ==
    /\ phase = "create"
    /\ request' = NewRequest(RobotsUrl, "GET", TRUE)
    /\ phase' = "hop"
    /\ UNCHANGED <<client, policy, delay, wait, sleep, since>>

\* The engine refuses other hosts, the crawler what robots.txt disallows.
Ask(url, method) ==
    /\ phase = "idle"
    /\ IF client = "engine" THEN method = "GET" /\ url \in OnHost ELSE url \notin policy
    /\ request' = NewRequest(url, method, FALSE)
    /\ phase' = IF client = "engine" THEN "slot" ELSE "hop"
    /\ UNCHANGED <<client, policy, delay, wait, sleep, since>>

\* The limiter lets something pass when its interval is over.
Pass == wait = 0 /\ wait' = delay /\ since' = 0

\* RateLimiter.run of the engine: once for the download.
Slot ==
    /\ phase = "slot"
    /\ Pass
    /\ phase' = "hop"
    /\ UNCHANGED <<client, request, policy, delay, sleep>>

(***************************************************************************)
(* The caller has its answer, or an exception.  For robots.txt the client  *)
(* is made anew with the rules and the delay it asks for, or with none if  *)
(* it could not be read, and with a new limiter that has let nothing pass. *)
(***************************************************************************)
End(answered) ==
    /\ phase' = "idle"
    /\ IF request.robots
       THEN /\ \/ answered /\ policy' = Denied /\ delay' = Larger(MinDelay, CrawlDelay)
               \/ policy' = {} /\ delay' = MinDelay
            /\ wait' = 0 /\ since' = Longest
       ELSE UNCHANGED <<policy, delay, wait, since>>
    /\ UNCHANGED <<client, request, sleep>>

-----------------------------------------------------------------------------
(* One attempt: a fetch for each hop.                                      *)

\* What the client checks again before it follows a redirect.
MayFetch ==
    IF client = "engine" THEN request.current \in OnHost
    ELSE request.hop > 0 /\ ~request.robots => request.current \notin policy

\* Only the first fetch of an attempt waits, as in the engine.
Fetch_WaitsOnce ==
    /\ phase = "hop"
    /\ MayFetch
    /\ IF client = "crawler" /\ request.hop = 0 THEN Pass ELSE UNCHANGED <<wait, since>>
    /\ phase' = "response"
    /\ UNCHANGED <<client, request, policy, delay, sleep>>

\* Fetches what a redirect names without asking the policy.
Fetch_Unchecked ==
    /\ phase = "hop"
    /\ IF client = "crawler" THEN Pass ELSE UNCHANGED <<wait, since>>
    /\ phase' = "response"
    /\ UNCHANGED <<client, request, policy, delay, sleep>>

Fetch ==
    /\ phase = "hop"
    /\ MayFetch
    /\ IF client = "crawler" THEN Pass ELSE UNCHANGED <<wait, since>>
    /\ phase' = "response"
    /\ UNCHANGED <<client, request, policy, delay, sleep>>

\* Neither a disallowed URL nor an address the engine refuses is tried again.
Refuse ==
    /\ phase = "hop"
    /\ ~MayFetch \/ client = "engine"
    /\ End(FALSE)

\* resolveSafeRedirect, assertHttpsLegalInfoUrl: an address, and on an allowed
\* host.
Safe(to) == to \in OnHost

(***************************************************************************)
(* 301, 302, 303 turn the request into a GET without a body, 307 and 308   *)
(* repeat it.  A redirect too many, or to no allowed host, is final.       *)
(***************************************************************************)
Redirect(to, keepsMethod) ==
    /\ phase = "response"
    /\ IF request.hop < MaxRedirects /\ Safe(to)
       THEN /\ request' = [request EXCEPT !.current = to, !.hop = @ + 1,
                                          !.with = IF keepsMethod THEN @ ELSE "GET"]
            /\ phase' = "hop"
            /\ UNCHANGED <<client, policy, delay, wait, sleep, since>>
       ELSE End(FALSE)

\* An answer that is for the caller, or that the engine refuses for good (4xx,
\* a type or size it does not take).
Answer ==
    /\ phase = "response"
    /\ \/ End(TRUE)
       \/ client = "engine" /\ End(FALSE)

\* maxRetries counts the engine's further attempts, and all of the crawler's.
LastAttempt ==
    request.attempt = IF client = "engine" THEN MaxRetries + 1 ELSE MaxRetries

\* backoffMs, in ticks of half a second.
Backoff(attempt) == LET pause == 2 ^ (attempt - 1) IN IF pause < 32 THEN pause ELSE 32

(***************************************************************************)
(* 429 and 5xx are tried again after a pause.  So is every other error of  *)
(* the crawler (the connection, the timeout); the engine gives up on them. *)
(***************************************************************************)
Fails(transient) ==
    /\ phase = "response"
    /\ IF ~LastAttempt /\ (transient \/ client = "crawler")
       THEN /\ phase' = "pause"
            /\ sleep' = Backoff(request.attempt)
            /\ UNCHANGED <<client, request, policy, delay, wait, since>>
       ELSE End(FALSE)

\* The attempt goes on where the last redirect had led.
Again_AtRedirect ==
    /\ phase = "pause" /\ sleep = 0
    /\ request' = [request EXCEPT !.hop = 0, !.attempt = @ + 1]
    /\ phase' = "hop"
    /\ UNCHANGED <<client, policy, delay, wait, sleep, since>>

\* An attempt that is not counted.
Again_Uncounted ==
    /\ phase = "pause" /\ sleep = 0
    /\ request' = NewRequest(request.url, request.method, request.robots)
    /\ phase' = "hop"
    /\ UNCHANGED <<client, policy, delay, wait, sleep, since>>

\* The next attempt starts over, with the url and method of the request.
Again ==
    /\ phase = "pause" /\ sleep = 0
    /\ request' = [NewRequest(request.url, request.method, request.robots)
                       EXCEPT !.attempt = request.attempt + 1]
    /\ phase' = "hop"
    /\ UNCHANGED <<client, policy, delay, wait, sleep, since>>

Less(n) == IF n = 0 THEN 0 ELSE n - 1

Tick ==
    /\ wait' = Less(wait) /\ sleep' = Less(sleep)
    /\ since' = IF since < Longest THEN since + 1 ELSE since
    /\ UNCHANGED <<client, phase, request, policy, delay>>

Responds ==
    \/ \E to \in Urls, keepsMethod \in BOOLEAN : Redirect(to, keepsMethod)
    \/ Answer
    \/ \E transient \in BOOLEAN : Fails(transient)

Step == LoadRobots \/ Slot \/ Fetch \/ Refuse \/ Responds \/ Again

HttpNext ==
    \/ \E url \in Urls, method \in Methods : Ask(url, method)
    \/ Step
    \/ Tick

HttpSpec == HttpInit /\ [][HttpNext]_httpVars

\* Time passes, and a fetch is answered or times out.  Nobody has to ask.
HttpFairSpec == HttpSpec /\ WF_httpVars(Tick) /\ WF_httpVars(Step)

-----------------------------------------------------------------------------
(* Properties.                                                             *)

(***************************************************************************)
(* The crawler's fetches are at least the delay apart, be they of one      *)
(* request, of a redirect, of another attempt or of the next request, and  *)
(* whatever time the answers take; only with the limiter made for          *)
(* robots.txt the count begins again (client.ts:166-182).                  *)
(***************************************************************************)
FetchesAreSpaced ==
    [][client = "crawler" /\ phase = "hop" /\ phase' = "response" => since >= delay]_httpVars

(***************************************************************************)
(* No fetch of either client leaves the allowed hosts by a redirect, and   *)
(* none of the crawler's but that of robots.txt is of a URL the loaded     *)
(* rules disallow, in any hop of any attempt (client.ts:157-197,           *)
(* safe-https-downloader.ts:95-131).                                       *)
(***************************************************************************)
OnlyPermittedIsFetched ==
    phase = "response" =>
        /\ client = "engine" \/ request.hop > 0 => request.current \in OnHost
        /\ client = "crawler" /\ ~request.robots => request.current \notin policy

(***************************************************************************)
(* Every attempt is an attempt at the request that was made: a form that a *)
(* redirect has turned into a GET is posted again to its own url when that *)
(* chain fails (client.ts:160-164).                                        *)
(***************************************************************************)
AttemptsStartOver ==
    phase \in {"hop", "response"} /\ request.hop = 0 =>
        request.current = request.url /\ request.with = request.method

(***************************************************************************)
(* Every request is answered or given up: redirects that lead in a circle  *)
(* and sites that keep failing cannot hold a client.                       *)
(***************************************************************************)
EveryRequestEnds == phase \in {"create", "slot", "hop", "response", "pause"} ~> phase = "idle"
=============================================================================
