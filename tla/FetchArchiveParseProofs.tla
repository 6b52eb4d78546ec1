------------------------ MODULE FetchArchiveParseProofs ------------------------
(***************************************************************************)
(* How bytes are fetched, how they are kept, and what the parser makes of  *)
(* them: the HTTP clients, for any hosts, rules, delays and numbers of     *)
(* attempts and redirects; the archive of the ingest, for any number of    *)
(* hashes, processes and failures; the shape of the parsed tree, where its *)
(* words are and what the gate says of it, for documents of any lines and  *)
(* length.  The three have no state in common; each has its invariants.    *)
(***************************************************************************)
EXTENDS ArchiveStore, HttpClients, PublicationGate,
        WellFoundedInduction, FiniteSetTheorems, SequenceTheorems, TLAPS

-----------------------------------------------------------------------------
(***************************************************************************)
(* The HTTP clients.                                                       *)
(*                                                                         *)
(* The argument is one inductive invariant in three parts.  What is left   *)
(* of the limiter's interval and what has passed of it add up to at least  *)
(* the interval, so that passing at wait = 0 is passing late enough.  The  *)
(* url a request was made with is a permitted one, and stays so because    *)
(* the rules only change with the request for robots.txt itself; where a   *)
(* redirect leads is on an allowed host.  Before the first redirect of an  *)
(* attempt the next fetch is that of the request.                          *)
(***************************************************************************)
WellTyped ==
    /\ client \in {"engine", "crawler"}
    /\ request \in Request
    /\ delay \in Nat /\ wait \in Nat /\ since \in Nat

Spaced == delay <= Longest /\ since + wait >= delay

Permitted ==
    /\ client = "engine" \/ request.hop > 0 => request.current \in OnHost
    /\ client = "engine" => request.url \in OnHost
    /\ client = "crawler" /\ ~request.robots => request.url \notin policy
    /\ phase = "response" /\ client = "crawler" /\ ~request.robots
         => request.current \notin policy

StartsOver ==
    request.hop = 0 => request.current = request.url /\ request.with = request.method

HttpInv == WellTyped /\ Spaced /\ Permitted /\ StartsOver

LEMMA LongestBounds ==
    /\ Longest \in Nat /\ MinDelay \in Nat
    /\ MinDelay <= Longest /\ Larger(MinDelay, CrawlDelay) = Longest
  BY HttpAssumption DEF Longest, Larger

\* A request as it is made satisfies everything asked of a request.
LEMMA NewRequestFields ==
    ASSUME NEW url \in Urls, NEW method \in Methods, NEW robots \in BOOLEAN
    PROVE  /\ NewRequest(url, method, robots) \in Request
           /\ NewRequest(url, method, robots).url = url
           /\ NewRequest(url, method, robots).method = method
           /\ NewRequest(url, method, robots).robots = robots
           /\ NewRequest(url, method, robots).current = url
           /\ NewRequest(url, method, robots).with = method
           /\ NewRequest(url, method, robots).hop = 0
  BY DEF NewRequest, Request

LEMMA HttpInv_Init == HttpInit => HttpInv
  <1> SUFFICES ASSUME HttpInit PROVE HttpInv
    OBVIOUS
  <1>1. RobotsUrl \in Urls /\ RobotsUrl \in OnHost
    BY HttpAssumption
  <1>2. "GET" \in Methods
    BY DEF Methods
  <1>3. /\ request \in Request /\ request.url = RobotsUrl /\ request.method = "GET"
        /\ request.robots = TRUE /\ request.current = RobotsUrl
        /\ request.with = "GET" /\ request.hop = 0
    BY <1>1, <1>2, NewRequestFields DEF HttpInit
  <1>4. /\ client \in {"engine", "crawler"}
        /\ delay = MinDelay /\ wait = 0 /\ since = Longest
    BY DEF HttpInit
  <1>5. WellTyped
    BY <1>3, <1>4, LongestBounds DEF WellTyped
  <1>6. Spaced
    BY <1>4, LongestBounds DEF Spaced
  <1>7. Permitted
    BY <1>1, <1>3 DEF Permitted
  <1>8. StartsOver
    BY <1>3 DEF StartsOver
  <1> QED BY <1>7, <1>8, <1>5, <1>6 DEF HttpInv

\* The end of a request leaves the request; only that for robots.txt changes
\* the rules, and it starts the limiter anew.
LEMMA HttpInv_End ==
    ASSUME HttpInv, NEW answered \in BOOLEAN, End(answered)
    PROVE  HttpInv'
  <1>1. client' = client /\ request' = request /\ phase' = "idle"
    BY DEF End
  <1>2. WellTyped' /\ Spaced'
    BY <1>1, LongestBounds DEF End, HttpInv, WellTyped, Spaced
  <1>3. ~request.robots => policy' = policy
    BY DEF End
  <1>4. Permitted'
    BY <1>1, <1>3 DEF HttpInv, Permitted
  <1>5. StartsOver'
    BY <1>1 DEF HttpInv, StartsOver
  <1> QED BY <1>2, <1>4, <1>5 DEF HttpInv

\* A new attempt, or a new request: the rules and the limiter stay, and the
\* next fetch is that of the request.
Made(url, method, robots) ==
    /\ request' \in Request
    /\ request'.url = url /\ request'.robots = robots
    /\ request'.current = url /\ request'.with = request'.method

LEMMA HttpInv_Made ==
    ASSUME HttpInv, NEW url \in Urls, NEW method, NEW robots,
           client = "engine" => url \in OnHost,
           client = "crawler" /\ ~robots => url \notin policy,
           Made(url, method, robots),
           request'.hop = 0,
           UNCHANGED <<client, policy, delay, wait, since>>
    PROVE  HttpInv'
  <1>1. WellTyped'
    BY DEF HttpInv, WellTyped, Made
  <1>2. Spaced'
    BY DEF HttpInv, Spaced
  <1>3. Permitted'
    BY DEF HttpInv, Permitted, Made
  <1>4. StartsOver'
    BY DEF StartsOver, Made
  <1> QED BY <1>1, <1>2, <1>3, <1>4 DEF HttpInv

LEMMA HttpInv_Ask ==
    ASSUME HttpInv, NEW url \in Urls, NEW method \in Methods, Ask(url, method)
    PROVE  HttpInv'
  <1>1. client = "engine" => url \in OnHost
    BY DEF Ask
  <1>2. client = "crawler" => url \notin policy
    BY DEF Ask
  <1>3. request' = NewRequest(url, method, FALSE)
    BY DEF Ask
  <1>4. FALSE \in BOOLEAN
    OBVIOUS
  <1>5. /\ request' \in Request /\ request'.url = url /\ request'.method = method
        /\ request'.robots = FALSE /\ request'.current = url
        /\ request'.with = method /\ request'.hop = 0
    BY ONLY <1>3, <1>4, NewRequestFields, url \in Urls, method \in Methods, Zenon
  <1>6. Made(url, method, FALSE) /\ request'.hop = 0
    BY <1>5, Zenon DEF Made
  <1>7. UNCHANGED <<client, policy, delay, wait, since>>
    BY DEF Ask
  <1> QED BY <1>1, <1>2, <1>6, <1>7, HttpInv_Made

LEMMA HttpInv_LoadRobots == HttpInv /\ LoadRobots => HttpInv'
  <1> SUFFICES ASSUME HttpInv, LoadRobots PROVE HttpInv'
    OBVIOUS
  <1>1. RobotsUrl \in Urls /\ RobotsUrl \in OnHost /\ "GET" \in Methods /\ TRUE \in BOOLEAN
    BY HttpAssumption DEF Methods
  <1>2. request' = NewRequest(RobotsUrl, "GET", TRUE)
    BY DEF LoadRobots
  <1>3. /\ request' \in Request /\ request'.url = RobotsUrl /\ request'.method = "GET"
        /\ request'.robots = TRUE /\ request'.current = RobotsUrl
        /\ request'.with = "GET" /\ request'.hop = 0
    BY ONLY <1>1, <1>2, NewRequestFields, Zenon
  <1>4. Made(RobotsUrl, "GET", TRUE) /\ request'.hop = 0
    BY <1>3, Zenon DEF Made
  <1>5. UNCHANGED <<client, policy, delay, wait, since>>
    BY DEF LoadRobots
  <1> QED BY <1>1, <1>4, <1>5, HttpInv_Made

LEMMA HttpInv_Again == HttpInv /\ Again => HttpInv'
  <1> SUFFICES ASSUME HttpInv, Again PROVE HttpInv'
    OBVIOUS
  <1>1. /\ request.url \in Urls /\ request.method \in Methods
        /\ request.robots \in BOOLEAN /\ request.attempt + 1 \in Nat
    BY DEF HttpInv, WellTyped, Request
  <1>2. client = "engine" => request.url \in OnHost
    BY DEF HttpInv, Permitted
  <1>3. client = "crawler" /\ ~request.robots => request.url \notin policy
    BY DEF HttpInv, Permitted
  <1>4. PICK r \in Request :
          /\ r = NewRequest(request.url, request.method, request.robots)
          /\ r.url = request.url /\ r.method = request.method /\ r.robots = request.robots
          /\ r.current = request.url /\ r.with = request.method /\ r.hop = 0
    BY <1>1, NewRequestFields
  <1>5. request' = [r EXCEPT !.attempt = request.attempt + 1]
    BY <1>4 DEF Again
  <1>6. Made(request.url, request.method, request.robots) /\ request'.hop = 0
    BY <1>1, <1>4, <1>5 DEF Made, Request
  <1>7. UNCHANGED <<client, policy, delay, wait, since>>
    BY DEF Again
  <1> QED BY <1>1, <1>2, <1>3, <1>6, <1>7, HttpInv_Made

\* Passing the limiter starts its interval.
LEMMA Pass_Spaced ==
    ASSUME HttpInv, Pass, delay' = delay
    PROVE  Spaced' /\ wait' \in Nat /\ since' \in Nat
  BY DEF HttpInv, WellTyped, Spaced, Pass

LEMMA HttpInv_Slot == HttpInv /\ Slot => HttpInv'
  <1> SUFFICES ASSUME HttpInv, Slot PROVE HttpInv'
    OBVIOUS
  <1>1. UNCHANGED <<client, request, policy, delay>> /\ phase' = "hop" /\ Pass
    BY DEF Slot
  <1>2. WellTyped' /\ Spaced'
    BY <1>1, Pass_Spaced DEF HttpInv, WellTyped
  <1>3. Permitted' /\ StartsOver'
    BY <1>1 DEF HttpInv, Permitted, StartsOver
  <1> QED BY <1>2, <1>3 DEF HttpInv

LEMMA HttpInv_Fetch == HttpInv /\ Fetch => HttpInv'
  <1> SUFFICES ASSUME HttpInv, Fetch PROVE HttpInv'
    OBVIOUS
  <1>1. UNCHANGED <<client, request, policy, delay>>
    BY DEF Fetch
  <1>2. WellTyped' /\ Spaced'
    <2>1. CASE client = "crawler"
      <3>1. Pass
        BY <2>1 DEF Fetch
      <3> QED BY <1>1, <3>1, Pass_Spaced DEF HttpInv, WellTyped
    <2>2. CASE client # "crawler"
      <3>1. UNCHANGED <<wait, since>>
        BY <2>2 DEF Fetch
      <3> QED BY <1>1, <3>1 DEF HttpInv, WellTyped, Spaced
    <2> QED BY <2>1, <2>2
  <1>3. StartsOver'
    BY <1>1 DEF HttpInv, StartsOver
  <1>4. ASSUME client = "crawler", ~request.robots
        PROVE  request.current \notin policy
    <2>1. request.hop \in Nat
      BY DEF HttpInv, WellTyped, Request
    <2>2. CASE request.hop > 0
      BY <1>4, <2>2 DEF Fetch, MayFetch
    <2>3. CASE request.hop = 0
      BY <1>4, <2>3 DEF HttpInv, StartsOver, Permitted
    <2> QED BY <2>1, <2>2, <2>3
  <1>5. Permitted'
    BY <1>1, <1>4 DEF HttpInv, Permitted
  <1> QED BY <1>2, <1>3, <1>5 DEF HttpInv

LEMMA HttpInv_Redirect ==
    ASSUME HttpInv, NEW to \in Urls, NEW keepsMethod \in BOOLEAN, Redirect(to, keepsMethod)
    PROVE  HttpInv'
  <1> USE DEF Safe
  <1>1. CASE request.hop < MaxRedirects /\ to \in OnHost
    <2>1. /\ UNCHANGED <<client, policy, delay, wait, since>> /\ phase' = "hop"
          /\ request' = [request EXCEPT !.current = to, !.hop = @ + 1,
                                        !.with = IF keepsMethod THEN @ ELSE "GET"]
      BY <1>1 DEF Redirect
    <2>2. request \in Request /\ request.hop \in Nat
      BY DEF HttpInv, WellTyped, Request
    <2> DEFINE method == IF keepsMethod THEN request.with ELSE "GET"
    <2>3. method \in Methods
      BY <2>2 DEF Request, Methods
    <2> HIDE DEF method
    <2>4. request' = [request EXCEPT !.current = to, !.hop = request.hop + 1, !.with = method]
      BY <2>1 DEF method
    <2>5. request' \in Request
      <3>1. request.hop + 1 \in Nat
        BY <2>2
      <3> QED BY ONLY <2>2, <2>3, <2>4, <3>1, to \in Urls, Zenon DEF Request
    <2>6. /\ request'.url = request.url /\ request'.robots = request.robots
          /\ request'.current = to /\ request'.hop = request.hop + 1
      BY <2>2, <2>4 DEF Request
    <2>7. WellTyped' /\ Spaced'
      BY <2>1, <2>5 DEF HttpInv, WellTyped, Spaced
    <2>8. Permitted'
      BY <1>1, <2>1, <2>6 DEF HttpInv, Permitted
    <2>9. StartsOver'
      BY <2>2, <2>6 DEF StartsOver
    <2> QED BY <2>7, <2>8, <2>9 DEF HttpInv
  <1>2. CASE ~(request.hop < MaxRedirects /\ to \in OnHost)
    BY <1>2, HttpInv_End DEF Redirect
  <1> QED BY <1>1, <1>2

\* Steps that leave the request, the rules and the limiter alone.
LEMMA HttpInv_Same ==
    ASSUME HttpInv, UNCHANGED <<client, request, policy, delay, wait, since>>,
           phase' # "response" \/ phase' = phase
    PROVE  HttpInv'
  BY DEF HttpInv, WellTyped, Spaced, Permitted, StartsOver

LEMMA HttpInv_Fails ==
    ASSUME HttpInv, NEW transient \in BOOLEAN, Fails(transient)
    PROVE  HttpInv'
  <1>1. CASE ~LastAttempt /\ (transient \/ client = "crawler")
    <2>1. UNCHANGED <<client, request, policy, delay, wait, since>> /\ phase' = "pause"
      BY <1>1 DEF Fails
    <2> QED BY <2>1, HttpInv_Same
  <1>2. CASE ~(~LastAttempt /\ (transient \/ client = "crawler"))
    BY <1>2, HttpInv_End DEF Fails
  <1> QED BY <1>1, <1>2

LEMMA HttpInv_Tick == HttpInv /\ Tick => HttpInv'
  <1> SUFFICES ASSUME HttpInv, Tick PROVE HttpInv'
    OBVIOUS
  <1>1. UNCHANGED <<client, phase, request, policy, delay>>
    BY DEF Tick
  <1>2. WellTyped' /\ Spaced'
    BY <1>1, LongestBounds DEF HttpInv, WellTyped, Spaced, Tick, Less
  <1>3. Permitted' /\ StartsOver'
    BY <1>1 DEF HttpInv, Permitted, StartsOver
  <1> QED BY <1>2, <1>3 DEF HttpInv

LEMMA HttpInv_Next == HttpInv /\ [HttpNext]_httpVars => HttpInv'
  <1> SUFFICES ASSUME HttpInv, [HttpNext]_httpVars PROVE HttpInv'
    OBVIOUS
  <1>1. ASSUME NEW url \in Urls, NEW method \in Methods, Ask(url, method) PROVE HttpInv'
    BY <1>1, HttpInv_Ask
  <1>2. CASE LoadRobots
    BY <1>2, HttpInv_LoadRobots
  <1>3. CASE Slot
    BY <1>3, HttpInv_Slot
  <1>4. CASE Fetch
    BY <1>4, HttpInv_Fetch
  <1>5. CASE Refuse
    BY <1>5, HttpInv_End DEF Refuse
  <1>6. CASE Responds
    <2>1. ASSUME NEW to \in Urls, NEW keepsMethod \in BOOLEAN, Redirect(to, keepsMethod)
          PROVE  HttpInv'
      BY <2>1, HttpInv_Redirect
    <2>2. CASE Answer
      BY <2>2, HttpInv_End DEF Answer
    <2>3. ASSUME NEW transient \in BOOLEAN, Fails(transient) PROVE HttpInv'
      BY <2>3, HttpInv_Fails
    <2> QED BY <1>6, <2>1, <2>2, <2>3 DEF Responds
  <1>7. CASE Again
    BY <1>7, HttpInv_Again
  <1>8. CASE Tick
    BY <1>8, HttpInv_Tick
  <1>9. CASE UNCHANGED httpVars
    BY <1>9, HttpInv_Same DEF httpVars
  <1> QED BY <1>1, <1>2, <1>3, <1>4, <1>5, <1>6, <1>7, <1>8, <1>9 DEF HttpNext, Step

(***************************************************************************)
(* In every reachable state the limiter, the request and the rules are in  *)
(* the relation the three results below rest on.                           *)
(***************************************************************************)
THEOREM Http_Inv == HttpSpec => []HttpInv
  <1>1. HttpInit => HttpInv
    BY HttpInv_Init
  <1>2. HttpInv /\ [HttpNext]_httpVars => HttpInv'
    BY HttpInv_Next
  <1> QED BY <1>1, <1>2, PTL DEF HttpSpec

(***************************************************************************)
(* No redirect takes either client off the allowed hosts, and the crawler  *)
(* fetches nothing the rules of robots.txt disallow.                       *)
(***************************************************************************)
THEOREM Http_OnlyPermittedIsFetched == HttpSpec => []OnlyPermittedIsFetched
  <1>1. HttpInv => OnlyPermittedIsFetched
    BY DEF HttpInv, Permitted, OnlyPermittedIsFetched
  <1> QED BY <1>1, Http_Inv, PTL

(***************************************************************************)
(* Every attempt begins with the url and the method of the request.        *)
(***************************************************************************)
THEOREM Http_AttemptsStartOver == HttpSpec => []AttemptsStartOver
  <1>1. HttpInv => AttemptsStartOver
    BY DEF HttpInv, StartsOver, AttemptsStartOver
  <1> QED BY <1>1, Http_Inv, PTL

(***************************************************************************)
(* Any two fetches of the crawler are at least the delay apart.            *)
(***************************************************************************)
THEOREM Http_FetchesAreSpaced == HttpSpec => FetchesAreSpaced
  <1>1. HttpInv /\ [HttpNext]_httpVars
          => [client = "crawler" /\ phase = "hop" /\ phase' = "response" => since >= delay]_httpVars
    <2> SUFFICES ASSUME HttpInv, [HttpNext]_httpVars,
                        client = "crawler", phase = "hop", phase' = "response"
                 PROVE  since >= delay
      OBVIOUS
    <2>1. Fetch
      BY DEF HttpNext, Step, Responds, httpVars, Ask, LoadRobots, Slot, Fetch, Refuse, End, Redirect,
             Answer, Fails, Again, Tick
    <2>2. wait = 0
      BY <2>1 DEF Fetch, Pass
    <2> QED BY <2>2 DEF HttpInv, WellTyped, Spaced
  <1> QED BY <1>1, Http_Inv, PTL DEF HttpSpec, FetchesAreSpaced

-----------------------------------------------------------------------------
(* The archive.                                                            *)

(***************************************************************************)
(* What a run has made sure of when it reaches a stage.  The last conjunct *)
(* but one is why the second read of republishFromArchive needs no check:  *)
(* it got there because a first read was good.                             *)
(***************************************************************************)
JobSound(j) ==
    /\ j.stage \in {"write", "create"} => file[j.hash] # Absent
    /\ (j.stage = "fetch" /\ j.known) => j.hash \in index
    /\ j.stage \in {"read", "parse"} => j.hash \in index
    /\ (j.republish /\ j.stage \in Storing) => file[j.hash] = Whole
    /\ j.stage = "parse" => j.bytes = Whole /\ file[j.hash] = Whole

IInv ==
    /\ TypeOK
    /\ RecordHasFile
    /\ \A w \in Workers : JobSound(work[w])

(***************************************************************************)
(* What other processes may do to the database and the directory.          *)
(***************************************************************************)
Grows ==
    /\ index \subseteq index'
    /\ \A h \in Hashes : file[h] # Absent => file'[h] # Absent
    /\ \A h \in Hashes : file[h] = Whole => file'[h] = Whole

-----------------------------------------------------------------------------
LEMMA NewJobType ==
    ASSUME NEW s \in Stages, NEW h \in Hashes, NEW r \in BOOLEAN
    PROVE  NewJob(s, h, r) \in Job
  BY DEF NewJob, Job, Content

LEMMA IdleIsJob == Idle \in Job /\ Idle.stage = "idle" /\ Idle.republish = FALSE
  <1>1. (CHOOSE h \in Hashes : TRUE) \in Hashes
    BY ArchiveAssumption
  <1>2. Idle \in Job
    BY <1>1, NewJobType DEF Idle, Stages
  <1> QED  BY <1>2 DEF Idle, NewJob

\* An idle job promises nothing.
LEMMA IdleIsSound == JobSound(Idle) /\ JobSound(Idle)'
  BY IdleIsJob DEF JobSound, Storing, Idle, NewJob

LEMMA InitIInv == Init => IInv
  <1> SUFFICES ASSUME Init PROVE IInv
    OBVIOUS
  <1>1. TypeOK
    BY IdleIsJob, ArchiveAssumption DEF Init, TypeOK, Content
  <1>2. RecordHasFile
    BY DEF Init, RecordHasFile
  <1>3. \A w \in Workers : JobSound(work[w])
    BY IdleIsSound DEF Init
  <1> QED  BY <1>1, <1>2, <1>3 DEF IInv

-----------------------------------------------------------------------------
(***************************************************************************)
(* A step keeps the types, one step for each action.                       *)
(***************************************************************************)
LEMMA NextType == TypeOK /\ [Next]_vars => TypeOK'
  <1> SUFFICES ASSUME TypeOK, [Next]_vars PROVE TypeOK'
    OBVIOUS
  <1> USE DEF TypeOK
  <1>0. ASSUME NEW w \in Workers, NEW j \in Job, work' = [work EXCEPT ![w] = j]
        PROVE  work' \in [Workers -> Job]
    BY <1>0
  <1>1. ASSUME NEW w \in Workers, NEW s \in Stages, Goto(w, s)
        PROVE  work' \in [Workers -> Job]
    BY <1>1 DEF Goto, Job
  <1>2. ASSUME NEW w \in Workers, Finish(w) PROVE work' \in [Workers -> Job]
    BY <1>2, IdleIsJob DEF Finish
  <1>3. ASSUME NEW w \in Workers, NEW h \in Hashes, Ingest(w, h) PROVE TypeOK'
    BY <1>3, <1>0, NewJobType DEF Ingest, Stages, Storing
  <1>4. ASSUME NEW w \in Workers, NEW h \in Hashes, Republish(w, h) PROVE TypeOK'
    BY <1>4, <1>0, NewJobType DEF Republish, Stages, Republishing
  <1>5. ASSUME NEW w \in Workers, Lookup(w) PROVE TypeOK'
    <2>1. ASSUME NEW k \in BOOLEAN
          PROVE  [work[w] EXCEPT !.stage = "fetch", !.known = k] \in Job
      BY DEF Job, Stages, Republishing
    <2>2. (work[w].hash \in index) \in BOOLEAN
      OBVIOUS
    <2>3. [work[w] EXCEPT !.stage = "fetch", !.known = work[w].hash \in index] \in Job
      BY ONLY <2>1, <2>2, Zenon
    <2>4. work' \in [Workers -> Job]
      BY ONLY <1>0, <1>5, <2>3, Zenon DEF Lookup
    <2> QED  BY <1>5, <2>4 DEF Lookup
  <1>6. ASSUME NEW w \in Workers, FetchBytes(w) PROVE TypeOK'
    <2>1. work' \in [Workers -> Job]
      BY <1>6, <1>1, <1>2 DEF FetchBytes, Job, Stages, Storing, Content
    <2> QED  BY <1>6, <2>1 DEF FetchBytes
  <1>7. ASSUME NEW w \in Workers, Find(w) PROVE TypeOK'
    BY <1>7, <1>1 DEF Find, FindByHash, Stages, Storing
  <1>8. ASSUME NEW w \in Workers, FindAgain(w) PROVE TypeOK'
    BY <1>8, <1>1 DEF FindAgain, FindByHash, Stages, Storing
  <1>9. ASSUME NEW w \in Workers, Open(w) PROVE TypeOK'
    <2>1. work' \in [Workers -> Job]
      BY <1>9, <1>1 DEF Open, Stages, Storing
    <2> QED  BY <1>9, <2>1 DEF Open, Content
  <1>10. ASSUME NEW w \in Workers, Write(w) PROVE TypeOK'
    <2>1. work' \in [Workers -> Job]
      BY <1>10, <1>1 DEF Write, Stages, Storing
    <2> QED  BY <1>10, <2>1 DEF Write, Content
  <1>11. ASSUME NEW w \in Workers, CreateRecord(w) PROVE TypeOK'
    <2>1. work' \in [Workers -> Job]
      BY <1>11, <1>1 DEF CreateRecord, Stages, Storing
    <2> QED  BY <1>11, <2>1 DEF CreateRecord, Job
  <1>12. ASSUME NEW w \in Workers, ReadBack(w) PROVE TypeOK'
    <2>1. work' \in [Workers -> Job]
      BY <1>12, <1>2 DEF ReadBack, Job, Stages
    <2> QED  BY <1>12, <2>1 DEF ReadBack
  <1>13. ASSUME NEW w \in Workers, Parse(w) PROVE TypeOK'
    BY <1>13, <1>2 DEF Parse
  <1>14. ASSUME NEW w \in Workers, Fail(w) PROVE TypeOK'
    BY <1>14, <1>2, ArchiveAssumption DEF Fail
  <1>15. CASE UNCHANGED vars
    BY <1>15 DEF vars
  <1> QED
    BY <1>3, <1>4, <1>5, <1>6, <1>7, <1>8, <1>9, <1>10, <1>11, <1>12, <1>13,
       <1>14, <1>15 DEF Next, Proceed, Store

(***************************************************************************)
(* No step removes a record, a file or the end of a whole file.            *)
(***************************************************************************)
LEMMA NextGrows == TypeOK /\ [Next]_vars => Grows
  <1> SUFFICES ASSUME TypeOK, [Next]_vars PROVE Grows
    OBVIOUS
  <1> USE DEF TypeOK, Grows
  <1>1. ASSUME NEW w \in Workers, Open(w) PROVE Grows
    BY <1>1 DEF Open, Job, Absent, Partial, Whole
  <1>2. ASSUME NEW w \in Workers, Write(w) PROVE Grows
    BY <1>2 DEF Write, Job, Absent, Whole
  <1>3. ASSUME NEW w \in Workers, CreateRecord(w) PROVE Grows
    BY <1>3 DEF CreateRecord
  <1>4. CASE UNCHANGED <<index, file>>
    BY <1>4
  <1> QED
    BY <1>1, <1>2, <1>3, <1>4
    DEF Next, Proceed, Store, Ingest, Republish, Lookup, FetchBytes, Find, FindAgain,
        FindByHash, ReadBack, Parse, Fail, vars

\* A job another process does not touch stays sound.
LEMMA SoundIsStable ==
    ASSUME NEW j \in Job, JobSound(j), Grows PROVE JobSound(j)'
  BY DEF JobSound, Grows, Job

(***************************************************************************)
(* The worker that takes the step ends it with a sound job.                *)
(***************************************************************************)
LEMMA StepIsSound ==
    ASSUME IInv, NEW w \in Workers, Grows,
           \/ \E h \in Hashes : Ingest(w, h) \/ Republish(w, h)
           \/ Proceed(w)
           \/ Fail(w)
    PROVE  /\ JobSound(work[w])'
           /\ \A x \in Workers \ {w} : work'[x] = work[x]
  <1> USE DEF IInv, TypeOK
  <1> DEFINE Done == /\ JobSound(work[w])'
                     /\ \A x \in Workers \ {w} : work'[x] = work[x]
  <1>0. JobSound(work[w]) /\ work[w] \in Job
    OBVIOUS
  <1>1. ASSUME Finish(w) PROVE Done
    <2>1. work'[w] = Idle
      BY <1>1 DEF Finish
    <2>2. JobSound(Idle)'
      BY IdleIsSound
    <2> QED  BY <1>1, <2>1, <2>2 DEF Finish, JobSound
  <1>2. ASSUME NEW h \in Hashes, Ingest(w, h) PROVE Done
    BY <1>2 DEF Ingest, NewJob, JobSound, Storing
  <1>3. ASSUME NEW h \in Hashes, Republish(w, h) PROVE Done
    BY <1>3 DEF Republish, NewJob, JobSound, Storing
  <1>4. ASSUME Lookup(w) PROVE Done
    BY <1>0, <1>4 DEF Lookup, JobSound, Storing, Job
  <1>5. ASSUME FetchBytes(w) PROVE Done
    BY <1>0, <1>1, <1>5 DEF FetchBytes, At, Goto, JobSound, Storing, Job
  <1>6. ASSUME Find(w) PROVE Done
    BY <1>0, <1>6 DEF Find, FindByHash, At, Goto, JobSound, Storing, Job
  <1>7. ASSUME FindAgain(w) PROVE Done
    BY <1>0, <1>7 DEF FindAgain, FindByHash, At, Goto, JobSound, Storing, Job
  <1>8. ASSUME Open(w) PROVE Done
    BY <1>0, <1>8 DEF Open, At, Goto, JobSound, Storing, Job, Absent, Partial, Whole
  <1>9. ASSUME Write(w) PROVE Done
    BY <1>0, <1>9 DEF Write, At, Goto, JobSound, Storing, Job, Absent, Whole
  <1>10. ASSUME CreateRecord(w) PROVE Done
    BY <1>0, <1>10 DEF CreateRecord, At, Goto, JobSound, Storing, Job
  <1>11. ASSUME ReadBack(w) PROVE Done
    BY <1>0, <1>1, <1>11 DEF ReadBack, At, JobSound, Storing, Job
  <1>12. ASSUME Parse(w) PROVE Done
    BY <1>1, <1>12 DEF Parse
  <1>13. ASSUME Fail(w) PROVE Done
    BY <1>1, <1>13 DEF Fail
  <1> QED
    BY <1>2, <1>3, <1>4, <1>5, <1>6, <1>7, <1>8, <1>9, <1>10, <1>11, <1>12, <1>13
    DEF Proceed, Store

\* Only a file that exists gets a record.
LEMMA NextRecordHasFile == IInv /\ [Next]_vars => RecordHasFile'
  <1> SUFFICES ASSUME IInv, [Next]_vars PROVE RecordHasFile'
    OBVIOUS
  <1>1. Grows
    BY NextGrows DEF IInv
  <1>2. ASSUME NEW w \in Workers, CreateRecord(w) PROVE RecordHasFile'
    <2>1. file[work[w].hash] # Absent
      BY <1>2 DEF IInv, JobSound, CreateRecord, At
    <2> QED  BY <1>2, <2>1 DEF IInv, RecordHasFile, CreateRecord
  <1>3. CASE UNCHANGED index
    BY <1>1, <1>3 DEF IInv, TypeOK, RecordHasFile, Grows
  <1> QED
    BY <1>2, <1>3
    DEF Next, Proceed, Store, Ingest, Republish, Lookup, FetchBytes, Find, FindAgain,
        FindByHash, Open, Write, ReadBack, Parse, Fail, vars

LEMMA NextIInv == IInv /\ [Next]_vars => IInv'
  <1> SUFFICES ASSUME IInv, [Next]_vars PROVE IInv'
    OBVIOUS
  <1>1. TypeOK' /\ RecordHasFile' /\ Grows
    BY NextType, NextRecordHasFile, NextGrows DEF IInv
  <1>2. ASSUME NEW x \in Workers PROVE JobSound(work[x])'
    <2>0. work[x] \in Job /\ JobSound(work[x])
      BY <1>2 DEF IInv, TypeOK
    <2>1. JobSound(work[x])' \/ work'[x] # work[x]
      <3>1. JobSound(work[x]) => (work'[x] = work[x] => JobSound(work[x])')
        BY <1>1, <2>0 DEF JobSound, Grows, Job
      <3> QED  BY <2>0, <3>1
    <2>2. CASE UNCHANGED vars
      BY <2>1, <2>2 DEF vars
    <2>3. ASSUME NEW w \in Workers,
                 \/ \E h \in Hashes : Ingest(w, h) \/ Republish(w, h)
                 \/ Proceed(w)
                 \/ Fail(w)
          PROVE  JobSound(work[x])'
      <3>1. JobSound(work[w])' /\ (x # w => work'[x] = work[x])
        BY <1>1, <2>3, StepIsSound
      <3>2. CASE x = w
        BY <3>1, <3>2
      <3>3. CASE x # w
        BY <2>1, <3>1, <3>3
      <3> QED  BY <3>2, <3>3
    <2> QED  BY <2>2, <2>3 DEF Next
  <1> QED  BY <1>1, <1>2 DEF IInv

-----------------------------------------------------------------------------
(***************************************************************************)
(* The archive keeps its types and the inductive invariant: what each run  *)
(* has made sure of stays so, however many processes fail.                 *)
(***************************************************************************)
THEOREM Archive_IInv == Spec => []IInv
  BY InitIInv, NextIInv, PTL DEF Spec

(***************************************************************************)
(* Every state of the archive is well-typed; its stages are those of       *)
(* store, putIfAbsent and republishFromArchive.                            *)
(***************************************************************************)
THEOREM Archive_TypeOK == Spec => []TypeOK
  <1>1. IInv => TypeOK
    BY DEF IInv
  <1> QED  BY <1>1, Archive_IInv, PTL

(***************************************************************************)
(* A run parses whole, indexed bytes only, for any number of processes and *)
(* failures (ingestOne and republishFromArchive).                          *)
(***************************************************************************)
THEOREM Archive_ParsedBytesAreArchived == Spec => []ParsedBytesAreArchived
  <1>1. IInv => ParsedBytesAreArchived
    BY DEF IInv, JobSound, ParsedBytesAreArchived, At
  <1> QED  BY <1>1, Archive_IInv, PTL

(***************************************************************************)
(* A record never precedes its file (putIfAbsent).                         *)
(***************************************************************************)
THEOREM Archive_RecordHasFile == Spec => []RecordHasFile
  <1>1. IInv => RecordHasFile
    BY DEF IInv
  <1> QED  BY <1>1, Archive_IInv, PTL

(***************************************************************************)
(* Whole bytes stay whole and records are never removed (writeIfAbsent).   *)
(***************************************************************************)
THEOREM Archive_WholeForEver == Spec => WholeForEver
  <1>1. IInv /\ [Next]_vars =>
            [/\ \A h \in Hashes : file[h] = Whole => file'[h] = Whole
             /\ index \subseteq index']_vars
    BY NextGrows DEF IInv, Grows
  <1> QED  BY <1>1, Archive_IInv, PTL DEF Spec, WholeForEver

-----------------------------------------------------------------------------
(* The parser.  Lists of nodes and their places.                           *)

\* First picks the least element.
LEMMA First_Least ==
    ASSUME NEW S \in SUBSET (Nat \ {0}), S # {}
    PROVE  First(S) \in S /\ \A i \in S : First(S) <= i
<1> DEFINE R == {ss \in Nat \X Nat : ss[1] < ss[2]}
<1>1. IsWellFoundedOn(R, Nat)
  BY ONLY NatLessThanWellFounded DEF OpToRel
<1>2. PICK k \in S : \A i \in S : ~(<<i, k>> \in R)
  <2>1. S \subseteq Nat
    OBVIOUS
  <2> HIDE DEF R
  <2> QED BY <1>1, <2>1, WFMin
<1>3. \A i \in S : k <= i
  <2> TAKE i \in S
  <2>1. ~(i < k)
    BY <1>2
  <2> QED BY <2>1
<1> HIDE DEF R
<1> QED BY <1>3 DEF First

LEMMA First_Some ==
    ASSUME NEW S \in SUBSET (Nat \ {0})
    PROVE  First(S) # None => First(S) \in S
  BY First_Least DEF First, None
-----------------------------------------------------------------------------
(***************************************************************************)
(* Each node but the root stands under an earlier one of a type it may     *)
(* stand under.                                                            *)
(***************************************************************************)
Grown(tree) ==
    /\ tree \in Seq(Node)
    /\ Root \in DOMAIN tree
    /\ tree[Root].parent = None /\ TypeOf(tree[Root].locator) = "DOCUMENT"
    /\ \A k \in DOMAIN tree \ {Root} :
        /\ tree[k].parent \in DOMAIN tree /\ tree[k].parent < k
        /\ TypeOf(tree[tree[k].parent].locator) \in AllowedParents(TypeOf(tree[k].locator))

\* A current provision is None or a node of its type.
Current(tree, at, type) ==
    \/ at = None
    \/ /\ at \in DOMAIN tree
       /\ TypeOf(tree[at].locator) = type

\* later keeps the nodes of tree, but for text.
Extends(later, tree) ==
    /\ DOMAIN tree \subseteq DOMAIN later
    /\ \A k \in DOMAIN tree : later[k].locator = tree[k].locator

TreeInv ==
    /\ read \in Seq(Line)
    /\ Grown(nodes)
    /\ Current(nodes, chapter, "CHAPTER")
    /\ Current(nodes, article, "ARTICLE")
    /\ Current(nodes, paragraph, "PARAGRAPH")
    /\ Current(nodes, clause, "CLAUSE")

LEMMA Grown_Locator ==
    ASSUME NEW tree, Grown(tree), NEW k \in DOMAIN tree
    PROVE  tree[k] \in Node /\ tree[k].locator \in Locator /\ k \in Nat \ {0}
<1>1. tree[k] \in Node /\ k \in Nat \ {0}
  BY DEF Grown
<1> QED BY <1>1 DEF Node

\* What makeNode adds stands under an earlier node.
LEMMA MakeNode_Grown ==
    ASSUME NEW tree, Grown(tree), NEW parent \in DOMAIN tree, NEW locator \in Locator,
           NEW text \in SUBSET Nat,
           TypeOf(tree[parent].locator) \in AllowedParents(TypeOf(locator))
    PROVE  LET later == MakeNode(tree, parent, locator, text) IN
           /\ Grown(later) /\ Extends(later, tree)
           /\ Len(tree) + 1 \in DOMAIN later
           /\ later[Len(tree) + 1].locator = locator
           /\ later[Len(tree) + 1].parent = parent
<1> DEFINE node == [parent |-> parent, locator |-> locator, text |-> text]
           later == Append(tree, node)
<1>1. tree \in Seq(Node) /\ parent \in Nat /\ node \in Node
  BY DEF Grown, Node
<1>2. /\ later \in Seq(Node) /\ Len(later) = Len(tree) + 1
      /\ \A k \in DOMAIN tree : k \in DOMAIN later /\ later[k] = tree[k]
      /\ \A k \in DOMAIN later : k \in DOMAIN tree \/ k = Len(tree) + 1
      /\ later[Len(tree) + 1] = node /\ Len(tree) + 1 \in DOMAIN later
  <2> HIDE DEF node
  <2> QED BY <1>1
<1>3. node.parent = parent /\ node.locator = locator
  OBVIOUS
<1> HIDE DEF node, later
<1>4. parent < Len(tree) + 1 /\ Len(tree) + 1 # Root
  BY <1>1 DEF Root, Grown
<1>5. Grown(later)
  <2> SUFFICES ASSUME NEW k \in DOMAIN later \ {Root}
               PROVE  /\ later[k].parent \in DOMAIN later /\ later[k].parent < k
                      /\ TypeOf(later[later[k].parent].locator)
                            \in AllowedParents(TypeOf(later[k].locator))
    BY <1>2 DEF Grown
  <2>1. CASE k \in DOMAIN tree
    BY <2>1, <1>2 DEF Grown
  <2>2. CASE k = Len(tree) + 1
    BY <2>2, <1>2, <1>3, <1>4
  <2> QED BY <2>1, <2>2, <1>2
<1> QED BY <1>2, <1>3, <1>5 DEF Extends, MakeNode, later, node

LEMMA AppendText_Grown ==
    ASSUME NEW tree, Grown(tree), NEW k \in DOMAIN tree, NEW l, Words(l) \in SUBSET Nat
    PROVE  LET later == AppendText(tree, k, l) IN Grown(later) /\ Extends(later, tree)
<1> DEFINE later == AppendText(tree, k, l)
           words == NewWords(tree[k].text, l)
<1>0. words \in SUBSET Nat /\ later = [tree EXCEPT ![k].text = @ \cup words]
  BY DEF NewWords, AppendText
<1> HIDE DEF words, later
<1>1. [tree[k] EXCEPT !.text = @ \cup words] \in Node
  <2>1. tree[k] \in Node
    BY Grown_Locator
  <2> QED BY <1>0, <2>1 DEF Node
<1>2. /\ later \in Seq(Node) /\ DOMAIN later = DOMAIN tree
      /\ \A i \in DOMAIN tree : later[i].parent = tree[i].parent
                              /\ later[i].locator = tree[i].locator
  BY <1>0, <1>1 DEF Grown, Node
<1>3. Grown(later)
  BY <1>2 DEF Grown
<1> QED BY <1>2, <1>3 DEF Extends, later

-----------------------------------------------------------------------------
(* Provisions below an article.                                            *)

\* An article and what is below it is told by the length of the path.
LEMMA TypeOf_Is ==
    ASSUME NEW l \in Locator, Len(l.path) \in Nat
    PROVE  /\ l.at # "art" => TypeOf(l) \in {"DOCUMENT", "CHAPTER", "ANNEX"}
           /\ l.at = "art" =>
                /\ TypeOf(l) = "ARTICLE"    <=> Len(l.path) = 0
                /\ TypeOf(l) = "PARAGRAPH"  <=> Len(l.path) = 1
                /\ TypeOf(l) = "CLAUSE"     <=> Len(l.path) = 2
                /\ TypeOf(l) = "SUB_CLAUSE" <=> Len(l.path) > 2
<1>1. l.at \in {"doc", "ch", "art", "annex"}
  BY DEF Locator
<1>2. CASE l.at = "doc"
  BY <1>2 DEF TypeOf
<1>3. CASE l.at = "ch"
  BY <1>3 DEF TypeOf
<1>4. CASE l.at = "annex"
  BY <1>4 DEF TypeOf
<1>5. CASE l.at = "art"
  <2> DEFINE n == Len(l.path)
  <2>1. n \in Nat
    OBVIOUS
  <2>2. TypeOf(l) = IF n = 0 THEN "ARTICLE" ELSE IF n = 1 THEN "PARAGRAPH"
                    ELSE IF n = 2 THEN "CLAUSE" ELSE "SUB_CLAUSE"
    BY <1>5 DEF TypeOf
  <2> HIDE DEF n
  <2>3. /\ TypeOf(l) = "ARTICLE"    <=> n = 0
        /\ TypeOf(l) = "PARAGRAPH"  <=> n = 1
        /\ TypeOf(l) = "CLAUSE"     <=> n = 2
        /\ TypeOf(l) = "SUB_CLAUSE" <=> n > 2
    BY <2>1, <2>2
  <2> QED BY <1>5, <2>3 DEF n
<1> QED BY <1>1, <1>2, <1>3, <1>4, <1>5

\* The types go down one level with each number of the path.
LEMMA Below_Type ==
    ASSUME NEW tree, Grown(tree), NEW p \in DOMAIN tree, NEW n \in Nat
    PROVE  LET l == Below(tree, p, n) IN
           /\ l \in Locator
           /\ TypeOf(tree[p].locator) = "ARTICLE"   => TypeOf(l) = "PARAGRAPH"
           /\ TypeOf(tree[p].locator) = "PARAGRAPH" => TypeOf(l) = "CLAUSE"
           /\ TypeOf(tree[p].locator) = "CLAUSE"    => TypeOf(l) = "SUB_CLAUSE"
<1> DEFINE above == tree[p].locator
           l == Below(tree, p, n)
<1>1. above \in Locator
  BY Grown_Locator
<1>2. l = [above EXCEPT !.path = Append(above.path, n)]
  BY DEF Below
<1> HIDE DEF above, l
<1>3. /\ l \in Locator /\ l.at = above.at
      /\ Len(l.path) = Len(above.path) + 1 /\ Len(above.path) \in Nat
  <2>1. above.path \in Seq(Nat)
    BY <1>1 DEF Locator
  <2>2. Append(above.path, n) \in Seq(Nat) /\ Len(Append(above.path, n)) = Len(above.path) + 1
    BY <2>1
  <2> DEFINE path == Append(above.path, n)
  <2>3. path \in Seq(Nat) /\ l = [above EXCEPT !.path = path]
    BY <1>2, <2>2
  <2> HIDE DEF path
  <2>4. l \in Locator /\ l.at = above.at /\ l.path = path
    BY <1>1, <2>3 DEF Locator
  <2>5. Len(above.path) \in Nat
    BY <2>1
  <2> QED BY <2>2, <2>4, <2>5 DEF path
<1>4. /\ TypeOf(above) = "ARTICLE"   => TypeOf(l) = "PARAGRAPH"
      /\ TypeOf(above) = "PARAGRAPH" => TypeOf(l) = "CLAUSE"
      /\ TypeOf(above) = "CLAUSE"    => TypeOf(l) = "SUB_CLAUSE"
  <2> DEFINE depth == Len(above.path)
             level == Len(l.path)
  <2>1. depth \in Nat /\ level = depth + 1
    BY <1>3
  <2>2. /\ above.at = "art" => /\ TypeOf(above) = "ARTICLE"   <=> depth = 0
                               /\ TypeOf(above) = "PARAGRAPH" <=> depth = 1
                               /\ TypeOf(above) = "CLAUSE"    <=> depth = 2
        /\ above.at # "art" => TypeOf(above) \in {"DOCUMENT", "CHAPTER", "ANNEX"}
    BY <1>1, <1>3, TypeOf_Is
  <2>3. l.at = "art" => /\ TypeOf(l) = "PARAGRAPH"  <=> level = 1
                        /\ TypeOf(l) = "CLAUSE"     <=> level = 2
                        /\ TypeOf(l) = "SUB_CLAUSE" <=> level > 2
    <3>1. l \in Locator /\ Len(l.path) \in Nat
      BY <1>3
    <3> QED BY ONLY <3>1, TypeOf_Is
  <2>4. l.at = above.at
    BY <1>3
  <2> HIDE DEF depth, level
  <2>5. CASE above.at = "art"
    BY <2>1, <2>2, <2>3, <2>4, <2>5
  <2>6. CASE above.at # "art"
    BY <2>2, <2>6
  <2> QED BY <2>5, <2>6
<1> QED BY <1>3, <1>4 DEF above, l

LEMMA Child_Is ==
    ASSUME NEW tree, Grown(tree), NEW parent, NEW locator
    PROVE  LET c == Child(tree, parent, locator) IN
           /\ c # None => c \in DOMAIN tree /\ tree[c].parent = parent
                          /\ tree[c].locator = locator
           /\ (\E k \in DOMAIN tree : tree[k].parent = parent /\ tree[k].locator = locator)
                => c # None
<1> DEFINE S == {k \in DOMAIN tree : tree[k].parent = parent /\ tree[k].locator = locator}
<1>1. S \in SUBSET (Nat \ {0})
  BY Grown_Locator
<1>2. Child(tree, parent, locator) = First(S)
  BY DEF Child
<1>3. First(S) # None => First(S) \in S
  <2> HIDE DEF S
  <2> QED BY <1>1, First_Some
<1>4. S # {} => First(S) \in S
  <2> HIDE DEF S
  <2> QED BY <1>1, First_Least
<1> QED BY <1>1, <1>2, <1>3, <1>4 DEF None

\* ensureParagraph and ensureClause: afterwards the child is there.
LEMMA Ensure_Grown ==
    ASSUME NEW tree, Grown(tree), NEW p \in DOMAIN tree, NEW n \in Nat,
           TypeOf(tree[p].locator) \in {"ARTICLE", "PARAGRAPH"}
    PROVE  LET later == Ensure(tree, p, n)
               at    == Child(later, p, Below(later, p, n)) IN
           /\ Grown(later) /\ Extends(later, tree)
           /\ at \in DOMAIN later
           /\ TypeOf(later[at].locator)
                = IF TypeOf(tree[p].locator) = "ARTICLE" THEN "PARAGRAPH" ELSE "CLAUSE"
<1> DEFINE l     == Below(tree, p, n)
           later == Ensure(tree, p, n)
           at    == Child(later, p, Below(later, p, n))
<1>1. /\ l \in Locator
      /\ TypeOf(l) = IF TypeOf(tree[p].locator) = "ARTICLE" THEN "PARAGRAPH" ELSE "CLAUSE"
  BY Below_Type
<1>2. /\ Grown(later) /\ Extends(later, tree)
      /\ \E k \in DOMAIN later : later[k].parent = p /\ later[k].locator = l
  <2>1. CASE Child(tree, p, l) # None
    <3>1. later = tree
      BY <2>1 DEF Ensure
    <3> HIDE DEF later, l
    <3> QED BY <2>1, <3>1, Child_Is DEF Extends
  <2>2. CASE Child(tree, p, l) = None
    <3>1. later = MakeNode(tree, p, l, {})
      BY <2>2 DEF Ensure
    <3>2. TypeOf(tree[p].locator) \in AllowedParents(TypeOf(l))
      BY <1>1 DEF AllowedParents
    <3> HIDE DEF later, l
    <3> QED BY <1>1, <3>1, <3>2, MakeNode_Grown
  <2> QED BY <2>1, <2>2
<1>3. Below(later, p, n) = l
  BY <1>2 DEF Extends, Below
<1> HIDE DEF later
<1>4. at = Child(later, p, l)
  BY <1>3
<1> HIDE DEF l, at
<1>5. at \in DOMAIN later /\ later[at].locator = l
  BY <1>2, <1>4, Child_Is
<1> QED BY <1>1, <1>2, <1>5 DEF l, at, later
-----------------------------------------------------------------------------
(* The steps of the loop.                                                  *)

LEMMA Current_Later ==
    ASSUME NEW tree, NEW later, Extends(later, tree), NEW at, NEW type,
           Current(tree, at, type)
    PROVE  Current(later, at, type)
<1>1. at \in DOMAIN tree => at \in DOMAIN later /\ later[at].locator = tree[at].locator
  BY DEF Extends
<1> QED BY <1>1 DEF Current

\* A heading: a new node below the root or the current chapter.
LEMMA Heading_Grown ==
    ASSUME TreeInv, NEW locator \in Locator, NEW text \in SUBSET Nat,
           NEW parent \in {Root, ArticleParent},
           TypeOf(locator) \in {"CHAPTER", "ARTICLE", "ANNEX"},
           TypeOf(locator) = "CHAPTER" => parent = Root
    PROVE  LET later == MakeNode(nodes, parent, locator, text) IN
           /\ Grown(later) /\ Extends(later, nodes)
           /\ Current(later, Len(nodes) + 1, TypeOf(locator))
<1>1. parent \in DOMAIN nodes /\ TypeOf(nodes[parent].locator) \in {"DOCUMENT", "CHAPTER"}
      /\ (parent = Root => TypeOf(nodes[parent].locator) = "DOCUMENT")
  BY DEF TreeInv, Grown, Current, ArticleParent
<1>2. TypeOf(nodes[parent].locator) \in AllowedParents(TypeOf(locator))
  BY <1>1 DEF AllowedParents
<1> QED BY <1>1, <1>2, MakeNode_Grown DEF TreeInv, Current

LEMMA Lines_Shape ==
    ASSUME NEW l \in Lines
    PROVE  /\ l \in Line
           /\ l.num \in Seq(Nat) /\ l.bis \in Nat
           /\ l.kind \in {"qualified", "simple"} => l.num[1] \in Nat /\ Len(l.num) = 1
           /\ l.kind = "qualified" =>
                /\ Len(l.path) \in 1..3
                /\ \A i \in 1..Len(l.path) : l.path[i] \in Nat
<1>1. l \in Line
  BY LinesAssumption
<1>2. l.num \in Seq(Nat) /\ l.path \in Seq(Nat) /\ l.bis \in Nat
  BY <1>1 DEF Line
<1>3. /\ l.kind \in {"qualified", "simple"} => Len(l.num) = 1
      /\ l.kind = "qualified" => Len(l.path) \in 1..3
  BY LinesAssumption
<1>4. /\ Len(l.num) = 1 => l.num[1] \in Nat
      /\ \A i \in 1..Len(l.path) : l.path[i] \in Nat
  BY <1>2
<1> QED BY <1>1, <1>2, <1>3, <1>4

\* A qualified line goes to an article of the tree.
LEMMA Target_Is ==
    ASSUME TreeInv, article # None, NEW l
    PROVE  Target(l) \in DOMAIN nodes /\ TypeOf(nodes[Target(l)].locator) = "ARTICLE"
<1> DEFINE S == {k \in DOMAIN nodes :
                  IsArticle(k) /\ nodes[k].locator.num = l.num /\ nodes[k].locator.bis = l.bis}
<1>1. S \in SUBSET (Nat \ {0})
  BY Grown_Locator DEF TreeInv
<1>2. FindArticle(l) = First(S)
  BY DEF FindArticle
<1>3. FindArticle(l) # None => FindArticle(l) \in S
  <2> HIDE DEF S
  <2> QED BY <1>1, <1>2, First_Some
<1> QED BY <1>3 DEF Target, TreeInv, Current, IsArticle

\* A child of an article is a paragraph, whichever line has made it.
LEMMA SimpleParagraph_Is ==
    ASSUME TreeInv, article # None, NEW l, SimpleParagraph(l) # None
    PROVE  Current(nodes, SimpleParagraph(l), "PARAGRAPH")
<1> DEFINE S == {k \in DOMAIN nodes : /\ nodes[k].parent = Target(l)
                                      /\ nodes[k].locator.path = l.num
                                      /\ nodes[k].locator \in simple}
           at == SimpleParagraph(l)
<1>1. S \in SUBSET (Nat \ {0})
  BY Grown_Locator DEF TreeInv
<1>2. at = First(S)
  BY DEF SimpleParagraph
<1>3. at \in S
  <2> HIDE DEF S
  <2> QED BY <1>1, <1>2, First_Some
<1>4. Target(l) \in DOMAIN nodes /\ Target(l) # None /\ TypeOf(nodes[Target(l)].locator) = "ARTICLE"
  BY Target_Is, Grown_Locator DEF None, TreeInv
<1>5. at \in DOMAIN nodes /\ nodes[at].parent = Target(l)
  BY <1>3
<1> HIDE DEF at, S
<1>6. at # Root
  BY <1>4, <1>5 DEF TreeInv, Grown
<1>7. "ARTICLE" \in AllowedParents(TypeOf(nodes[at].locator))
  BY <1>4, <1>5, <1>6 DEF TreeInv, Grown
<1>8. TypeOf(nodes[at].locator) = "PARAGRAPH"
  BY <1>7 DEF AllowedParents
<1> QED BY <1>5, <1>8 DEF Current, at
-----------------------------------------------------------------------------
\* A line read keeps what it finds, but for text.
LEMMA Tree_Step ==
    ASSUME TreeInv, NEW l \in Lines,
           \/ Chrome(l) \/ Chapter(l) \/ Article(l) \/ Annex(l)
           \/ QualifiedClause(l) \/ QualifiedParagraph(l) \/ Simple(l) \/ Continuation(l)
    PROVE  Reads(l) /\ TreeInv' /\ Extends(nodes', nodes)
<1>0. Grown(nodes) /\ Root \in DOMAIN nodes /\ Len(read) + 1 \in Nat
  BY DEF TreeInv, Grown
<1>1. ASSUME Reads(l)
      PROVE  read' \in Seq(Line) /\ Words(l) \in SUBSET Nat
  BY <1>1, Lines_Shape DEF TreeInv, Words, Reads
\* It suffices that the tree grows and the current ones are named anew or kept.
<1>2. ASSUME Chrome(l)
      PROVE  TreeInv' /\ Extends(nodes', nodes)
  BY <1>1, <1>2 DEF Chrome, TreeInv, Extends
<1>3. ASSUME Chapter(l)
      PROVE  TreeInv' /\ Extends(nodes', nodes)
  <2>1. ChapterNumber(l) \in Locator /\ TypeOf(ChapterNumber(l)) = "CHAPTER"
    BY Lines_Shape DEF ChapterNumber, Loc, Locator, TypeOf
  <2>2. /\ Grown(nodes') /\ Extends(nodes', nodes)
        /\ Current(nodes', chapter', "CHAPTER")
    BY <1>1, <1>3, <2>1, Heading_Grown DEF Chapter
  <2> QED BY <1>1, <1>3, <2>2 DEF Chapter, TreeInv, Current
<1>4. ASSUME Article(l)
      PROVE  TreeInv' /\ Extends(nodes', nodes)
  <2>1. ArticleNumber(l) \in Locator /\ TypeOf(ArticleNumber(l)) = "ARTICLE"
    BY Lines_Shape DEF ArticleNumber, Loc, Locator, TypeOf
  <2>2. Grown(nodes') /\ Extends(nodes', nodes) /\ Current(nodes', article', "ARTICLE")
    BY <1>1, <1>4, <2>1, Heading_Grown DEF Article
  <2>3. Current(nodes', chapter', "CHAPTER")
    BY <1>4, <2>2, Current_Later DEF TreeInv, Article
  <2> QED BY <1>1, <1>4, <2>2, <2>3 DEF Article, TreeInv, Current
<1>5. ASSUME Annex(l)
      PROVE  TreeInv' /\ Extends(nodes', nodes)
  <2> DEFINE top == {k \in DOMAIN nodes : nodes[k].parent = Root}
             locator == Loc("annex", <<Cardinality(top) + 1>>, 0)
  <2>1. IsFiniteSet(top)
    <3>1. top \subseteq 1..Len(nodes) /\ Len(nodes) \in Nat
      BY <1>0 DEF Grown
    <3>2. IsFiniteSet(1..Len(nodes))
      BY <3>1, FS_Interval
    <3> HIDE DEF top
    <3> QED BY <3>1, <3>2, FS_Subset
  <2>2. Cardinality(top) \in Nat
    BY <2>1, FS_CardinalityType
  <2>3. locator \in Locator /\ TypeOf(locator) = "ANNEX"
    BY <2>2 DEF Loc, Locator, TypeOf
  <2>4. nodes' = MakeNode(nodes, ArticleParent, locator, Words(l))
    BY <1>5 DEF Annex
  <2> HIDE DEF top, locator
  <2>5. Grown(nodes') /\ Extends(nodes', nodes)
    BY <1>1, <1>5, <2>3, <2>4, Heading_Grown DEF Annex
  <2>6. Current(nodes', chapter', "CHAPTER")
    BY <1>5, <2>5, Current_Later DEF TreeInv, Annex
  <2> QED BY <1>1, <1>5, <2>5, <2>6 DEF Annex, TreeInv, Current
<1>6. ASSUME QualifiedClause(l)
      PROVE  TreeInv' /\ Extends(nodes', nodes)
  <2> DEFINE numbered == SimpleParagraph(l)
             n        == l.path[1]
             tree     == Ensure(nodes, numbered, n)
             at       == Child(tree, numbered, Below(tree, numbered, n))
  <2>1. n \in Nat
    BY <1>6, Lines_Shape DEF QualifiedClause
  <2>2. numbered \in DOMAIN nodes /\ TypeOf(nodes[numbered].locator) = "PARAGRAPH"
    BY <1>6, SimpleParagraph_Is DEF QualifiedClause, Current
  <2>3. article' \in DOMAIN nodes /\ TypeOf(nodes[article'].locator) = "ARTICLE"
    BY <1>6, Target_Is DEF QualifiedClause
  <2>4. /\ nodes' = AppendText(tree, at, l)
        /\ paragraph' = numbered /\ clause' = at /\ chapter' = chapter
    BY <1>6 DEF QualifiedClause
  <2>5. Words(l) \in SUBSET Nat /\ read' \in Seq(Line)
    BY <1>1, <1>6 DEF QualifiedClause
  <2> HIDE DEF numbered, n
  <2>6. /\ Grown(tree) /\ Extends(tree, nodes) /\ at \in DOMAIN tree
        /\ TypeOf(tree[at].locator) = "CLAUSE"
    BY <1>0, <2>1, <2>2, Ensure_Grown
  <2> HIDE DEF tree, at
  <2>7. Grown(nodes') /\ Extends(nodes', tree)
    BY <2>4, <2>5, <2>6, AppendText_Grown
  <2>8. Extends(nodes', nodes)
    BY <2>6, <2>7 DEF Extends
  <2>9. /\ Current(nodes', chapter', "CHAPTER") /\ Current(nodes', article', "ARTICLE")
        /\ Current(nodes', paragraph', "PARAGRAPH")
    BY <2>2, <2>3, <2>4, <2>8, Current_Later DEF TreeInv, Current
  <2>10. Current(nodes', clause', "CLAUSE")
    BY <2>4, <2>6, <2>7 DEF Extends, Current
  <2> QED BY <2>5, <2>7, <2>8, <2>9, <2>10 DEF TreeInv
<1>7. ASSUME QualifiedParagraph(l)
      PROVE  TreeInv' /\ Extends(nodes', nodes)
  <2> DEFINE target == Target(l)
             n      == Len(l.path)
             tree1  == Ensure(nodes, target, l.path[1])
             para   == Child(tree1, target, Below(tree1, target, l.path[1]))
             tree2  == IF n = 1 THEN tree1 ELSE Ensure(tree1, para, l.path[2])
             at     == IF n = 1 THEN None
                       ELSE Child(tree2, para, Below(tree2, para, l.path[2]))
             words  == Words(l)
             later  == IF n = 1 THEN AppendText(tree2, para, l)
                       ELSE IF n = 2 THEN AppendText(tree2, at, l)
                       ELSE MakeNode(tree2, at, Below(tree2, at, l.path[3]), words)
  <2>1. /\ nodes' = later /\ article' = target /\ paragraph' = para /\ clause' = at
        /\ chapter' = chapter
    BY <1>7 DEF QualifiedParagraph
  <2>2. target \in DOMAIN nodes /\ TypeOf(nodes[target].locator) = "ARTICLE"
    BY <1>7, Target_Is DEF QualifiedParagraph
  <2>3. words \in SUBSET Nat /\ read' \in Seq(Line)
    BY <1>1, <1>7 DEF QualifiedParagraph
  <2>4. n \in 1..3 /\ \A i \in 1..n : l.path[i] \in Nat
    BY <1>7, Lines_Shape DEF QualifiedParagraph
  <2> DEFINE Done == /\ Grown(later) /\ Extends(later, nodes) /\ Extends(later, tree1)
                     /\ Current(later, at, "CLAUSE")
  <2> HIDE DEF target, n, words
  <2>5. l.path[1] \in Nat /\ (n # 1 => l.path[2] \in Nat) /\ (n = 3 => l.path[3] \in Nat)
    BY <2>4
  <2>6. /\ Grown(tree1) /\ Extends(tree1, nodes) /\ para \in DOMAIN tree1
        /\ TypeOf(tree1[para].locator) = "PARAGRAPH"
    BY <1>0, <2>2, <2>5, Ensure_Grown
  <2> HIDE DEF tree1, para
  <2>7. ASSUME n = 1 PROVE Done
    <3>1. tree2 = tree1 /\ at = None /\ later = AppendText(tree1, para, l)
      BY <2>7
    <3> HIDE DEF tree2, at, later
    <3>2. Grown(later) /\ Extends(later, tree1)
      BY <2>3, <2>6, <3>1, AppendText_Grown DEF words
    <3>3. Extends(later, nodes)
      BY <2>6, <3>2 DEF Extends
    <3> QED BY <3>1, <3>2, <3>3 DEF Current
  <2>8. ASSUME n # 1 PROVE Done
    <3>1. /\ tree2 = Ensure(tree1, para, l.path[2])
          /\ at = Child(tree2, para, Below(tree2, para, l.path[2]))
      BY <2>8
    <3> HIDE DEF tree2, at, later
    <3>2. /\ Grown(tree2) /\ Extends(tree2, tree1) /\ at \in DOMAIN tree2
          /\ TypeOf(tree2[at].locator) = "CLAUSE"
      BY <2>5, <2>6, <2>8, <3>1, Ensure_Grown
    <3>3. Grown(later) /\ Extends(later, tree2)
      <4>1. CASE n = 2
        BY <2>3, <3>2, <4>1, AppendText_Grown DEF later, words
      <4>2. CASE n = 3
        <5> DEFINE below == Below(tree2, at, l.path[3])
        <5>1. below \in Locator /\ TypeOf(below) = "SUB_CLAUSE"
          BY <2>5, <3>2, <4>2, Below_Type
        <5>2. TypeOf(tree2[at].locator) \in AllowedParents(TypeOf(below))
          BY <3>2, <5>1 DEF AllowedParents
        <5>3. later = MakeNode(tree2, at, below, words)
          BY <4>2 DEF later
        <5> HIDE DEF below
        <5> QED BY <2>3, <3>2, <5>1, <5>2, <5>3, MakeNode_Grown
      <4> QED BY <2>4, <2>8, <4>1, <4>2
    <3>4. Extends(later, nodes) /\ Extends(later, tree1)
      BY <2>6, <3>2, <3>3 DEF Extends
    <3>5. Current(later, at, "CLAUSE")
      BY <3>2, <3>3 DEF Extends, Current
    <3> QED BY <3>3, <3>4, <3>5
  <2>9. Done
    BY <2>7, <2>8
  <2> HIDE DEF later, at
  <2>10. Current(later, chapter, "CHAPTER") /\ Current(later, target, "ARTICLE")
    BY <2>2, <2>9, Current_Later DEF TreeInv, Current
  <2>11. Current(later, para, "PARAGRAPH")
    BY <2>6, <2>9, Current_Later DEF Current
  <2> QED BY <2>1, <2>3, <2>9, <2>10, <2>11 DEF TreeInv
<1>8. ASSUME Simple(l)
      PROVE  TreeInv' /\ Extends(nodes', nodes)
  <2> DEFINE n    == l.num[1]
             tree == Ensure(nodes, article, n)
             at   == Child(tree, article, Below(tree, article, n))
  <2>1. n \in Nat /\ Words(l) \in SUBSET Nat /\ read' \in Seq(Line)
    BY <1>1, <1>8, Lines_Shape DEF Simple
  <2>2. article \in DOMAIN nodes /\ TypeOf(nodes[article].locator) = "ARTICLE"
    BY <1>8 DEF Simple, TreeInv, Current
  <2>3. /\ nodes' = AppendText(tree, at, l) /\ paragraph' = at /\ clause' = None
        /\ chapter' = chapter /\ article' = article
    BY <1>8 DEF Simple
  <2> HIDE DEF n
  <2>4. /\ Grown(tree) /\ Extends(tree, nodes) /\ at \in DOMAIN tree
        /\ TypeOf(tree[at].locator) = "PARAGRAPH"
    BY <1>0, <2>1, <2>2, Ensure_Grown
  <2> HIDE DEF tree, at
  <2>5. Grown(nodes') /\ Extends(nodes', tree)
    BY <2>1, <2>3, <2>4, AppendText_Grown
  <2>6. Extends(nodes', nodes)
    BY <2>4, <2>5 DEF Extends
  <2>7. Current(nodes', chapter', "CHAPTER") /\ Current(nodes', article', "ARTICLE")
    BY <2>3, <2>6, Current_Later DEF TreeInv
  <2>8. Current(nodes', paragraph', "PARAGRAPH") /\ Current(nodes', clause', "CLAUSE")
    BY <2>3, <2>4, <2>5 DEF Extends, Current
  <2> QED BY <2>1, <2>5, <2>6, <2>7, <2>8 DEF TreeInv
<1>9. ASSUME Continuation(l)
      PROVE  TreeInv' /\ Extends(nodes', nodes)
  <2> DEFINE at == IF clause # None THEN clause
                   ELSE IF paragraph # None THEN paragraph ELSE article
  <2>1. /\ nodes' = IF at = None THEN nodes ELSE AppendText(nodes, at, l)
        /\ UNCHANGED <<chapter, article, paragraph, clause>>
        /\ read' \in Seq(Line) /\ Words(l) \in SUBSET Nat
    BY <1>1, <1>9 DEF Continuation
  <2>2. at # None => at \in DOMAIN nodes
    BY DEF TreeInv, Current
  <2> HIDE DEF at
  <2>3. Grown(nodes') /\ Extends(nodes', nodes)
    BY <1>0, <2>1, <2>2, AppendText_Grown DEF Extends
  <2>4. /\ Current(nodes', chapter, "CHAPTER") /\ Current(nodes', article, "ARTICLE")
        /\ Current(nodes', paragraph, "PARAGRAPH") /\ Current(nodes', clause, "CLAUSE")
    BY <2>3, Current_Later DEF TreeInv
  <2> QED BY <2>1, <2>3, <2>4 DEF TreeInv
<1>10. Reads(l)
  BY DEF Chrome, Chapter, Article, Annex, QualifiedClause, QualifiedParagraph, Simple, Continuation
<1> QED BY <1>2, <1>3, <1>4, <1>5, <1>6, <1>7, <1>8, <1>9, <1>10

(***************************************************************************)
(* The loop keeps a tree (legalinfo-html.parser.ts:66-263): in every state *)
(* each node stands under an earlier one of a type it may stand under, and *)
(* the current chapter, article, paragraph and clause are nodes of these   *)
(* types, whatever the lines and in whatever order.                        *)
(***************************************************************************)
THEOREM ParsedTree_Inv == TreeSpec => []TreeInv
<1>1. TreeInit => TreeInv
  <2> SUFFICES ASSUME TreeInit PROVE TreeInv
    OBVIOUS
  <2>1. Loc("doc", <<>>, 0) \in Locator /\ TypeOf(Loc("doc", <<>>, 0)) = "DOCUMENT"
    BY DEF Loc, Locator, TypeOf
  <2> DEFINE root == [parent |-> None, locator |-> Loc("doc", <<>>, 0), text |-> {}]
  <2>2. /\ root \in Node
        /\ root.parent = None /\ root.locator = Loc("doc", <<>>, 0)
    BY <2>1 DEF Node, None
  <2>3. nodes = <<root>>
    BY DEF TreeInit
  <2> HIDE DEF root
  <2>4. Grown(nodes)
    BY <2>1, <2>2, <2>3 DEF Grown, Root
  <2> QED BY <2>4 DEF TreeInit, TreeInv, Current
<1>2. TreeInv /\ [TreeNext]_treeVars => TreeInv'
  <2>1. ASSUME TreeInv, UNCHANGED treeVars PROVE TreeInv'
    BY <2>1 DEF treeVars, TreeInv
  <2> QED BY <2>1, Tree_Step DEF TreeNext
<1> QED BY <1>1, <1>2, PTL DEF TreeSpec

\* One root, parents of the allowed types, no cycle.
LEMMA Grown_Structure ==
    ASSUME NEW tree, Grown(tree)
    PROVE  /\ Cardinality(DocumentParents(tree)) = 1
           /\ \A k \in DOMAIN tree : ParentAllowed(tree, k)
           /\ ~Cyclic(tree)
<1>0. Root \in DOMAIN tree /\ tree[Root].parent = None
  BY DEF Grown
<1>1. \A k \in DOMAIN tree \ {Root} : tree[k].parent # None
  BY Grown_Locator DEF Grown, None
<1>2. Cardinality(DocumentParents(tree)) = 1
  <2>1. DocumentParents(tree) = {Root}
    BY <1>0, <1>1 DEF DocumentParents, Grown
  <2> QED BY <2>1, FS_Singleton
<1>3. \A k \in DOMAIN tree : ParentAllowed(tree, k)
  BY <1>0, <1>1 DEF ParentAllowed, Grown
<1>4. ~Cyclic(tree)
  <2> SUFFICES ASSUME NEW S \in SUBSET DOMAIN tree, S # {},
                      \A k \in S : tree[k].parent \in S
               PROVE  FALSE
    BY DEF Cyclic
  <2>1. S \in SUBSET (Nat \ {0})
    BY Grown_Locator
  <2>2. PICK k \in S : \A i \in S : k <= i
    BY <2>1, First_Least
  <2>3. tree[k].parent \in Nat \ {0} /\ k <= tree[k].parent
    BY <2>1, <2>2
  <2>4. k # Root
    BY <1>0, <2>3 DEF None
  <2> QED BY <2>1, <2>3, <2>4 DEF Grown
<1> QED BY <1>2, <1>3, <1>4

(***************************************************************************)
(* Two nodes of one locator are the only fault the evaluation can find in  *)
(* what the parser builds: exactly one root, every parent of an allowed    *)
(* type, and no cycle, for all documents (evaluate-version.ts:27-92).      *)
(***************************************************************************)
THEOREM ParsedTree_ClashIsTheOnlyFault == TreeSpec => []ClashIsTheOnlyFault
<1>1. TreeInv => ClashIsTheOnlyFault
  BY Grown_Structure DEF TreeInv, ClashIsTheOnlyFault, StructurePasses
<1> QED BY <1>1, ParsedTree_Inv, PTL

-----------------------------------------------------------------------------
(***************************************************************************)
(* The parser and its reader.                                              *)
(*                                                                         *)
(* The parser keeps a tree and the current provisions, the reader of       *)
(* PublicationGate only the place where he stands.  GateInv says that they *)
(* agree.  A document clashes exactly when it names something twice        *)
(* (Clash, NamedTwice); after that nothing more is said of it, for then    *)
(* FindArticle may find another node than the line means.  Before it every *)
(* locator is one node's, so that ensureParagraph and ensureClause find    *)
(* the provision the line means whatever lines lie between, and Placed     *)
(* holds: the current provisions hang on each other and are where the      *)
(* reader stands, the article numbers and the places of lines "n." are     *)
(* those the parser looks up, every place is a node's, and the text of     *)
(* each node is the lines of its place, less those that its earlier ones   *)
(* include.  The last is a fact about the text as a whole: whether a line  *)
(* is kept depends on the lines kept before it and on no later one, so it  *)
(* is decided once, when the line is read.  Which words a text includes is *)
(* a parameter; nothing is assumed of it.                                  *)
(*                                                                         *)
(* Where the reader stands is a recursion over the lines.  What is needed  *)
(* of it is three facts: that it depends on the lines up to i only, by the *)
(* least line at which two readings would part (Follows_Agree), that there *)
(* is such a reading of every document, by the least length without        *)
(* (Follows_Exist), and that he stands in a provision exactly while an     *)
(* article is open, by the least line where he does not (Standing_Is).     *)
(* Then one line more is After, one step of the reader, and the steps of   *)
(* the parser are compared with it branch by branch.                       *)
(***************************************************************************)
\* The locator with another path.
Under(l, path) == [l EXCEPT !.path = path]

\* What is below an article spells its place after that of its parent.
Spelled(tree) ==
    \A k \in DOMAIN tree \ {Root} :
        TypeOf(tree[k].locator) \in {"PARAGRAPH", "CLAUSE", "SUB_CLAUSE"} =>
            LET path == tree[k].locator.path IN
            tree[k].locator = Below(tree, tree[k].parent, path[Len(path)])

\* The current provision.
Here == IF clause # None THEN clause ELSE IF paragraph # None THEN paragraph ELSE article

\* The current provisions hang on each other.
Hanging ==
    /\ paragraph # None => article # None /\ nodes[paragraph].parent = article
    /\ clause # None => paragraph # None /\ nodes[clause].parent = paragraph

\* The numbers of the articles, and the places that lines "n." have had.
Headings == {ArticleNumber(read[j]) : j \in {h \in DOMAIN read : IsHeading(read[h])}}

Listings == {Standing[j] : j \in {h \in DOMAIN read : read[h].kind = "simple"}}

\* The lines whose nodes are always new.
Names(i) ==
    IsHeading(read[i]) \/ IsSubClause(i) \/ read[i].kind \in {"chapter", "annex"}

NameTypes == {"CHAPTER", "ARTICLE", "ANNEX", "SUB_CLAUSE"}

TopNodes(tree) == {k \in DOMAIN tree : tree[k].parent = Root}

\* Parser and reader are at the same place.
StandsHere ==
    Standing[Len(read)] = IF article = None THEN Nowhere ELSE nodes[Here].locator

ListsAgree ==
    /\ Headings = {nodes[k].locator : k \in {h \in DOMAIN nodes : IsArticle(h)}}
    /\ simple = Listings \ {Nowhere}

\* Every place of a line is a node's.
PlacesAreNodes ==
    \A i \in DOMAIN read :
        Place(i) = Nowhere \/ \E k \in DOMAIN nodes : nodes[k].locator = Place(i)

TextsArePlaced ==
    \A k \in DOMAIN nodes \ {Root} :
        nodes[k].text = {i \in DOMAIN read : /\ Says(i) /\ Place(i) = nodes[k].locator
                                            /\ ~SaidBefore(i, nodes[k].text)}

NodesAreNamed ==
    \A k \in DOMAIN nodes \ {Root} : TypeOf(nodes[k].locator) \in NameTypes =>
        \E i \in DOMAIN read : Names(i) /\ Place(i) = nodes[k].locator

TopsAgree ==
    /\ Cardinality(TopNodes(nodes)) = Cardinality(TopLines(Len(read)))
    /\ chapter = None <=> \A h \in DOMAIN read : read[h].kind # "chapter"

Placed ==
    /\ Spelled(nodes) /\ Hanging /\ StandsHere /\ ListsAgree
    /\ PlacesAreNodes /\ TextsArePlaced /\ NodesAreNamed /\ TopsAgree

GateInv ==
    /\ Clash(nodes) <=> NamedTwice
    /\ ~Clash(nodes) => Placed

-----------------------------------------------------------------------------
(* The reader's place is a recursion over the lines.                       *)

\* Where line i leaves a reader, who was at f[i - 1] after the line before.
Stand(lines, f, i) ==
    IF i = 0 THEN Nowhere
    ELSE LET l       == lines[i]
             before  == f[i - 1]
             art     == IF \E j \in 1..(i - 1) :
                              IsHeading(lines[j]) /\ ArticleNumber(lines[j]) = Loc("art", l.num, l.bis)
                        THEN Loc("art", l.num, l.bis)
                        ELSE [before EXCEPT !.path = <<>>]
             listed  == \E j \in 1..(i - 1) :
                            lines[j].kind = "simple" /\ f[j] = [art EXCEPT !.path = l.num]
         IN  CASE l.kind \in {"chapter", "annex"}              -> Nowhere
               [] IsHeading(l)                                 -> ArticleNumber(l)
               [] l.kind = "simple" /\ before # Nowhere        -> [before EXCEPT !.path = l.num]
               [] l.kind = "qualified" /\ before # Nowhere     ->
                    IF Len(l.path) = 1 /\ listed
                    THEN [art EXCEPT !.path = l.num \o l.path]
                    ELSE [art EXCEPT !.path = IF Len(l.path) = 3 THEN SubSeq(l.path, 1, 2)
                                              ELSE l.path]
               [] OTHER                                        -> before

\* f says so of the first m lines.
Follows(f, lines, m) == f = [i \in 0..m |-> Stand(lines, f, i)]

Reading(lines) == CHOOSE f : f = [i \in 0..Len(lines) |-> Stand(lines, f, i)]

LEMMA Standing_Reading == Standing = Reading(read) /\ Standing' = Reading(read')
<1>1. Standing = Reading(read)
  BY DEF Standing, Reading, Stand
<1>2. Standing' = Reading(read')
  BY DEF Standing, Reading, Stand
<1> QED BY <1>1, <1>2

\* It depends on the lines up to i and on the places before.
LEMMA Stand_Local ==
    ASSUME NEW lines, NEW more, NEW f, NEW g, NEW i \in Nat,
           \A j \in 1..i : lines[j] = more[j],
           \A j \in 0..(i - 1) : f[j] = g[j]
    PROVE  Stand(lines, f, i) = Stand(more, g, i)
<1>1. CASE i = 0
  BY <1>1 DEF Stand
<1>2. CASE i # 0
  <2>1. lines[i] = more[i] /\ f[i - 1] = g[i - 1]
    BY <1>2
  <2>2. \A x : (\E j \in 1..(i - 1) : IsHeading(lines[j]) /\ ArticleNumber(lines[j]) = x)
           <=> (\E j \in 1..(i - 1) : IsHeading(more[j]) /\ ArticleNumber(more[j]) = x)
    <3>1. \A j \in 1..(i - 1) : lines[j] = more[j]
      BY <1>2
    <3> QED BY <3>1, Zenon
  <2>3. \A x : (\E j \in 1..(i - 1) : lines[j].kind = "simple" /\ f[j] = x)
           <=> (\E j \in 1..(i - 1) : more[j].kind = "simple" /\ g[j] = x)
    <3>1. \A j \in 1..(i - 1) : lines[j] = more[j] /\ f[j] = g[j]
      BY <1>2
    <3> QED BY <3>1, Zenon
  <2> QED BY <1>2, <2>1, <2>2, <2>3 DEF Stand
<1> QED BY <1>1, <1>2

LEMMA Follows_Agree ==
    ASSUME NEW lines, NEW more, NEW f, NEW g, NEW m \in Nat, NEW n \in Nat, m <= n,
           \A j \in 1..m : lines[j] = more[j],
           Follows(f, lines, m), Follows(g, more, n)
    PROVE  \A i \in 0..m : f[i] = g[i]
<1> DEFINE S == {i \in 1..m : f[i] # g[i]}
<1>0. \A i \in 0..m : f[i] = Stand(lines, f, i) /\ g[i] = Stand(more, g, i)
  <2>1. \A i \in 0..m : f[i] = Stand(lines, f, i)
    BY Zenon DEF Follows
  <2>2. \A i \in 0..n : g[i] = Stand(more, g, i)
    BY Zenon DEF Follows
  <2>3. 0..m \subseteq 0..n
    OBVIOUS
  <2> QED BY <2>1, <2>2, <2>3
<1>1. f[0] = g[0]
  <2>1. 0 \in 0..m
    OBVIOUS
  <2>2. Stand(lines, f, 0) = Nowhere /\ Stand(more, g, 0) = Nowhere
    BY DEF Stand
  <2> QED BY <1>0, <2>1, <2>2, Zenon
<1>2. S = {}
  <2> SUFFICES ASSUME S # {} PROVE FALSE
    OBVIOUS
  <2>1. S \in SUBSET (Nat \ {0})
    OBVIOUS
  <2>2. PICK k \in S : \A i \in S : k <= i
    <3> HIDE DEF S
    <3> QED BY <2>1, First_Least
  <2>3. \A j \in 0..(k - 1) : f[j] = g[j]
    <3> SUFFICES ASSUME NEW j \in 0..(k - 1) PROVE f[j] = g[j]
      OBVIOUS
    <3>1. j = 0 \/ (j \in 1..m /\ ~(k <= j))
      BY <2>2
    <3> QED BY <1>1, <2>2, <3>1
  <2>4. k \in Nat /\ k \in 0..m /\ \A j \in 1..k : lines[j] = more[j]
    BY <2>2
  <2>5. Stand(lines, f, k) = Stand(more, g, k)
    BY <2>3, <2>4, Stand_Local
  <2> QED BY <1>0, <2>2, <2>4, <2>5
<1> QED BY <1>1, <1>2

LEMMA Follows_Exist ==
    ASSUME NEW lines, NEW m \in Nat
    PROVE  \E f : Follows(f, lines, m)
<1> DEFINE Bad == {k \in Nat : ~\E f : Follows(f, lines, k)}
<1> SUFFICES ASSUME Bad # {} PROVE FALSE
  BY Zenon
<1>1. \E f : Follows(f, lines, 0)
  <2> DEFINE f == [i \in 0..0 |-> Nowhere]
  <2>1. f = [i \in 0..0 |-> Stand(lines, f, i)]
    BY DEF Stand
  <2> HIDE DEF f
  <2> QED BY <2>1 DEF Follows
<1>2. Bad \in SUBSET (Nat \ {0})
  BY <1>1, Zenon
<1>3. PICK k \in Bad : \A i \in Bad : k <= i
  <2> HIDE DEF Bad
  <2> QED BY <1>2, First_Least
<1>4. k \in Nat \ {0} /\ k - 1 \in Nat
  BY <1>2, <1>3
<1>5. k - 1 \notin Bad
  <2> HIDE DEF Bad
  <2> QED BY <1>3, <1>4
<1>6. PICK f : Follows(f, lines, k - 1)
  BY <1>4, <1>5
<1> DEFINE g == [i \in 0..k |-> IF i = k THEN Stand(lines, f, k) ELSE f[i]]
<1>7. \A i \in 0..(k - 1) : g[i] = f[i]
  BY <1>4
<1>8. g[k] = Stand(lines, f, k) /\ g = [i \in 0..k |-> g[i]]
  BY <1>4
<1> HIDE DEF g
<1>9. \A i \in 0..k : g[i] = Stand(lines, g, i)
  <2> SUFFICES ASSUME NEW i \in 0..k PROVE g[i] = Stand(lines, g, i)
    OBVIOUS
  <2>1. i \in Nat /\ \A j \in 0..(i - 1) : f[j] = g[j]
    BY <1>4, <1>7
  <2>2. Stand(lines, f, i) = Stand(lines, g, i)
    BY <2>1, Stand_Local
  <2>3. CASE i = k
    BY <1>8, <2>2, <2>3
  <2>4. CASE i # k
    <3>1. i \in 0..(k - 1)
      BY <1>4, <2>4
    <3>2. f[i] = Stand(lines, f, i)
      BY <1>6, <3>1, Zenon DEF Follows
    <3> QED BY <1>7, <2>2, <3>1, <3>2
  <2> QED BY <2>3, <2>4
<1>10. Follows(g, lines, k)
  BY <1>8, <1>9, Zenon DEF Follows
<1> QED BY <1>3, <1>10

LEMMA Reading_Is ==
    ASSUME NEW lines, Len(lines) \in Nat
    PROVE  Follows(Reading(lines), lines, Len(lines))
<1>1. PICK f : Follows(f, lines, Len(lines))
  BY Follows_Exist
<1>2. \E f_1 : f_1 = [i \in 0..Len(lines) |-> Stand(lines, f_1, i)]
  BY <1>1, Zenon DEF Follows
<1> QED BY <1>2, Zenon DEF Reading, Follows

\* What has been read stays where it is.
LEMMA Standing_Later ==
    ASSUME read \in Seq(Line), NEW l \in Line, Reads(l)
    PROVE  /\ Standing[0] = Nowhere /\ Standing'[0] = Nowhere
           /\ \A i \in 0..Len(read) : Standing'[i] = Standing[i]
           /\ Standing'[Len(read) + 1] = Stand(read', Standing', Len(read) + 1)
           /\ read' \in Seq(Line) /\ Len(read') = Len(read) + 1
           /\ read'[Len(read) + 1] = l /\ \A i \in 1..Len(read) : read'[i] = read[i]
<1>1. /\ read' \in Seq(Line) /\ Len(read') = Len(read) + 1 /\ Len(read) \in Nat
      /\ read'[Len(read) + 1] = l /\ \A i \in 1..Len(read) : read'[i] = read[i]
  BY DEF Reads
<1>2. /\ Follows(Standing, read, Len(read))
      /\ Follows(Standing', read', Len(read) + 1)
  BY <1>1, Reading_Is, Standing_Reading
<1>3. \A i \in 0..Len(read) : Standing'[i] = Standing[i]
  BY <1>1, <1>2, Follows_Agree
<1>4. /\ \A i \in 0..Len(read) : Standing[i] = Stand(read, Standing, i)
      /\ \A i \in 0..(Len(read) + 1) : Standing'[i] = Stand(read', Standing', i)
  BY <1>2, Zenon DEF Follows
<1>5. 0 \in 0..Len(read) /\ Len(read) + 1 \in 0..(Len(read) + 1)
  BY <1>1
<1>6. Standing[0] = Nowhere
  BY <1>4, <1>5, Zenon DEF Stand
<1> QED BY <1>1, <1>3, <1>4, <1>5, <1>6

\* Where a line leaves a reader: of the lines before, the numbers of the
\* articles and the places of lines "n." matter.
After(l, before, headings, listings) ==
    LET art == IF Loc("art", l.num, l.bis) \in headings THEN Loc("art", l.num, l.bis)
               ELSE Under(before, <<>>)
    IN  CASE l.kind \in {"chapter", "annex"}          -> Nowhere
          [] IsHeading(l)                             -> ArticleNumber(l)
          [] l.kind = "simple" /\ before # Nowhere    -> Under(before, l.num)
          [] l.kind = "qualified" /\ before # Nowhere ->
               IF Len(l.path) = 1 /\ Under(art, l.num) \in listings
               THEN Under(art, l.num \o l.path)
               ELSE Under(art, IF Len(l.path) = 3 THEN SubSeq(l.path, 1, 2) ELSE l.path)
          [] OTHER                                    -> before

HeadingsBefore(lines, i) ==
    {ArticleNumber(lines[j]) : j \in {h \in 1..(i - 1) : IsHeading(lines[h])}}

ListingsBefore(lines, f, i) ==
    {f[j] : j \in {h \in 1..(i - 1) : lines[h].kind = "simple"}}

LEMMA Stand_After ==
    ASSUME NEW lines, NEW f, NEW i, i # 0
    PROVE  Stand(lines, f, i) = After(lines[i], f[i - 1], HeadingsBefore(lines, i), ListingsBefore(lines, f, i))
<1> DEFINE headings == HeadingsBefore(lines, i)
           listings == ListingsBefore(lines, f, i)
           l   == lines[i]
           art == IF Loc("art", l.num, l.bis) \in headings THEN Loc("art", l.num, l.bis)
                  ELSE Under(f[i - 1], <<>>)
<1>2. (IF \E j \in 1..(i - 1) : IsHeading(lines[j]) /\ ArticleNumber(lines[j]) = Loc("art", l.num, l.bis)
       THEN Loc("art", l.num, l.bis) ELSE Under(f[i - 1], <<>>)) = art
  BY Zenon DEF HeadingsBefore
<1>3. (\E j \in 1..(i - 1) : lines[j].kind = "simple" /\ f[j] = Under(art, l.num))
        <=> Under(art, l.num) \in listings
  BY Zenon DEF ListingsBefore
<1>4. Stand(lines, f, i) =
        CASE l.kind \in {"chapter", "annex"}       -> Nowhere
          [] IsHeading(l)                          -> ArticleNumber(l)
          [] l.kind = "simple" /\ f[i - 1] # Nowhere   -> Under(f[i - 1], l.num)
          [] l.kind = "qualified" /\ f[i - 1] # Nowhere ->
               IF Len(l.path) = 1
                  /\ \E j \in 1..(i - 1) : lines[j].kind = "simple" /\ f[j] = Under(art, l.num)
               THEN Under(art, l.num \o l.path)
               ELSE Under(art, IF Len(l.path) = 3 THEN SubSeq(l.path, 1, 2) ELSE l.path)
          [] OTHER                                 -> f[i - 1]
  <2> DEFINE art_2 == IF \E j \in 1..(i - 1) : IsHeading(lines[j])
                                        /\ ArticleNumber(lines[j]) = Loc("art", l.num, l.bis)
                      THEN Loc("art", l.num, l.bis) ELSE Under(f[i - 1], <<>>)
  <2>1. Stand(lines, f, i) =
        CASE l.kind \in {"chapter", "annex"}       -> Nowhere
          [] IsHeading(l)                          -> ArticleNumber(l)
          [] l.kind = "simple" /\ f[i - 1] # Nowhere   -> Under(f[i - 1], l.num)
          [] l.kind = "qualified" /\ f[i - 1] # Nowhere ->
               IF Len(l.path) = 1
                  /\ \E j \in 1..(i - 1) : lines[j].kind = "simple" /\ f[j] = Under(art_2, l.num)
               THEN Under(art_2, l.num \o l.path)
               ELSE Under(art_2, IF Len(l.path) = 3 THEN SubSeq(l.path, 1, 2) ELSE l.path)
          [] OTHER                                 -> f[i - 1]
    BY Zenon DEF Stand, Under
  <2>2. art_2 = art
    BY <1>2
  <2> HIDE DEF art_2, art, headings, listings
  <2> QED BY <2>1, <2>2, Zenon
<1> HIDE DEF art, headings, listings
<1>5. After(l, f[i - 1], headings, listings) =
        CASE l.kind \in {"chapter", "annex"}       -> Nowhere
          [] IsHeading(l)                          -> ArticleNumber(l)
          [] l.kind = "simple" /\ f[i - 1] # Nowhere   -> Under(f[i - 1], l.num)
          [] l.kind = "qualified" /\ f[i - 1] # Nowhere ->
               IF Len(l.path) = 1 /\ Under(art, l.num) \in listings
               THEN Under(art, l.num \o l.path)
               ELSE Under(art, IF Len(l.path) = 3 THEN SubSeq(l.path, 1, 2) ELSE l.path)
          [] OTHER                                 -> f[i - 1]
  BY Zenon DEF After, art
<1> QED BY <1>3, <1>4, <1>5 DEF headings, listings

LEMMA Standing_After ==
    ASSUME read \in Seq(Line), NEW l \in Line, Reads(l)
    PROVE  Standing'[Len(read) + 1] = After(l, Standing[Len(read)], Headings, Listings)
<1> DEFINE n == Len(read)
<1>1. n \in Nat /\ (n + 1) - 1 = n /\ n + 1 # 0 /\ DOMAIN read = 1..n
  OBVIOUS
<1>2. /\ read'[n + 1] = l /\ \A i \in 1..n : read'[i] = read[i]
      /\ \A i \in 1..n : Standing'[i] = Standing[i]
      /\ Standing'[n] = Standing[n]
      /\ Standing'[n + 1] = Stand(read', Standing', n + 1)
  <2>1. 1..n \subseteq 0..n /\ n \in 0..n
    BY <1>1
  <2> QED BY <2>1, Standing_Later
<1> HIDE DEF n
<1>3. 1..((n + 1) - 1) = DOMAIN read
  BY <1>1
<1>4. HeadingsBefore(read', n + 1) = Headings
  BY <1>1, <1>2, <1>3 DEF HeadingsBefore, Headings
<1>5. ListingsBefore(read', Standing', n + 1) = Listings
  BY <1>1, <1>2, <1>3 DEF ListingsBefore, Listings
<1>6. Stand(read', Standing', n + 1)
        = After(read'[n + 1], Standing'[(n + 1) - 1], HeadingsBefore(read', n + 1),
                ListingsBefore(read', Standing', n + 1))
  BY <1>1, Stand_After
<1> QED BY <1>1, <1>2, <1>4, <1>5, <1>6 DEF n

-----------------------------------------------------------------------------
(* Locators.                                                               *)

LEMMA Locator_Equal ==
    ASSUME NEW l \in Locator, NEW m \in Locator,
           l.at = m.at, l.num = m.num, l.bis = m.bis, l.path = m.path
    PROVE  l = m
  BY DEF Locator

LEMMA Under_Is ==
    ASSUME NEW l \in Locator, NEW path \in Seq(Nat)
    PROVE  /\ Under(l, path) \in Locator
           /\ Under(l, path).at = l.at /\ Under(l, path).num = l.num
           /\ Under(l, path).bis = l.bis /\ Under(l, path).path = path
  BY DEF Under, Locator

LEMMA Under_Under ==
    ASSUME NEW l \in Locator, NEW path \in Seq(Nat), NEW other \in Seq(Nat)
    PROVE  Under(Under(l, path), other) = Under(l, other) /\ Under(l, l.path) = l
<1>1. l.path \in Seq(Nat)
  BY DEF Locator
<1>2. Under(Under(l, path), other) = Under(l, other)
  <2> DEFINE m == Under(l, path)
  <2>1. m \in Locator /\ m.at = l.at /\ m.num = l.num /\ m.bis = l.bis
    BY Under_Is
  <2> HIDE DEF m
  <2>2. /\ Under(m, other) \in Locator /\ Under(m, other).path = other
        /\ Under(m, other).at = l.at /\ Under(m, other).num = l.num
        /\ Under(m, other).bis = l.bis
    BY <2>1, Under_Is
  <2>3. /\ Under(l, other) \in Locator /\ Under(l, other).path = other
        /\ Under(l, other).at = l.at /\ Under(l, other).num = l.num
        /\ Under(l, other).bis = l.bis
    BY Under_Is
  <2>4. Under(m, other) = Under(l, other)
    BY <2>2, <2>3, Locator_Equal
  <2> QED BY <2>4 DEF m
<1>3. Under(l, l.path) = l
  BY <1>1, Under_Is, Locator_Equal
<1> QED BY <1>2, <1>3

LEMMA Below_Under ==
    ASSUME NEW tree, Grown(tree), NEW p \in DOMAIN tree, NEW n \in Nat
    PROVE  LET path == tree[p].locator.path IN
           /\ path \in Seq(Nat) /\ Append(path, n) \in Seq(Nat)
           /\ Below(tree, p, n) = Under(tree[p].locator, Append(path, n))
<1>1. tree[p].locator \in Locator
  BY Grown_Locator
<1>2. tree[p].locator.path \in Seq(Nat)
  BY <1>1 DEF Locator
<1> QED BY <1>2 DEF Below, Under

LEMMA Append_Same ==
    ASSUME NEW s \in Seq(Nat), NEW t \in Seq(Nat), NEW n \in Nat, NEW m \in Nat,
           Append(s, n) = Append(t, m)
    PROVE  s = t /\ n = m
<1>1. Len(s) = Len(t) /\ n = m
  OBVIOUS
<1>2. \A i \in 1..Len(s) : s[i] = Append(s, n)[i] /\ t[i] = Append(t, m)[i]
  <2>1. \A i \in 1..Len(s) : s[i] = Append(s, n)[i]
    BY AppendProperties
  <2>2. \A i \in 1..Len(t) : t[i] = Append(t, m)[i]
    BY AppendProperties
  <2> QED BY <1>1, <2>1, <2>2
<1>3. \A i \in 1..Len(s) : s[i] = t[i]
  BY <1>2
<1> QED BY <1>1, <1>3, SeqEqual

\* A locator says what it is below, and by which number.
LEMMA Below_Same ==
    ASSUME NEW tree, Grown(tree), NEW p \in DOMAIN tree, NEW q \in DOMAIN tree,
           NEW n \in Nat, NEW m \in Nat, Below(tree, p, n) = Below(tree, q, m)
    PROVE  tree[p].locator = tree[q].locator /\ n = m
<1> DEFINE a == tree[p].locator
           b == tree[q].locator
<1>1. a \in Locator /\ b \in Locator
  BY Grown_Locator
<1>2. /\ a.path \in Seq(Nat) /\ b.path \in Seq(Nat)
      /\ Append(a.path, n) \in Seq(Nat) /\ Append(b.path, m) \in Seq(Nat)
      /\ Under(a, Append(a.path, n)) = Under(b, Append(b.path, m))
  BY Below_Under
<1> DEFINE s == Append(a.path, n)
           t == Append(b.path, m)
<1> HIDE DEF a, b
<1>3. /\ a.at = b.at /\ a.num = b.num /\ a.bis = b.bis
      /\ s = t
  <2>1. s \in Seq(Nat) /\ t \in Seq(Nat) /\ Under(a, s) = Under(b, t)
    BY <1>2
  <2> HIDE DEF s, t
  <2>2. /\ Under(a, s).at = a.at /\ Under(a, s).num = a.num
        /\ Under(a, s).bis = a.bis /\ Under(a, s).path = s
    BY <1>1, <2>1, Under_Is
  <2>3. /\ Under(b, t).at = b.at /\ Under(b, t).num = b.num
        /\ Under(b, t).bis = b.bis /\ Under(b, t).path = t
    BY <1>1, <2>1, Under_Is
  <2> DEFINE u == Under(a, s)
             v == Under(b, t)
  <2>4. u = v
    BY <2>1
  <2> QED BY <2>2, <2>3, <2>4
<1>4. a.path = b.path /\ n = m
  <2>1. a.path \in Seq(Nat) /\ b.path \in Seq(Nat) /\ Append(a.path, n) = Append(b.path, m)
    BY <1>2, <1>3
  <2> DEFINE x == a.path
             y == b.path
  <2> HIDE DEF x, y
  <2>2. x \in Seq(Nat) /\ y \in Seq(Nat) /\ Append(x, n) = Append(y, m)
    BY <2>1 DEF x, y
  <2>3. x = y /\ n = m
    BY <2>2, Append_Same
  <2> QED BY <2>3 DEF x, y
<1> QED BY <1>1, <1>3, <1>4, Locator_Equal DEF a, b

-----------------------------------------------------------------------------
(* Where the reader stands nowhere.                                        *)

\* In a provision, or nowhere.
StandsIn(at) == at \in Locator /\ at.at = "art"

LEMMA After_Is ==
    ASSUME NEW l \in Line, NEW before, before = Nowhere \/ StandsIn(before),
           NEW headings, NEW listings
    PROVE  LET after == After(l, before, headings, listings) IN
           /\ l.kind \in {"chapter", "annex"} => after = Nowhere
           /\ IsHeading(l) => StandsIn(after)
           /\ l.kind \notin {"chapter", "annex"} /\ ~IsHeading(l) =>
                IF before = Nowhere THEN after = Nowhere ELSE StandsIn(after)
<1> DEFINE after == After(l, before, headings, listings)
           art == IF Loc("art", l.num, l.bis) \in headings THEN Loc("art", l.num, l.bis)
                  ELSE Under(before, <<>>)
<1>1. l.num \in Seq(Nat) /\ l.bis \in Nat /\ l.path \in Seq(Nat) /\ <<>> \in Seq(Nat)
  BY DEF Line
<1>2. ASSUME NEW at, StandsIn(at), NEW path \in Seq(Nat) PROVE StandsIn(Under(at, path))
  BY <1>2, Under_Is DEF StandsIn
<1>3. StandsIn(ArticleNumber(l)) /\ StandsIn(Loc("art", l.num, l.bis))
  BY <1>1 DEF StandsIn, ArticleNumber, Loc, Locator
<1>4. CASE l.kind \in {"chapter", "annex"}
  BY <1>4 DEF After, IsHeading
<1>5. CASE IsHeading(l)
  BY <1>3, <1>5 DEF After, IsHeading
<1>6. CASE l.kind = "simple"
  <2>1. after = IF before # Nowhere THEN Under(before, l.num) ELSE before
    BY <1>6 DEF After, IsHeading
  <2> HIDE DEF after
  <2> QED BY <1>1, <1>2, <1>6, <2>1 DEF after, IsHeading
<1>7. CASE l.kind = "qualified"
  <2>1. before # Nowhere => StandsIn(art)
    BY <1>1, <1>2, <1>3
  <2>2. after = IF before = Nowhere THEN before
                ELSE IF Len(l.path) = 1 /\ Under(art, l.num) \in listings
                THEN Under(art, l.num \o l.path)
                ELSE Under(art, IF Len(l.path) = 3 THEN SubSeq(l.path, 1, 2) ELSE l.path)
    BY <1>7, Zenon DEF After, IsHeading
  <2>3. /\ l.num \o l.path \in Seq(Nat)
        /\ Len(l.path) = 3 => SubSeq(l.path, 1, 2) \in Seq(Nat)
    <3> DEFINE p == l.path
               u == l.num
    <3> HIDE DEF p, u
    <3>1. p \in Seq(Nat) /\ u \in Seq(Nat)
      BY <1>1 DEF p, u
    <3>2. u \o p \in Seq(Nat) /\ (Len(p) = 3 => SubSeq(p, 1, 2) \in Seq(Nat))
      BY <3>1
    <3> QED BY <3>2 DEF p, u
  <2> HIDE DEF after, art
  <2>4. before = Nowhere \/ StandsIn(after)
    BY <1>1, <1>2, <2>1, <2>2, <2>3
  <2> QED BY <1>7, <2>2, <2>4 DEF after, IsHeading
<1>8. CASE l.kind \notin {"chapter", "annex", "simple", "qualified"} /\ ~IsHeading(l)
  <2>1. after = before
    BY <1>8 DEF After
  <2> HIDE DEF after
  <2> QED BY <1>8, <2>1 DEF after
<1> QED BY <1>4, <1>5, <1>6, <1>7, <1>8

\* The reader stands in a provision exactly while an article is open.
LEMMA Standing_Is ==
    ASSUME read \in Seq(Line)
    PROVE  \A i \in 0..Len(read) :
               IF InArticle(i) THEN StandsIn(Standing[i]) ELSE Standing[i] = Nowhere
<1> DEFINE Right(i) == IF InArticle(i) THEN StandsIn(Standing[i]) ELSE Standing[i] = Nowhere
           Bad == {i \in 0..Len(read) : ~Right(i)}
<1>1. Len(read) \in Nat
  OBVIOUS
<1>2. \A i \in 0..Len(read) : Standing[i] = Stand(read, Standing, i)
  <2>1. Follows(Standing, read, Len(read))
    BY <1>1, Reading_Is, Standing_Reading
  <2> QED BY <2>1, Zenon DEF Follows
<1>3. Right(0)
  <2>1. Standing[0] = Nowhere
    <3>1. 0 \in 0..Len(read)
      BY <1>1
    <3> QED BY <1>2, <3>1, Zenon DEF Stand
  <2>2. ~InArticle(0)
    BY DEF InArticle
  <2> QED BY <2>1, <2>2
<1>4. ASSUME NEW i \in 1..Len(read), Right(i - 1) PROVE Right(i)
  <2> DEFINE l == read[i]
  <2>1. /\ i \in 0..Len(read) /\ i # 0 /\ l \in Line /\ i \in Nat
        /\ 1..i = 1..(i - 1) \cup {i} /\ i \notin 1..(i - 1)
    BY <1>1
  <2>2. Standing[i] = After(l, Standing[i - 1], HeadingsBefore(read, i), ListingsBefore(read, Standing, i))
    BY <1>2, <2>1, Stand_After
  <2>3. Standing[i - 1] = Nowhere \/ StandsIn(Standing[i - 1])
    BY <1>4
  <2>4. /\ l.kind \in {"chapter", "annex"} => ~InArticle(i)
        /\ IsHeading(l) => InArticle(i)
        /\ l.kind \notin {"chapter", "annex"} /\ ~IsHeading(l) => (InArticle(i) <=> InArticle(i - 1))
    <3>1. ASSUME NEW h \in 1..(i - 1) PROVE h..i = h..(i - 1) \cup {i}
      BY <2>1
    <3>2. ASSUME NEW h \in 1..i PROVE i \in h..i
      BY <2>1
    <3>3. i..i = {i}
      BY <2>1
    <3>4. l.kind \in {"chapter", "annex"} => ~InArticle(i)
      BY <3>2 DEF InArticle
    <3>5. IsHeading(l) => InArticle(i)
      BY <2>1, <3>3 DEF InArticle, IsHeading
    <3>6. ASSUME l.kind \notin {"chapter", "annex"}, ~IsHeading(l)
          PROVE  InArticle(i) <=> InArticle(i - 1)
      <4>1. InArticle(i) <=> \E h \in 1..(i - 1) :
                                /\ IsHeading(read[h])
                                /\ \A j \in h..i : read[j].kind \notin {"chapter", "annex"}
        BY <2>1, <3>6 DEF InArticle
      <4>2. \A h \in 1..(i - 1) :
                (\A j \in h..i : read[j].kind \notin {"chapter", "annex"})
                  <=> \A j \in h..(i - 1) : read[j].kind \notin {"chapter", "annex"}
        BY <3>1, <3>6
      <4>3. InArticle(i - 1) <=> \E h \in 1..(i - 1) :
                                /\ IsHeading(read[h])
                                /\ \A j \in h..(i - 1) : read[j].kind \notin {"chapter", "annex"}
        BY DEF InArticle
      <4> QED BY <4>1, <4>2, <4>3
    <3> QED BY <3>4, <3>5, <3>6
  <2> HIDE DEF l
  <2>5. /\ l.kind \in {"chapter", "annex"} => Standing[i] = Nowhere
        /\ IsHeading(l) => StandsIn(Standing[i])
        /\ l.kind \notin {"chapter", "annex"} /\ ~IsHeading(l) =>
             IF Standing[i - 1] = Nowhere THEN Standing[i] = Nowhere ELSE StandsIn(Standing[i])
    BY <2>1, <2>2, <2>3, After_Is
  <2>6. ~StandsIn(Nowhere)
    BY DEF StandsIn, Nowhere, Loc
  <2> QED BY <1>4, <2>4, <2>5, <2>6
<1>5. Bad = {}
  <2> HIDE DEF Right
  <2> SUFFICES ASSUME Bad # {} PROVE FALSE
    OBVIOUS
  <2>1. Bad \in SUBSET (Nat \ {0})
    BY <1>3
  <2>2. PICK i \in Bad : \A j \in Bad : i <= j
    <3> HIDE DEF Bad
    <3> QED BY <2>1, First_Least
  <2>3. i \in 1..Len(read) /\ i - 1 \in 0..Len(read) /\ i - 1 \notin Bad
    BY <1>1, <2>1, <2>2
  <2> QED BY <1>4, <2>2, <2>3
<1> QED BY <1>5

\* A line has a place exactly if it opens a provision or an article is open.
LEMMA HasPlace_Is ==
    ASSUME read \in Seq(Line), NEW i \in DOMAIN read
    PROVE  /\ HasPlace(i) <=> Place(i) # Nowhere
           /\ HasPlace(i) => TypeOf(Place(i)) # "DOCUMENT"
<1>1. i \in 0..Len(read) /\ read[i] \in Line
  OBVIOUS
<1>2. IF InArticle(i) THEN StandsIn(Standing[i]) ELSE Standing[i] = Nowhere
  BY <1>1, Standing_Is
<1>3. Nowhere.at = "doc"
  BY DEF Nowhere, Loc
<1>0. ASSUME NEW l, l.at \in {"ch", "annex", "art"} PROVE TypeOf(l) # "DOCUMENT"
  BY <1>0 DEF TypeOf
<1>4. CASE read[i].kind \in {"chapter", "annex"}
  <2>1. Place(i).at \in {"ch", "annex"}
    BY <1>4 DEF Place, ChapterNumber, Loc
  <2> QED BY <1>0, <1>3, <1>4, <2>1 DEF HasPlace
<1>5. CASE read[i].kind \notin {"chapter", "annex"}
  <2>1. HasPlace(i) <=> InArticle(i)
    BY <1>5 DEF HasPlace
  <2>2. IsSubClause(i) => InArticle(i)
    <3> SUFFICES ASSUME IsSubClause(i) PROVE InArticle(i)
      OBVIOUS
    <3>1. i - 1 \in 0..Len(read) /\ i \in Nat /\ read[i].kind = "qualified"
          /\ Standing[i - 1] # Nowhere
      BY DEF IsSubClause
    <3>2. InArticle(i - 1)
      BY <3>1, Standing_Is
    <3>3. PICK h \in 1..(i - 1) : /\ IsHeading(read[h])
                                  /\ \A j \in h..(i - 1) : read[j].kind \notin {"chapter", "annex"}
      BY <3>2 DEF InArticle
    <3>4. h \in 1..i /\ h..i = h..(i - 1) \cup {i}
      BY <3>1
    <3> QED BY <1>5, <3>3, <3>4 DEF InArticle
  <2>3. ASSUME InArticle(i), IsSubClause(i) PROVE Place(i).at = "art"
    <3>1. Place(i) = Under(Standing[i], read[i].path) /\ read[i].path \in Seq(Nat)
      BY <1>1, <1>5, <2>3 DEF Place, Under, Line
    <3> QED BY <1>2, <1>3, <2>3, <3>1, Under_Is DEF StandsIn
  <2>4. ~IsSubClause(i) => Place(i) = Standing[i]
    BY <1>5 DEF Place
  <2>5. /\ InArticle(i) => Place(i).at = "art"
        /\ ~InArticle(i) => Place(i) = Nowhere
    BY <1>2, <2>2, <2>3, <2>4 DEF StandsIn
  <2> QED BY <1>0, <1>3, <2>1, <2>5
<1> QED BY <1>4, <1>5

-----------------------------------------------------------------------------
(* Trees without two nodes of one locator.                                 *)

LEMMA Clash_Is ==
    ASSUME NEW tree, Grown(tree)
    PROVE  Clash(tree) <=> \E i, k \in DOMAIN tree : i # k /\ tree[i].locator = tree[k].locator
<1>1. DOMAIN tree = 1..Len(tree) /\ Len(tree) \in Nat
  BY DEF Grown
<1>2. ASSUME NEW i \in DOMAIN tree, NEW k \in DOMAIN tree, i # k,
             tree[i].locator = tree[k].locator
      PROVE  Clash(tree)
  <2>1. i \in 1..(k - 1) \/ k \in 1..(i - 1)
    BY <1>1, <1>2
  <2> QED BY <1>2, <2>1 DEF Clash
<1>3. ASSUME Clash(tree)
      PROVE  \E i, k \in DOMAIN tree : i # k /\ tree[i].locator = tree[k].locator
  <2>1. PICK k \in DOMAIN tree : \E i \in 1..(k - 1) : tree[i].locator = tree[k].locator
    BY <1>3 DEF Clash
  <2>2. PICK i \in 1..(k - 1) : tree[i].locator = tree[k].locator
    BY <2>1
  <2>3. i \in DOMAIN tree /\ i # k
    BY <1>1, <2>1
  <2> QED BY <2>1, <2>2, <2>3
<1> QED BY <1>2, <1>3

\* later has the nodes of tree and perhaps more, and words are added to the
\* text of one node, at.
Filled(tree, later, at, words) ==
    /\ DOMAIN tree \subseteq DOMAIN later
    /\ \A k \in DOMAIN tree : /\ later[k].locator = tree[k].locator
                              /\ later[k].parent = tree[k].parent
                              /\ later[k].text = IF k = at THEN tree[k].text \cup words
                                                 ELSE tree[k].text
    /\ \A k \in DOMAIN later \ DOMAIN tree : later[k].text = IF k = at THEN words ELSE {}

\* later has one node more, at.
Added(tree, later, at, parent, locator, text) ==
    /\ Filled(tree, later, at, text)
    /\ at \notin DOMAIN tree /\ DOMAIN later = DOMAIN tree \cup {at}
    /\ later[at].locator = locator /\ later[at].parent = parent

LEMMA MakeNode_Filled ==
    ASSUME NEW tree, Grown(tree), NEW parent, NEW locator, NEW text
    PROVE  Added(tree, MakeNode(tree, parent, locator, text), Len(tree) + 1,
                 parent, locator, text)
<1> DEFINE node == [parent |-> parent, locator |-> locator, text |-> text]
           later == Append(tree, node)
           at == Len(tree) + 1
<1>1. tree \in Seq(Node) /\ Len(tree) \in Nat /\ DOMAIN tree = 1..Len(tree)
  BY DEF Grown
<1>2. /\ DOMAIN later = DOMAIN tree \cup {at} /\ at \notin DOMAIN tree
      /\ \A k \in DOMAIN tree : later[k] = tree[k]
      /\ later[at] = node
  <2> HIDE DEF node
  <2> QED BY <1>1
<1>3. node.parent = parent /\ node.locator = locator /\ node.text = text
  OBVIOUS
<1> HIDE DEF later, node, at
<1>4. Filled(tree, later, at, text)
  BY <1>2, <1>3 DEF Filled
<1>5. Added(tree, later, at, parent, locator, text)
  BY <1>2, <1>3, <1>4 DEF Added
<1> QED BY <1>5 DEF later, node, at, MakeNode

LEMMA AppendText_Filled ==
    ASSUME NEW tree, Grown(tree), NEW at \in DOMAIN tree, NEW l
    PROVE  LET later == AppendText(tree, at, l) IN
           /\ Filled(tree, later, at, NewWords(tree[at].text, l))
           /\ DOMAIN later = DOMAIN tree
<1> DEFINE later == AppendText(tree, at, l)
           words == NewWords(tree[at].text, l)
<1>1. \A k \in DOMAIN tree : tree[k] \in Node
  BY Grown_Locator
<1>2. DOMAIN later = DOMAIN tree
  BY DEF AppendText
<1>3. \A k \in DOMAIN tree : k # at => later[k] = tree[k]
  BY DEF AppendText
<1>4. later[at] = [tree[at] EXCEPT !.text = @ \cup words]
  BY DEF AppendText
<1> HIDE DEF words
<1>5. /\ later[at].locator = tree[at].locator /\ later[at].parent = tree[at].parent
      /\ later[at].text = tree[at].text \cup words
  BY <1>1, <1>4 DEF Node
<1> HIDE DEF later
<1> QED BY <1>2, <1>3, <1>5 DEF Filled, later, words

LEMMA Filled_Then ==
    ASSUME NEW tree, NEW mid, NEW later, NEW at, NEW words,
           None \notin DOMAIN mid,
           Filled(tree, mid, None, {}), Filled(mid, later, at, words)
    PROVE  Filled(tree, later, at, words)
<1>1. DOMAIN tree \subseteq DOMAIN later
  BY DEF Filled
<1>2. ASSUME NEW k \in DOMAIN tree
      PROVE  /\ later[k].locator = tree[k].locator /\ later[k].parent = tree[k].parent
             /\ later[k].text = IF k = at THEN tree[k].text \cup words ELSE tree[k].text
  BY <1>2 DEF Filled
<1>3. ASSUME NEW k \in DOMAIN later \ DOMAIN tree
      PROVE  later[k].text = IF k = at THEN words ELSE {}
  <2>1. CASE k \in DOMAIN mid
    <3>1. mid[k].text = {}
      BY <1>3, <2>1 DEF Filled
    <3> QED BY <2>1, <3>1 DEF Filled
  <2>2. CASE k \notin DOMAIN mid
    BY <1>3, <2>2 DEF Filled
  <2> QED BY <2>1, <2>2
<1> QED BY <1>1, <1>2, <1>3 DEF Filled

\* The node k is spelled.
SpelledAt(tree, k) ==
    TypeOf(tree[k].locator) \in {"PARAGRAPH", "CLAUSE", "SUB_CLAUSE"} =>
        LET path == tree[k].locator.path IN
        tree[k].locator = Below(tree, tree[k].parent, path[Len(path)])

LEMMA Spelled_Is ==
    ASSUME NEW tree
    PROVE  Spelled(tree) <=> \A k \in DOMAIN tree \ {Root} : SpelledAt(tree, k)
  BY Zenon DEF Spelled, SpelledAt

LEMMA Spelled_Later ==
    ASSUME NEW tree, NEW later, NEW at, NEW words,
           Grown(tree), Spelled(tree), Grown(later), Filled(tree, later, at, words),
           \A k \in DOMAIN later \ DOMAIN tree : SpelledAt(later, k)
    PROVE  Spelled(later)
<1> SUFFICES ASSUME NEW k \in DOMAIN tree \ {Root}
             PROVE  SpelledAt(later, k)
  BY Spelled_Is
<1>1. SpelledAt(tree, k)
  BY Spelled_Is
<1>2. later[k].locator = tree[k].locator /\ later[k].parent = tree[k].parent
  BY DEF Filled
<1>3. tree[k].parent \in DOMAIN tree
  BY DEF Grown
<1>4. later[tree[k].parent].locator = tree[tree[k].parent].locator
  BY <1>3 DEF Filled
<1> QED BY <1>1, <1>2, <1>4 DEF SpelledAt, Below

\* A node that is named anew does not make a clash.
LEMMA New_NoClash ==
    ASSUME NEW tree, NEW later, NEW at, Grown(tree), Grown(later), ~Clash(tree),
           Extends(later, tree), DOMAIN later = DOMAIN tree \cup {at},
           \A k \in DOMAIN tree : tree[k].locator # later[at].locator
    PROVE  ~Clash(later)
<1> SUFFICES ASSUME NEW i \in DOMAIN later, NEW k \in DOMAIN later, i # k,
                    later[i].locator = later[k].locator
             PROVE  FALSE
  BY Clash_Is
<1>1. CASE i \in DOMAIN tree /\ k \in DOMAIN tree
  BY <1>1, Clash_Is DEF Extends
<1>2. CASE ~(i \in DOMAIN tree /\ k \in DOMAIN tree)
  BY <1>2 DEF Extends
<1> QED BY <1>1, <1>2

LEMMA Filled_Extends ==
    ASSUME NEW tree, NEW later, NEW at, NEW words, Filled(tree, later, at, words)
    PROVE  Extends(later, tree)
  BY DEF Filled, Extends

\* The node made below a provision is spelled.
LEMMA Below_Spelled ==
    ASSUME NEW tree, Grown(tree), Spelled(tree), NEW p \in DOMAIN tree, NEW n \in Nat,
           NEW text,
           Grown(MakeNode(tree, p, Below(tree, p, n), text))
    PROVE  Spelled(MakeNode(tree, p, Below(tree, p, n), text))
<1> DEFINE l     == Below(tree, p, n)
           later == MakeNode(tree, p, l, text)
           at    == Len(tree) + 1
           path  == tree[p].locator.path
<1>1. /\ path \in Seq(Nat) /\ l = Under(tree[p].locator, Append(path, n))
      /\ tree[p].locator \in Locator
  BY Below_Under, Grown_Locator
<1>2. l.path = Append(path, n)
  <2> DEFINE longer == Append(path, n)
  <2> HIDE DEF path, l
  <2>1. longer \in Seq(Nat) /\ l = Under(tree[p].locator, longer)
    BY <1>1
  <2> HIDE DEF longer
  <2>2. l.path = longer
    BY <1>1, <2>1, Under_Is
  <2> QED BY <2>2 DEF longer
<1>3. l.path[Len(l.path)] = n
  <2> HIDE DEF path, l
  <2> QED BY <1>1, <1>2
<1>4. /\ Filled(tree, later, at, text) /\ DOMAIN later = DOMAIN tree \cup {at}
      /\ later[at].locator = l /\ later[at].parent = p
  <2>1. Added(tree, later, at, p, l, text)
    BY MakeNode_Filled
  <2> HIDE DEF l, later, at
  <2> QED BY <2>1 DEF Added
<1>5. Below(later, p, n) = l
  <2>1. later[p].locator = tree[p].locator
    BY <1>4 DEF Filled
  <2> HIDE DEF later
  <2> QED BY <2>1 DEF Below
<1> HIDE DEF l, later, at
<1>6. SpelledAt(later, at)
  BY <1>3, <1>4, <1>5 DEF SpelledAt
<1>7. Spelled(later)
  BY <1>4, <1>6, Spelled_Later DEF later, l
<1> QED BY <1>7 DEF later, l

\* ensureParagraph, ensureClause: as no locator is there twice, the child is
\* the node of its locator, wherever that was made.
LEMMA Ensure_Fills ==
    ASSUME NEW tree, Grown(tree), Spelled(tree), ~Clash(tree),
           NEW p \in DOMAIN tree, NEW n \in Nat,
           TypeOf(tree[p].locator) \in {"ARTICLE", "PARAGRAPH"}
    PROVE  LET later == Ensure(tree, p, n)
               at    == Child(later, p, Below(later, p, n)) IN
           /\ Filled(tree, later, None, {}) /\ Spelled(later) /\ ~Clash(later)
           /\ at \in DOMAIN later /\ DOMAIN later \subseteq DOMAIN tree \cup {at}
           /\ later[at].locator = Below(tree, p, n) /\ later[at].parent = p
<1> DEFINE l     == Below(tree, p, n)
           later == Ensure(tree, p, n)
           at    == Child(later, p, Below(later, p, n))
<1>1. /\ l \in Locator /\ Grown(later) /\ Extends(later, tree)
      /\ at \in DOMAIN later
      /\ TypeOf(l) \in {"PARAGRAPH", "CLAUSE"}
  BY Ensure_Grown, Below_Type
<1>2. Below(later, p, n) = l
  BY <1>1 DEF Extends, Below
<1>3. None \notin DOMAIN later /\ at # None
  BY <1>1, Grown_Locator DEF None
<1>4. later[at].locator = l /\ later[at].parent = p
  <2> HIDE DEF later, l
  <2>1. at = Child(later, p, l)
    BY <1>2
  <2> HIDE DEF at
  <2> QED BY <1>1, <1>3, <2>1, Child_Is
<1>5. CASE Child(tree, p, l) # None
  <2>1. later = tree
    BY <1>5 DEF Ensure
  <2>2. Filled(tree, tree, None, {})
    BY DEF Filled
  <2> HIDE DEF later, l, at
  <2> QED BY <1>1, <1>4, <2>1, <2>2 DEF later, l, at
<1>6. CASE Child(tree, p, l) = None
  <2> DEFINE new == Len(tree) + 1
  <2>1. later = MakeNode(tree, p, l, {})
    BY <1>6 DEF Ensure
  <2>2. /\ Filled(tree, later, new, {}) /\ new \notin DOMAIN tree
        /\ DOMAIN later = DOMAIN tree \cup {new} /\ later[new].locator = l
    <3>1. Added(tree, later, new, p, l, {})
      BY <2>1, MakeNode_Filled
    <3> HIDE DEF l, later, new
    <3> QED BY <3>1 DEF Added
  <2>3. Spelled(later)
    BY <1>1, <2>1, Below_Spelled
  <2> HIDE DEF later, l, at, new
  <2>4. \A k \in DOMAIN tree : tree[k].locator # l
    <3> SUFFICES ASSUME NEW k \in DOMAIN tree, tree[k].locator = l PROVE FALSE
      OBVIOUS
    <3> DEFINE m == l.path[Len(l.path)]
    <3>1. k # Root
      BY <1>1 DEF Grown
    <3>2. l = Below(tree, tree[k].parent, m)
      BY <1>1, <3>1, Spelled_Is DEF SpelledAt
    <3>3. m \in Nat
      <4>1. l.path \in Seq(Nat) /\ Len(l.path) # 0
        BY <1>1 DEF Locator, TypeOf
      <4> QED BY <4>1
    <3>4. tree[k].parent \in DOMAIN tree
      BY <3>1 DEF Grown
    <3> HIDE DEF m
    <3>5. tree[tree[k].parent].locator = tree[p].locator
      BY <3>2, <3>3, <3>4, Below_Same DEF l
    <3>6. tree[k].parent = p
      BY <3>4, <3>5, Clash_Is
    <3> QED BY <1>6, <3>6, Child_Is
  <2>5. ~Clash(later)
    BY <1>1, <2>2, <2>4, New_NoClash
  <2>6. at = new
    <3>1. at \notin DOMAIN tree
      BY <1>1, <1>4, <2>4 DEF Extends
    <3> QED BY <1>1, <2>2, <3>1
  <2>7. Filled(tree, later, None, {})
    BY <2>2 DEF Filled
  <2> QED BY <1>1, <1>4, <2>2, <2>3, <2>5, <2>6, <2>7 DEF later, l, at
<1> QED BY <1>5, <1>6

-----------------------------------------------------------------------------
(* The next line.                                                          *)

\* Lines that are always nodes of their own.
LEMMA NamedTwice_Is ==
    NamedTwice <=> \E i, j \in DOMAIN read :
                       i < j /\ Names(i) /\ Names(j) /\ Place(i) = Place(j)
  BY DEF NamedTwice, Names

\* Where the words of the next line will be.
NextPlace(l) ==
    LET after == After(l, Standing[Len(read)], Headings, Listings) IN
    IF l.kind = "chapter" THEN ChapterNumber(l)
    ELSE IF l.kind = "annex"
         THEN Loc("annex", <<Cardinality(TopLines(Len(read))) + 1>>, 0)
    ELSE IF l.kind = "qualified" /\ Len(l.path) = 3 /\ Standing[Len(read)] # Nowhere
         THEN Under(after, l.path)
    ELSE after

NextNames(l) ==
    \/ l.kind \in {"article", "word", "chapter", "annex"}
    \/ l.kind = "qualified" /\ Len(l.path) = 3 /\ Standing[Len(read)] # Nowhere

NextTop(l) ==
    \/ l.kind = "chapter"
    \/ /\ l.kind \in {"article", "word", "annex"}
       /\ \A h \in DOMAIN read : read[h].kind # "chapter"

LEMMA Lines_Later ==
    ASSUME read \in Seq(Line), NEW l \in Line, Reads(l)
    PROVE  /\ DOMAIN read = 1..Len(read) /\ Len(read) \in Nat
           /\ DOMAIN read' = DOMAIN read \cup {Len(read) + 1}
           /\ \A i \in DOMAIN read : read'[i] = read[i]
           /\ read'[Len(read) + 1] = l
  BY DEF Reads

\* The text of the lines of this set before line i has the words of line i.
Said_Before(lines, i, S) ==
    LET T == {h \in S : h < i} IN
    T # {} /\ Includes([h \in T |-> lines[h].says], lines[i].says)

LEMMA Said_Before_Is ==
    ASSUME NEW lines, NEW i, NEW S, NEW T, {h \in S : h < i} = {h \in T : h < i},
           \A h \in T : lines[h] = read[h], lines[i] = read[i]
    PROVE  Said_Before(lines, i, S) <=> SaidBefore(i, T)
<1> DEFINE V == {h \in T : h < i}
<1>1. [h \in V |-> lines[h].says] = [h \in V |-> read[h].says]
  OBVIOUS
<1>2. Said_Before(lines, i, S) <=> V # {} /\ Includes([h \in V |-> lines[h].says], lines[i].says)
  BY DEF Said_Before
<1>3. SaidBefore(i, T) <=> V # {} /\ Includes([h \in V |-> read[h].says], read[i].says)
  BY DEF SaidBefore, Repeats, Written
<1> QED BY <1>1, <1>2, <1>3

\* A line that is added last comes before none.
LEMMA Earlier_Is ==
    ASSUME NEW n \in Nat, NEW S \in SUBSET (1..n), NEW T \in SUBSET {n + 1}
    PROVE  /\ \A i \in 1..n : {h \in S \cup T : h < i} = {h \in S : h < i}
           /\ {h \in S \cup T : h < n + 1} = S
<1>1. \A h \in S : h < n + 1
  OBVIOUS
<1>2. \A h \in T : ~(h < n + 1) /\ \A i \in 1..n : ~(h < i)
  OBVIOUS
<1> QED BY <1>1, <1>2

\* What lines are and where they are depends on the lines before.
LEMMA Places_Later ==
    ASSUME read \in Seq(Line), NEW l \in Line, Reads(l), NEW i \in DOMAIN read
    PROVE  /\ Says(i)' <=> Says(i)
           /\ Names(i)' <=> Names(i)
           /\ Place(i)' = Place(i)
<1>1. i \in 1..Len(read) /\ Len(read) \in Nat /\ i \in 0..Len(read) /\ i - 1 \in 0..Len(read)
  OBVIOUS
<1>2. /\ read'[i] = read[i] /\ Standing'[i] = Standing[i] /\ Standing'[i - 1] = Standing[i - 1]
      /\ \A j \in 1..(i - 1) : read'[j] = read[j]
  BY <1>1, Standing_Later
<1>3. IsSubClause(i)' <=> IsSubClause(i)
  BY <1>2 DEF IsSubClause
<1>4. TopLines(i - 1)' = TopLines(i - 1)
  <2>1. \A j \in 1..(i - 1) : (\A h \in 1..j : read'[h].kind # "chapter")
                                <=> (\A h \in 1..j : read[h].kind # "chapter")
    <3>1. \A j \in 1..(i - 1) : 1..j \subseteq 1..(i - 1)
      BY <1>1
    <3> QED BY <1>2, <3>1
  <2> QED BY <1>2, <2>1 DEF TopLines, IsHeading
<1> QED BY <1>2, <1>3, <1>4 DEF Says, Names, Place

LEMMA TopLines_Later ==
    ASSUME read \in Seq(Line), NEW l \in Line, Reads(l), NEW n, n = Len(read)
    PROVE  /\ TopLines(n)' = TopLines(n)
           /\ TopLines(n + 1)' = TopLines(n) \cup (IF NextTop(l) THEN {n + 1} ELSE {})
           /\ TopLines(n) \subseteq 1..n
<1>1. /\ n \in Nat /\ DOMAIN read = 1..n /\ read'[n + 1] = l
      /\ \A j \in 1..n : read'[j] = read[j]
      /\ \A j \in 1..n : 1..j \subseteq 1..n
      /\ 1..(n + 1) = 1..n \cup {n + 1}
  BY Lines_Later
<1>2. \A j \in 1..n : (\A h \in 1..j : read'[h].kind # "chapter")
                        <=> (\A h \in 1..j : read[h].kind # "chapter")
  BY <1>1
<1>3. \A j \in 1..n : j \in TopLines(n + 1)' <=> j \in TopLines(n)
  BY <1>1, <1>2 DEF TopLines, IsHeading
<1>4. n + 1 \in TopLines(n + 1)' <=> NextTop(l)
  <2>1. (\A h \in 1..(n + 1) : read'[h].kind # "chapter")
           <=> /\ l.kind # "chapter"
               /\ \A h \in DOMAIN read : read[h].kind # "chapter"
    BY <1>1
  <2>2. n + 1 \in 1..(n + 1)
    BY <1>1
  <2>3. n + 1 \in TopLines(n + 1)'
          <=> \/ l.kind = "chapter"
              \/ /\ l.kind \in {"article", "word"} \/ l.kind = "annex"
                 /\ \A h \in 1..(n + 1) : read'[h].kind # "chapter"
    BY <1>1, <2>2 DEF TopLines, IsHeading
  <2> QED BY <2>1, <2>3 DEF NextTop
<1>5. TopLines(n)' = TopLines(n)
  BY <1>1, <1>2 DEF TopLines, IsHeading
<1>6. TopLines(n + 1)' \subseteq 1..(n + 1) /\ TopLines(n) \subseteq 1..n
  BY DEF TopLines
<1>7. TopLines(n + 1)' = TopLines(n) \cup (IF NextTop(l) THEN {n + 1} ELSE {})
  BY <1>1, <1>3, <1>4, <1>6
<1> QED BY <1>5, <1>6, <1>7

LEMMA Place_Next ==
    ASSUME read \in Seq(Line), NEW l \in Line, Reads(l), NEW n, n = Len(read)
    PROVE  /\ Says(n + 1)' <=> l.kind # "chrome" /\ ~l.blank
           /\ Names(n + 1)' <=> NextNames(l)
           /\ Place(n + 1)' = NextPlace(l)
<1>1. n \in Nat /\ (n + 1) - 1 = n /\ read'[n + 1] = l /\ n \in 0..n
  BY Lines_Later
<1>2. /\ Standing'[n] = Standing[n]
      /\ Standing'[n + 1] = After(l, Standing[n], Headings, Listings)
  BY <1>1, Standing_Later, Standing_After
<1>3. Cardinality(TopLines((n + 1) - 1)') = Cardinality(TopLines(n))
  <2>1. TopLines((n + 1) - 1)' = TopLines(n)
    BY <1>1, TopLines_Later
  <2> QED BY <2>1
<1>4. IsSubClause(n + 1)' <=> l.kind = "qualified" /\ Len(l.path) = 3 /\ Standing[n] # Nowhere
  BY <1>1, <1>2 DEF IsSubClause
<1>5. Says(n + 1)' <=> l.kind # "chrome" /\ ~l.blank
  BY <1>1 DEF Says
<1>6. Names(n + 1)' <=> NextNames(l)
  BY <1>1, <1>4 DEF Names, NextNames, IsHeading
<1>7. Place(n + 1)' = NextPlace(l)
  BY <1>1, <1>2, <1>3, <1>4 DEF Place, NextPlace, Under, ChapterNumber
<1> QED BY <1>5, <1>6, <1>7

-----------------------------------------------------------------------------
(* What reading a line does to the tree and to the current provisions.     *)

\* The words of the next line, and what is kept of them at this node.
Said(l) == IF l.kind = "chrome" THEN {} ELSE Words(l)

Held(at) == IF at \in DOMAIN nodes THEN nodes[at].text ELSE {}

Kept(l, at) == IF Repeats(Held(at), l.says) THEN {} ELSE Said(l)

\* What is kept goes to at, or to no node; a node that is made is either at, and
\* named by the line, or one of a kind that ensureParagraph makes.
GrowsTo(l, later, at) ==
    /\ Filled(nodes, later, at, Kept(l, at)) /\ Spelled(later)
    /\ at = None => /\ DOMAIN later = DOMAIN nodes /\ ~NextNames(l)
                    /\ \/ NextPlace(l) = Nowhere
                       \/ /\ Said(l) = {}
                          /\ \E k \in DOMAIN nodes : nodes[k].locator = NextPlace(l)
    /\ at # None => at \in DOMAIN later \ {Root} /\ later[at].locator = NextPlace(l)
    /\ NextNames(l) => /\ at \in DOMAIN later \ DOMAIN nodes
                       /\ TypeOf(NextPlace(l)) \in NameTypes
                       /\ TypeOf(NextPlace(l)) = "ARTICLE" <=> IsHeading(l)
    /\ \A k \in DOMAIN later \ DOMAIN nodes :
        /\ (k = at /\ NextNames(l)) \/ TypeOf(later[k].locator) \notin NameTypes
        /\ later[k].parent = Root <=> k = at /\ NextTop(l)
    /\ Clash(later) =>
        NextNames(l) /\ \E k \in DOMAIN nodes : nodes[k].locator = NextPlace(l)

Moves(l) ==
    /\ Hanging'
    /\ After(l, Standing[Len(read)], Headings, Listings)
         = IF article' = None THEN Nowhere ELSE nodes'[Here'].locator
    /\ simple' = simple \cup (IF l.kind = "simple" THEN {NextPlace(l)} \ {Nowhere} ELSE {})
    /\ chapter' = None <=> chapter = None /\ l.kind # "chapter"

ReadStep(l, at) == Reads(l) /\ GrowsTo(l, nodes', at) /\ Moves(l)

\* Only the root has the locator of the document.
LEMMA Nowhere_Root ==
    ASSUME NEW tree, Grown(tree), NEW k \in DOMAIN tree \ {Root}
    PROVE  tree[k].locator # Nowhere
<1>1. TypeOf(Nowhere) = "DOCUMENT"
  BY DEF Nowhere, Loc, TypeOf
<1>2. AllowedParents("DOCUMENT") = {}
  BY DEF AllowedParents
<1> QED BY <1>1, <1>2 DEF Grown

\* At a node that is made nothing is repeated.
LEMMA Kept_New ==
    ASSUME NEW l, NEW at, at \notin DOMAIN nodes
    PROVE  Kept(l, at) = Said(l)
  BY DEF Kept, Held, Repeats

LEMMA NameTypes_Root ==
    ASSUME NEW tree, Grown(tree), NEW k \in DOMAIN tree,
           TypeOf(tree[k].locator) \in NameTypes
    PROVE  k # Root
  BY DEF Grown, NameTypes

\* A clash comes with the line that names something again.
LEMMA Step_Clash ==
    ASSUME TreeInv, TreeInv', Placed, ~Clash(nodes), ~NamedTwice,
           NEW l \in Line, NEW at, ReadStep(l, at)
    PROVE  Clash(nodes') <=> NamedTwice'
<1> DEFINE later == nodes'
           x == NextPlace(l)
<1>0. PICK n : n = Len(read)
  OBVIOUS
<1>1. /\ read \in Seq(Line) /\ Grown(nodes) /\ Grown(later) /\ Reads(l)
  BY DEF TreeInv, ReadStep
<1>2. /\ n \in Nat /\ DOMAIN read = 1..n /\ DOMAIN read' = 1..n \cup {n + 1}
      /\ Names(n + 1)' <=> NextNames(l)
      /\ Place(n + 1)' = x
  BY <1>0, <1>1, Lines_Later, Place_Next
<1>3. \A i \in 1..n : (Names(i)' <=> Names(i)) /\ Place(i)' = Place(i)
  BY <1>1, <1>2, Places_Later
<1>4. /\ Filled(nodes, later, at, Kept(l, at))
      /\ at # None => at \in DOMAIN later \ {Root} /\ later[at].locator = x
      /\ NextNames(l) => at \in DOMAIN later \ DOMAIN nodes /\ TypeOf(x) \in NameTypes
      /\ Clash(later) => NextNames(l) /\ \E k \in DOMAIN nodes : nodes[k].locator = x
  BY DEF ReadStep, GrowsTo
<1>5. None \notin DOMAIN later
  BY <1>1, Grown_Locator DEF None
<1>6. NamedTwice' <=> \E i, j \in DOMAIN read' :
                          i < j /\ Names(i)' /\ Names(j)' /\ Place(i)' = Place(j)'
  BY DEF NamedTwice, Names
<1> HIDE DEF later, x
<1>7. ASSUME Clash(later) PROVE NamedTwice'
  <2>1. PICK k \in DOMAIN nodes : nodes[k].locator = x
    BY <1>4, <1>7
  <2>2. NextNames(l) /\ TypeOf(nodes[k].locator) \in NameTypes
    BY <1>4, <1>7, <2>1
  <2>3. PICK i \in DOMAIN read : Names(i) /\ Place(i) = x
    BY <1>1, <2>1, <2>2, NameTypes_Root DEF Placed, NodesAreNamed
  <2>4. i < n + 1 /\ i \in DOMAIN read' /\ n + 1 \in DOMAIN read'
    BY <1>2
  <2> QED BY <1>2, <1>3, <1>6, <2>2, <2>3, <2>4
<1>8. ASSUME NamedTwice' PROVE Clash(later)
  <2>1. PICK i \in DOMAIN read', j \in DOMAIN read' :
               i < j /\ Names(i)' /\ Names(j)' /\ Place(i)' = Place(j)'
    BY <1>6, <1>8
  <2>2. i \in 1..n
    BY <1>2, <2>1
  <2>3. j = n + 1
    <3> SUFFICES ASSUME j \in 1..n PROVE FALSE
      BY <1>2
    <3>1. Names(i) /\ Names(j) /\ Place(i) = Place(j)
      BY <1>3, <2>1, <2>2
    <3> QED BY <1>2, <2>1, <2>2, <3>1, NamedTwice_Is
  <2>4. NextNames(l) /\ Place(i) = x
    BY <1>2, <1>3, <2>1, <2>2, <2>3
  <2>5. at \in DOMAIN later \ DOMAIN nodes /\ at # Root /\ later[at].locator = x
    BY <1>4, <1>5, <2>4
  <2>6. x # Nowhere
    BY <1>1, <2>5, Nowhere_Root
  <2>7. PICK k \in DOMAIN nodes : nodes[k].locator = x
    BY <1>2, <2>2, <2>4, <2>6 DEF Placed, PlacesAreNodes
  <2>8. k \in DOMAIN later /\ later[k].locator = x /\ k # at
    BY <1>4, <2>5, <2>7 DEF Filled
  <2> QED BY <1>1, <2>5, <2>8, Clash_Is
<1> QED BY <1>7, <1>8 DEF later

\* The words of the line are added to one node, and that is at the line's place.
LEMMA Step_Texts ==
    ASSUME TreeInv, TreeInv', Placed, ~Clash(nodes'),
           NEW l \in Line, NEW at, ReadStep(l, at)
    PROVE  PlacesAreNodes' /\ TextsArePlaced' /\ NodesAreNamed'
<1> DEFINE later == nodes'
           x == NextPlace(l)
           kept == Kept(l, at)
<1>0. PICK n : n = Len(read)
  OBVIOUS
<1>1. /\ read \in Seq(Line) /\ Grown(nodes) /\ Grown(later) /\ Reads(l) /\ ~Clash(later)
  BY DEF TreeInv, ReadStep
<1>2. /\ n \in Nat /\ DOMAIN read = 1..n /\ DOMAIN read' = 1..n \cup {n + 1}
      /\ Names(n + 1)' <=> NextNames(l)
      /\ Says(n + 1)' <=> l.kind # "chrome" /\ ~l.blank
      /\ Place(n + 1)' = x
  BY <1>0, <1>1, Lines_Later, Place_Next
<1>3. \A i \in 1..n : (Names(i)' <=> Names(i)) /\ (Says(i)' <=> Says(i)) /\ Place(i)' = Place(i)
  BY <1>1, <1>2, Places_Later
<1>4. /\ Filled(nodes, later, at, kept)
      /\ at = None => \/ x = Nowhere
                      \/ Said(l) = {} /\ \E k \in DOMAIN nodes : nodes[k].locator = x
      /\ at # None => at \in DOMAIN later \ {Root} /\ later[at].locator = x
      /\ NextNames(l) => at \in DOMAIN later \ DOMAIN nodes
      /\ \A k \in DOMAIN later \ DOMAIN nodes :
            (k = at /\ NextNames(l)) \/ TypeOf(later[k].locator) \notin NameTypes
  BY DEF ReadStep, GrowsTo
<1>5. None \notin DOMAIN later
  BY <1>1, Grown_Locator DEF None
<1>6. /\ Said(l) = IF Says(n + 1)' THEN {n + 1} ELSE {}
      /\ kept = IF Says(n + 1)' /\ ~Repeats(Held(at), l.says) THEN {n + 1} ELSE {}
  BY <1>0, <1>2 DEF Kept, Said, Words
<1> HIDE DEF later, x, kept
<1>7. DOMAIN nodes \subseteq DOMAIN later
      /\ \A k \in DOMAIN nodes : later[k].locator = nodes[k].locator
  BY <1>4 DEF Filled
<1>8. PlacesAreNodes'
  <2>1. \A i \in 1..n : Place(i) = Nowhere \/ \E k \in DOMAIN later : later[k].locator = Place(i)
    BY <1>2, <1>7 DEF Placed, PlacesAreNodes
  <2>2. x = Nowhere \/ \E k \in DOMAIN later : later[k].locator = x
    BY <1>4, <1>7
  <2>3. Nowhere' = Nowhere
    BY DEF Nowhere, Loc
  <2>4. \A i \in DOMAIN read' : Place(i)' = Nowhere
                                 \/ \E k \in DOMAIN later : later[k].locator = Place(i)'
    BY <1>2, <1>3, <2>1, <2>2
  <2> QED BY <2>3, <2>4, Zenon DEF PlacesAreNodes, later
<1>9. NodesAreNamed'
  <2>1. ASSUME NEW k \in DOMAIN later \ {Root}, TypeOf(later[k].locator) \in NameTypes
        PROVE  \E i \in DOMAIN read' : Names(i)' /\ Place(i)' = later[k].locator
    <3>1. CASE k \in DOMAIN nodes
      <4>1. PICK i \in DOMAIN read : Names(i) /\ Place(i) = nodes[k].locator
        BY <1>7, <2>1, <3>1 DEF Placed, NodesAreNamed
      <4> QED BY <1>2, <1>3, <1>7, <3>1, <4>1
    <3>2. CASE k \notin DOMAIN nodes
      BY <1>2, <1>4, <1>5, <2>1, <3>2
    <3> QED BY <3>1, <3>2
  <2> QED BY <2>1, Zenon DEF NodesAreNamed, NameTypes, later
<1>10. TextsArePlaced'
  <2>1. ASSUME NEW k \in DOMAIN later \ {Root}
        PROVE  later[k].text = {i \in DOMAIN read' : /\ Says(i)' /\ Place(i)' = later[k].locator
                                                     /\ ~Said_Before(read', i, later[k].text)}
    <3> DEFINE old    == Held(k)
               text   == later[k].text
               new    == IF Says(n + 1)' /\ x = later[k].locator /\ ~Repeats(old, l.says)
                         THEN {n + 1} ELSE {}
               before == {i \in 1..n : /\ Says(i) /\ Place(i) = later[k].locator
                                       /\ ~SaidBefore(i, old)}
    <3>1. later[k].locator # Nowhere
      BY <1>1, <2>1, Nowhere_Root
    \* Of the old lines of this place the same are kept.
    <3>2. before = old
      <4>1. CASE k \in DOMAIN nodes
        BY <1>2, <1>7, <2>1, <4>1 DEF Placed, TextsArePlaced, Held
      <4>2. CASE k \notin DOMAIN nodes
        <5>1. ASSUME NEW i \in 1..n, Place(i) = later[k].locator PROVE FALSE
          <6>1. PICK j \in DOMAIN nodes : nodes[j].locator = Place(i)
            BY <1>2, <3>1, <5>1 DEF Placed, PlacesAreNodes
          <6>2. j \in DOMAIN later /\ later[j].locator = later[k].locator /\ j # k
            BY <1>7, <4>2, <5>1, <6>1
          <6> QED BY <1>1, <2>1, <6>2, Clash_Is
        <5> QED BY <4>2, <5>1 DEF Held
      <4> QED BY <4>1, <4>2
    <3>3. x = later[k].locator /\ Says(n + 1)' <=> k = at /\ Says(n + 1)'
      <4>1. CASE at = None
        BY <1>4, <1>5, <1>6, <2>1, <3>1, <4>1
      <4>2. CASE at # None
        BY <1>1, <1>4, <2>1, <4>2, Clash_Is
      <4> QED BY <4>1, <4>2
    <3>4. text = old \cup new
      <4>1. new = IF k = at THEN kept ELSE {}
        BY <1>6, <3>3
      <4> HIDE DEF new
      <4>2. text = old \cup (IF k = at THEN kept ELSE {})
        BY <1>4, <2>1 DEF Filled, Held
      <4> QED BY <4>1, <4>2
    <3>5. /\ old \subseteq 1..n /\ new \subseteq {n + 1}
          /\ \A i \in 1..n : read'[i] = read[i]
          /\ read'[n + 1] = l
      <4>1. old \subseteq 1..n
        BY <3>2
      <4> QED BY <1>1, <1>2, <4>1, Lines_Later
    <3> HIDE DEF old, text, new
    <3>6. ASSUME NEW i \in 1..n
          PROVE  Said_Before(read', i, text) <=> SaidBefore(i, old)
      <4>1. {h \in text : h < i} = {h \in old : h < i}
        BY <1>2, <3>4, <3>5, Earlier_Is
      <4>2. \A h \in old : read'[h] = read[h]
        BY <3>5
      <4> QED BY <3>5, <4>1, <4>2, Said_Before_Is
    <3>7. Said_Before(read', n + 1, text) <=> Repeats(old, l.says)
      <4>1. {h \in text : h < n + 1} = old
        BY <1>2, <3>4, <3>5, Earlier_Is
      <4>2. [h \in old |-> read'[h].says] = [h \in old |-> read[h].says]
        BY <3>5
      <4>3. Said_Before(read', n + 1, text)
              <=> old # {} /\ Includes([h \in old |-> read'[h].says], read'[n + 1].says)
        BY <4>1 DEF Said_Before
      <4> QED BY <3>5, <4>2, <4>3 DEF Repeats, Written
    <3>8. {i \in DOMAIN read' : /\ Says(i)' /\ Place(i)' = later[k].locator
                                /\ ~Said_Before(read', i, text)}
            = before \cup new
      <4>1. n + 1 \notin 1..n
        BY <1>2
      <4> QED BY <1>2, <1>3, <3>6, <3>7, <4>1 DEF new
    <3> QED BY <3>2, <3>4, <3>8 DEF text
  <2>2. \A i, lines : SaidBefore(i, lines)' <=> Said_Before(read', i, lines)
    BY DEF SaidBefore, Repeats, Written, Said_Before
  <2> QED BY <2>1, <2>2 DEF TextsArePlaced, later
<1> QED BY <1>8, <1>9, <1>10

\* The articles and the listed paragraphs are those the reader knows.
LEMMA Step_Lists ==
    ASSUME TreeInv, TreeInv', Placed, NEW l \in Line, NEW at, ReadStep(l, at)
    PROVE  StandsHere' /\ ListsAgree'
<1> DEFINE later == nodes'
           x == NextPlace(l)
           after == After(l, Standing[Len(read)], Headings, Listings)
<1>0. PICK n : n = Len(read)
  OBVIOUS
<1>1. /\ read \in Seq(Line) /\ Grown(nodes) /\ Grown(later) /\ Reads(l)
  BY DEF TreeInv, ReadStep
<1>2. /\ n \in Nat /\ DOMAIN read = 1..n /\ DOMAIN read' = 1..n \cup {n + 1}
      /\ Len(read') = n + 1
      /\ read'[n + 1] = l /\ \A i \in 1..n : read'[i] = read[i]
      /\ Standing'[n + 1] = after
      /\ \A i \in 0..n : Standing'[i] = Standing[i]
  BY <1>0, <1>1, Lines_Later, Standing_Later, Standing_After
<1>3. /\ Filled(nodes, later, at, Kept(l, at))
      /\ at # None => at \in DOMAIN later \ {Root} /\ later[at].locator = x
      /\ NextNames(l) => /\ at \in DOMAIN later \ DOMAIN nodes
                         /\ TypeOf(x) = "ARTICLE" <=> IsHeading(l)
      /\ \A k \in DOMAIN later \ DOMAIN nodes :
            (k = at /\ NextNames(l)) \/ TypeOf(later[k].locator) \notin NameTypes
  BY DEF ReadStep, GrowsTo
<1>4. None \notin DOMAIN later
  BY <1>1, Grown_Locator DEF None
<1>5. /\ after = IF article' = None THEN Nowhere ELSE nodes'[Here'].locator
      /\ simple' = simple \cup (IF l.kind = "simple" THEN {x} \ {Nowhere} ELSE {})
  BY DEF ReadStep, Moves
<1>6. /\ IsHeading(l) => NextNames(l) /\ x = ArticleNumber(l)
      /\ l.kind = "simple" => x = after
  BY DEF IsHeading, NextNames, NextPlace, After
<1>7. Nowhere' = Nowhere
  BY DEF Nowhere, Loc
<1>8. StandsHere'
  BY <1>2, <1>5, <1>7, Zenon DEF StandsHere
<1> HIDE DEF later, x, after
<1>9. DOMAIN nodes \subseteq DOMAIN later
      /\ \A k \in DOMAIN nodes : later[k].locator = nodes[k].locator
  BY <1>3 DEF Filled
<1>10. Headings' = Headings \cup (IF IsHeading(l) THEN {x} ELSE {})
  <2>1. Headings' = {ArticleNumber(read'[j]) : j \in {h \in DOMAIN read' : IsHeading(read'[h])}}
    BY DEF Headings, IsHeading, ArticleNumber, Loc
  <2>2. \A h \in 1..n : read'[h] = read[h]
    BY <1>2
  <2>3. {h \in DOMAIN read' : IsHeading(read'[h])}
          = {h \in 1..n : IsHeading(read[h])} \cup (IF IsHeading(l) THEN {n + 1} ELSE {})
    BY <1>2
  <2>4. Headings = {ArticleNumber(read[j]) : j \in {h \in 1..n : IsHeading(read[h])}}
    BY <1>2 DEF Headings
  <2>5. ArticleNumber(read'[n + 1]) = ArticleNumber(l)
    BY <1>2
  <2> QED BY <1>6, <2>1, <2>2, <2>3, <2>4, <2>5
<1>11. Listings' = Listings \cup (IF l.kind = "simple" THEN {x} ELSE {})
  <2>1. Listings' = {Standing'[j] : j \in {h \in DOMAIN read' : read'[h].kind = "simple"}}
    BY DEF Listings
  <2>2. \A h \in 1..n : read'[h] = read[h] /\ Standing'[h] = Standing[h]
    <3>1. 1..n \subseteq 0..n
      BY <1>2
    <3> QED BY <1>2, <3>1
  <2>3. {h \in DOMAIN read' : read'[h].kind = "simple"}
          = {h \in 1..n : read[h].kind = "simple"} \cup (IF l.kind = "simple" THEN {n + 1} ELSE {})
    BY <1>2, <2>2
  <2>4. Listings = {Standing[j] : j \in {h \in 1..n : read[h].kind = "simple"}}
    BY <1>2 DEF Listings
  <2> QED BY <1>2, <1>6, <2>1, <2>2, <2>3, <2>4
<1>12. {later[k].locator : k \in {h \in DOMAIN later : TypeOf(later[h].locator) = "ARTICLE"}}
         = {nodes[k].locator : k \in {h \in DOMAIN nodes : TypeOf(nodes[h].locator) = "ARTICLE"}}
             \cup (IF IsHeading(l) THEN {x} ELSE {})
  <2>1. CASE IsHeading(l)
    <3>1. at \in DOMAIN later \ DOMAIN nodes /\ later[at].locator = x /\ TypeOf(x) = "ARTICLE"
      BY <1>3, <1>4, <1>6, <2>1
    <3>2. {h \in DOMAIN later : TypeOf(later[h].locator) = "ARTICLE"}
            = {h \in DOMAIN nodes : TypeOf(nodes[h].locator) = "ARTICLE"} \cup {at}
      BY <1>3, <1>9, <3>1 DEF NameTypes
    <3> QED BY <1>9, <2>1, <3>1, <3>2
  <2>2. CASE ~IsHeading(l)
    <3>1. {h \in DOMAIN later : TypeOf(later[h].locator) = "ARTICLE"}
            = {h \in DOMAIN nodes : TypeOf(nodes[h].locator) = "ARTICLE"}
      <4>1. ASSUME NEW k \in DOMAIN later \ DOMAIN nodes, TypeOf(later[k].locator) = "ARTICLE"
            PROVE  FALSE
        <5>1. k = at /\ NextNames(l)
          BY <1>3, <4>1 DEF NameTypes
        <5> QED BY <1>3, <1>4, <2>2, <4>1, <5>1
      <4> QED BY <1>9, <4>1
    <3> QED BY <1>9, <2>2, <3>1
  <2> QED BY <2>1, <2>2
<1>13. ListsAgree'
  <2>1. /\ Headings = {nodes[k].locator : k \in {h \in DOMAIN nodes : TypeOf(nodes[h].locator) = "ARTICLE"}}
        /\ simple = Listings \ {Nowhere}
    BY DEF Placed, ListsAgree, IsArticle
  <2>2. Headings' = {later[k].locator : k \in {h \in DOMAIN later : TypeOf(later[h].locator) = "ARTICLE"}}
    BY <1>10, <1>12, <2>1
  <2>3. simple' = Listings' \ {Nowhere}
    BY <1>5, <1>11, <2>1
  <2> QED BY <1>7, <2>2, <2>3, Zenon DEF ListsAgree, IsArticle, TypeOf, later
<1> QED BY <1>8, <1>13

LEMMA TopNodes_Finite ==
    ASSUME NEW tree, Grown(tree)
    PROVE  IsFiniteSet(TopNodes(tree)) /\ Cardinality(TopNodes(tree)) \in Nat
<1>1. TopNodes(tree) \subseteq 1..Len(tree) /\ Len(tree) \in Nat
  BY DEF Grown, TopNodes
<1>2. IsFiniteSet(1..Len(tree))
  BY <1>1, FS_Interval
<1>3. IsFiniteSet(TopNodes(tree))
  BY <1>1, <1>2, FS_Subset
<1> QED BY <1>3, FS_CardinalityType

\* Children of the root and lines that open one are counted alike: annexes are
\* numbered by them.
LEMMA Step_Tops ==
    ASSUME TreeInv, TreeInv', Placed, NEW l \in Line, NEW at, ReadStep(l, at)
    PROVE  TopsAgree'
<1> DEFINE later == nodes'
<1>0. PICK n : n = Len(read)
  OBVIOUS
<1>1. /\ read \in Seq(Line) /\ Grown(nodes) /\ Grown(later) /\ Reads(l)
  BY DEF TreeInv, ReadStep
<1>2. /\ n \in Nat /\ DOMAIN read = 1..n /\ DOMAIN read' = 1..n \cup {n + 1}
      /\ Len(read') = n + 1
      /\ read'[n + 1] = l /\ \A i \in 1..n : read'[i] = read[i]
      /\ TopLines(n + 1)' = TopLines(n) \cup (IF NextTop(l) THEN {n + 1} ELSE {})
      /\ TopLines(n) \subseteq 1..n
  BY <1>0, <1>1, Lines_Later, Standing_Later, TopLines_Later
<1>3. /\ Filled(nodes, later, at, Kept(l, at))
      /\ NextNames(l) => at \in DOMAIN later \ DOMAIN nodes
      /\ \A k \in DOMAIN later \ DOMAIN nodes : later[k].parent = Root <=> k = at /\ NextTop(l)
  BY DEF ReadStep, GrowsTo
<1>4. NextTop(l) => NextNames(l)
  BY DEF NextTop, NextNames
<1> HIDE DEF later
<1>5. TopNodes(later) = TopNodes(nodes) \cup (IF NextTop(l) THEN {at} ELSE {})
  <2>1. /\ DOMAIN nodes \subseteq DOMAIN later
        /\ \A k \in DOMAIN nodes : later[k].parent = nodes[k].parent
    BY <1>3 DEF Filled
  <2> QED BY <1>3, <1>4, <2>1 DEF TopNodes
<1>6. /\ IsFiniteSet(TopNodes(nodes)) /\ IsFiniteSet(TopLines(n))
      /\ Cardinality(TopNodes(nodes)) = Cardinality(TopLines(n))
  <2>1. IsFiniteSet(1..n)
    BY <1>2, FS_Interval
  <2>2. IsFiniteSet(TopLines(n))
    BY <1>2, <2>1, FS_Subset
  <2>3. IsFiniteSet(TopNodes(nodes))
    BY <1>1, TopNodes_Finite
  <2> QED BY <1>0, <2>2, <2>3 DEF Placed, TopsAgree
<1>7. Cardinality(TopNodes(later)) = Cardinality(TopLines(n + 1)')
  <2>1. CASE NextTop(l)
    <3>1. at \notin TopNodes(nodes) /\ n + 1 \notin TopLines(n)
      BY <1>2, <1>3, <1>4, <2>1 DEF TopNodes
    <3>2. /\ Cardinality(TopNodes(nodes) \cup {at}) = Cardinality(TopNodes(nodes)) + 1
          /\ Cardinality(TopLines(n) \cup {n + 1}) = Cardinality(TopLines(n)) + 1
      BY <1>6, <3>1, FS_AddElement
    <3> QED BY <1>2, <1>5, <1>6, <2>1, <3>2
  <2>2. CASE ~NextTop(l)
    BY <1>2, <1>5, <1>6, <2>2
  <2> QED BY <2>1, <2>2
<1>8. chapter' = None <=> \A h \in DOMAIN read' : read'[h].kind # "chapter"
  <2>1. chapter' = None <=> chapter = None /\ l.kind # "chapter"
    BY DEF ReadStep, Moves
  <2>2. chapter = None <=> \A h \in 1..n : read[h].kind # "chapter"
    BY <1>2 DEF Placed, TopsAgree
  <2> QED BY <1>2, <2>1, <2>2
<1>9. (Cardinality(TopLines(Len(read))))' = Cardinality(TopLines(n + 1)')
  BY <1>2 DEF TopLines
<1>10. Cardinality(TopNodes(nodes))' = Cardinality(TopNodes(later))
  BY DEF TopNodes, later
<1> QED BY <1>7, <1>8, <1>9, <1>10 DEF TopsAgree

\* Reading a line on these terms keeps parser and reader together.
LEMMA Step_Placed ==
    ASSUME TreeInv, TreeInv', GateInv, ~Clash(nodes),
           NEW l \in Line, NEW at, ReadStep(l, at)
    PROVE  GateInv'
<1>1. Placed /\ ~NamedTwice
  BY DEF GateInv
<1>2. Clash(nodes') <=> NamedTwice'
  BY <1>1, Step_Clash
<1>3. Spelled(nodes') /\ Hanging'
  BY DEF ReadStep, GrowsTo, Moves
<1>4. ~Clash(nodes') => PlacesAreNodes' /\ TextsArePlaced' /\ NodesAreNamed'
  BY <1>1, Step_Texts
<1>5. StandsHere' /\ ListsAgree' /\ TopsAgree'
  BY <1>1, Step_Lists, Step_Tops
<1>6. (Clash(nodes))' <=> Clash(nodes')
  BY DEF Clash
<1>7. (Spelled(nodes))' <=> Spelled(nodes')
  BY DEF Spelled, Below
<1>8. ~Clash(nodes') => Placed'
  BY <1>3, <1>4, <1>5, <1>7 DEF Placed
<1> QED BY <1>2, <1>6, <1>8 DEF GateInv

\* Two nodes of one locator, and two lines of one name, are there for good.
LEMMA Clash_Stays ==
    ASSUME TreeInv, TreeInv', GateInv, Clash(nodes),
           NEW l \in Line, Reads(l), Extends(nodes', nodes)
    PROVE  GateInv'
<1> DEFINE later == nodes'
<1>1. /\ read \in Seq(Line) /\ Grown(nodes) /\ Grown(later) /\ NamedTwice
  BY DEF TreeInv, GateInv
<1>2. Clash(later)
  <2>1. PICK i \in DOMAIN nodes, k \in DOMAIN nodes :
               i # k /\ nodes[i].locator = nodes[k].locator
    BY <1>1, Clash_Is
  <2>2. /\ i \in DOMAIN later /\ k \in DOMAIN later
        /\ later[i].locator = later[k].locator
    BY <2>1 DEF Extends
  <2> HIDE DEF later
  <2> QED BY <1>1, <2>1, <2>2, Clash_Is
<1>3. NamedTwice'
  <2>1. PICK i \in DOMAIN read, j \in DOMAIN read :
               i < j /\ Names(i) /\ Names(j) /\ Place(i) = Place(j)
    BY <1>1, NamedTwice_Is
  <2>2. i \in DOMAIN read' /\ j \in DOMAIN read'
    BY <1>1, Lines_Later
  <2>3. Names(i)' /\ Names(j)' /\ Place(i)' = Place(j)'
    BY <1>1, <2>1, Places_Later
  <2>4. NamedTwice' <=> \E i_1, j_1 \in DOMAIN read' :
                i_1 < j_1 /\ Names(i_1)' /\ Names(j_1)' /\ Place(i_1)' = Place(j_1)'
    BY DEF NamedTwice, Names
  <2> QED BY <2>1, <2>2, <2>3, <2>4
<1>4. (Clash(nodes))' <=> Clash(later)
  BY DEF Clash
<1> HIDE DEF later
<1> QED BY <1>2, <1>3, <1>4 DEF GateInv

-----------------------------------------------------------------------------
(* Where the parser is, in the words of the reader.                        *)

LEMMA One_Number ==
    ASSUME NEW s \in Seq(Nat)
    PROVE  /\ Len(s) = 0 => s = <<>>
           /\ Len(s) = 1 => s = Append(<<>>, s[1]) /\ s[1] \in Nat
<1>1. Len(s) = 0 => s = <<>>
  OBVIOUS
<1>2. ASSUME Len(s) = 1 PROVE s = Append(<<>>, s[1]) /\ s[1] \in Nat
  <2>1. s[1] \in Nat
    <3>1. 1 \in 1..Len(s)
      BY <1>2
    <3> QED BY <3>1, ElementOfSeq
  <2> DEFINE t == Append(<<>>, s[1])
  <2>2. t \in Seq(Nat) /\ Len(t) = 1 /\ t[1] = s[1]
    BY <2>1
  <2> HIDE DEF t
  <2>3. s = t
    BY <1>2, <2>2, SeqEqual
  <2> QED BY <2>1, <2>3 DEF t
<1> QED BY <1>1, <1>2

LEMMA Article_Path ==
    ASSUME NEW tree, Grown(tree), NEW k \in DOMAIN tree,
           TypeOf(tree[k].locator) \in {"ARTICLE", "PARAGRAPH", "CLAUSE", "SUB_CLAUSE"}
    PROVE  LET l == tree[k].locator IN
           /\ l \in Locator /\ l.at = "art" /\ l.path \in Seq(Nat)
           /\ TypeOf(l) = "ARTICLE" <=> l.path = <<>>
           /\ TypeOf(l) = "ARTICLE"    => Len(l.path) = 0
           /\ TypeOf(l) = "PARAGRAPH"  => Len(l.path) = 1
           /\ TypeOf(l) = "CLAUSE"     => Len(l.path) = 2
           /\ TypeOf(l) = "SUB_CLAUSE" => Len(l.path) > 2
<1> DEFINE l == tree[k].locator
<1>1. l \in Locator
  BY Grown_Locator
<1> HIDE DEF l
<1>2. l.path \in Seq(Nat) /\ Len(l.path) \in Nat
  <2>1. l.path \in Seq(Nat)
    BY <1>1 DEF Locator
  <2> DEFINE p == l.path
  <2> HIDE DEF p
  <2>2. p \in Seq(Nat) => Len(p) \in Nat
    OBVIOUS
  <2> QED BY <2>1, <2>2 DEF p
<1>3. TypeOf(l) \in {"ARTICLE", "PARAGRAPH", "CLAUSE", "SUB_CLAUSE"}
  BY DEF l
<1>4. /\ l.at = "art"
      /\ TypeOf(l) = "ARTICLE"    <=> Len(l.path) = 0
      /\ TypeOf(l) = "PARAGRAPH"  <=> Len(l.path) = 1
      /\ TypeOf(l) = "CLAUSE"     <=> Len(l.path) = 2
      /\ TypeOf(l) = "SUB_CLAUSE" <=> Len(l.path) > 2
  BY <1>1, <1>2, <1>3, TypeOf_Is
<1>5. Len(l.path) = 0 <=> l.path = <<>>
  <2> DEFINE p == l.path
  <2> HIDE DEF p
  <2>1. p \in Seq(Nat) => (Len(p) = 0 <=> p = <<>>)
    OBVIOUS
  <2> QED BY <1>2, <2>1 DEF p
<1> QED BY <1>1, <1>2, <1>4, <1>5 DEF l

\* A provision is its parent's locator and one number.
LEMMA Above_Is ==
    ASSUME NEW tree, Grown(tree), Spelled(tree), NEW k \in DOMAIN tree,
           TypeOf(tree[k].locator) \in {"PARAGRAPH", "CLAUSE", "SUB_CLAUSE"}
    PROVE  /\ k # Root /\ tree[k].parent \in DOMAIN tree
           /\ \E m \in Nat : tree[k].locator = Below(tree, tree[k].parent, m)
           /\ Under(tree[k].locator, <<>>) = Under(tree[tree[k].parent].locator, <<>>)
<1> DEFINE p == tree[k].parent
           l == tree[k].locator
           m == l.path[Len(l.path)]
<1>1. k # Root /\ p \in DOMAIN tree
  BY DEF Grown
<1>2. l = Below(tree, p, m)
  BY <1>1, Spelled_Is DEF SpelledAt
<1>3. m \in Nat
  <2>1. l.path \in Seq(Nat) /\ Len(l.path) # 0
    BY Article_Path
  <2> DEFINE q == l.path
  <2> HIDE DEF q, l
  <2>2. q \in Seq(Nat) /\ Len(q) # 0 => q[Len(q)] \in Nat
    OBVIOUS
  <2> QED BY <2>1, <2>2 DEF q
<1> DEFINE q == tree[p].locator.path
<1> HIDE DEF m, p
<1>4. /\ Append(q, m) \in Seq(Nat) /\ l = Under(tree[p].locator, Append(q, m))
      /\ tree[p].locator \in Locator /\ <<>> \in Seq(Nat)
  BY <1>1, <1>2, <1>3, Below_Under, Grown_Locator
<1>5. Under(l, <<>>) = Under(tree[p].locator, <<>>)
  <2> DEFINE s == Append(q, m)
             a == tree[p].locator
  <2> HIDE DEF s, a, l, q
  <2>1. s \in Seq(Nat) /\ l = Under(a, s) /\ a \in Locator /\ <<>> \in Seq(Nat)
    BY <1>4 DEF s, a
  <2>2. Under(Under(a, s), <<>>) = Under(a, <<>>)
    BY <2>1, Under_Under
  <2> QED BY <2>1, <2>2 DEF a
<1> QED BY <1>1, <1>2, <1>3, <1>5 DEF p

\* Without an article there is no current provision; with one, the reader
\* stands at it or below.
LEMMA Here_Is ==
    ASSUME TreeInv, Placed, NEW s, s = Standing[Len(read)]
    PROVE  /\ article = None => s = Nowhere /\ paragraph = None /\ clause = None /\ Here = None
           /\ article # None =>
                /\ Here \in DOMAIN nodes \ {Root} /\ Here # None
                /\ article \in DOMAIN nodes /\ TypeOf(nodes[article].locator) = "ARTICLE"
                /\ s = nodes[Here].locator /\ s # Nowhere
                /\ s \in Locator /\ s.at = "art"
                /\ Under(s, <<>>) = nodes[article].locator
<1>1. Grown(nodes) /\ Spelled(nodes) /\ Hanging
      /\ s = IF article = None THEN Nowhere ELSE nodes[Here].locator
  BY DEF TreeInv, Placed, StandsHere
<1>2. CASE article = None
  <2>1. paragraph = None /\ clause = None
    BY <1>1, <1>2 DEF Hanging
  <2> QED BY <1>1, <1>2, <2>1 DEF Here
<1>3. CASE article # None
  <2>1. article \in DOMAIN nodes /\ TypeOf(nodes[article].locator) = "ARTICLE"
    BY <1>3 DEF TreeInv, Current
  <2>2. Under(nodes[article].locator, <<>>) = nodes[article].locator
    <3>1. nodes[article].locator \in Locator /\ nodes[article].locator.path = <<>>
      BY <1>1, <2>1, Article_Path
    <3> DEFINE l == nodes[article].locator
    <3> HIDE DEF l
    <3>2. l \in Locator /\ l.path = <<>> /\ <<>> \in Seq(Nat)
      BY <3>1 DEF l
    <3>3. Under(l, l.path) = l
      BY <3>2, Under_Under
    <3> QED BY <3>2, <3>3 DEF l
  <2>3. paragraph # None =>
          /\ paragraph \in DOMAIN nodes /\ TypeOf(nodes[paragraph].locator) = "PARAGRAPH"
          /\ Under(nodes[paragraph].locator, <<>>) = nodes[article].locator
    <3> SUFFICES ASSUME paragraph # None
                 PROVE  /\ paragraph \in DOMAIN nodes
                        /\ TypeOf(nodes[paragraph].locator) = "PARAGRAPH"
                        /\ Under(nodes[paragraph].locator, <<>>) = nodes[article].locator
      OBVIOUS
    <3>1. /\ paragraph \in DOMAIN nodes /\ TypeOf(nodes[paragraph].locator) = "PARAGRAPH"
          /\ nodes[paragraph].parent = article
      BY <1>1 DEF TreeInv, Current, Hanging
    <3>2. Under(nodes[paragraph].locator, <<>>) = Under(nodes[article].locator, <<>>)
      BY <1>1, <3>1, Above_Is
    <3> QED BY <2>2, <3>1, <3>2
  <2>4. clause # None =>
          /\ clause \in DOMAIN nodes /\ TypeOf(nodes[clause].locator) = "CLAUSE"
          /\ Under(nodes[clause].locator, <<>>) = nodes[article].locator
    <3> SUFFICES ASSUME clause # None
                 PROVE  /\ clause \in DOMAIN nodes /\ TypeOf(nodes[clause].locator) = "CLAUSE"
                        /\ Under(nodes[clause].locator, <<>>) = nodes[article].locator
      OBVIOUS
    <3>1. /\ clause \in DOMAIN nodes /\ TypeOf(nodes[clause].locator) = "CLAUSE"
          /\ paragraph # None /\ nodes[clause].parent = paragraph
      BY <1>1 DEF TreeInv, Current, Hanging
    <3>2. Under(nodes[clause].locator, <<>>) = Under(nodes[paragraph].locator, <<>>)
      BY <1>1, <3>1, Above_Is
    <3> QED BY <2>3, <3>1, <3>2
  <2>5. /\ Here \in DOMAIN nodes
        /\ TypeOf(nodes[Here].locator) \in {"ARTICLE", "PARAGRAPH", "CLAUSE"}
        /\ Under(nodes[Here].locator, <<>>) = nodes[article].locator
    BY <2>1, <2>2, <2>3, <2>4 DEF Here
  <2>6. Here # Root /\ Here # None
    BY <1>1, <2>5, Grown_Locator DEF Grown, None
  <2>7. nodes[Here].locator # Nowhere
    BY <1>1, <2>5, <2>6, Nowhere_Root
  <2>8. nodes[Here].locator \in Locator /\ nodes[Here].locator.at = "art"
    BY <1>1, <2>5, Article_Path
  <2> QED BY <1>1, <1>3, <2>1, <2>5, <2>6, <2>7, <2>8
<1> QED BY <1>2, <1>3

\* The article of a qualified line, in the words of the reader.
ReadersArticle(l) ==
    IF Loc("art", l.num, l.bis) \in Headings THEN Loc("art", l.num, l.bis)
    ELSE Under(Standing[Len(read)], <<>>)

LEMMA Target_Located ==
    ASSUME TreeInv, Placed, article # None, NEW l \in Line
    PROVE  nodes[Target(l)].locator = ReadersArticle(l)
<1> DEFINE x == Loc("art", l.num, l.bis)
           S == {k \in DOMAIN nodes :
                  IsArticle(k) /\ nodes[k].locator.num = l.num /\ nodes[k].locator.bis = l.bis}
           f == FindArticle(l)
<1>0. Grown(nodes)
  BY DEF TreeInv
<1>1. l.num \in Seq(Nat) /\ l.bis \in Nat
  BY DEF Line
<1>2. x \in Locator /\ x.at = "art" /\ x.num = l.num /\ x.bis = l.bis /\ x.path = <<>>
  BY <1>1 DEF Loc, Locator
<1>3. \A k \in DOMAIN nodes : IsArticle(k) =>
        (nodes[k].locator = x <=> nodes[k].locator.num = l.num /\ nodes[k].locator.bis = l.bis)
  <2> SUFFICES ASSUME NEW k \in DOMAIN nodes, IsArticle(k),
                      nodes[k].locator.num = l.num, nodes[k].locator.bis = l.bis
               PROVE  nodes[k].locator = x
    BY <1>2
  <2>1. /\ nodes[k].locator \in Locator /\ nodes[k].locator.at = "art"
        /\ nodes[k].locator.path = <<>>
    BY <1>0, Article_Path DEF IsArticle
  <2> DEFINE m == nodes[k].locator
  <2>2. m \in Locator /\ m.at = "art" /\ m.path = <<>> /\ m.num = l.num /\ m.bis = l.bis
    BY <2>1
  <2> HIDE DEF m, x
  <2>3. m = x
    BY <1>2, <2>2, Locator_Equal
  <2> QED BY <2>3 DEF m
<1>4. S \in SUBSET (Nat \ {0}) /\ f = First(S)
  BY <1>0, Grown_Locator DEF FindArticle
<1>5. f # None => f \in S
  <2> HIDE DEF S, f
  <2> QED BY <1>4, First_Some
<1>6. S # {} => f \in S /\ f # None
  <2> HIDE DEF S, f
  <2>1. S # {} => f \in S
    BY <1>4, First_Least
  <2> QED BY <1>4, <2>1 DEF None
<1>7. x \in Headings <=> S # {}
  <2>1. x \in Headings <=> \E k \in DOMAIN nodes : IsArticle(k) /\ nodes[k].locator = x
    <3> HIDE DEF x, S
    <3> QED BY DEF Placed, ListsAgree
  <2>2. (\E k \in DOMAIN nodes : IsArticle(k) /\ nodes[k].locator = x) <=> S # {}
    <3> HIDE DEF x
    <3> QED BY <1>3
  <2> QED BY <2>1, <2>2
<1>8. /\ article \in DOMAIN nodes /\ IsArticle(article)
      /\ Under(Standing[Len(read)], <<>>) = nodes[article].locator
  BY Here_Is DEF IsArticle
<1>9. CASE f # None
  <2>1. f \in DOMAIN nodes /\ IsArticle(f) /\ nodes[f].locator = x /\ x \in Headings
    <3>1. f \in S
      BY <1>5, <1>9
    <3> HIDE DEF x
    <3>2. f \in DOMAIN nodes /\ IsArticle(f) /\ nodes[f].locator = x
      BY <1>3, <3>1
    <3> QED BY <1>7, <3>1, <3>2
  <2>2. nodes[Target(l)].locator = x
    <3>1. \/ Target(l) = f
          \/ /\ Target(l) = article
             /\ nodes[article].locator.num = l.num /\ nodes[article].locator.bis = l.bis
      BY <1>9 DEF Target
    <3> HIDE DEF x, f
    <3> QED BY <1>3, <1>8, <2>1, <3>1
  <2> HIDE DEF x
  <2> QED BY <2>1, <2>2 DEF ReadersArticle, x
<1>10. CASE f = None
  <2>1. x \notin Headings
    <3> HIDE DEF S, f
    <3> QED BY <1>6, <1>7, <1>10
  <2>2. Target(l) = article
    BY <1>10 DEF Target
  <2> QED BY <1>8, <2>1, <2>2 DEF ReadersArticle
<1> QED BY <1>9, <1>10

\* Whether a line "n." has named the paragraph.
LEMMA SimpleParagraph_Located ==
    ASSUME TreeInv, Placed, ~Clash(nodes), article # None, NEW l \in Line, Len(l.num) = 1
    PROVE  LET x == Under(ReadersArticle(l), l.num) IN
           /\ SimpleParagraph(l) # None <=> x \in Listings
           /\ SimpleParagraph(l) # None =>
                /\ nodes[SimpleParagraph(l)].locator = x
                /\ nodes[SimpleParagraph(l)].parent = Target(l)
<1> DEFINE t == Target(l)
           a == nodes[t].locator
           x == Under(a, l.num)
           S == {k \in DOMAIN nodes : /\ nodes[k].parent = t
                                      /\ nodes[k].locator.path = l.num
                                      /\ nodes[k].locator \in simple}
           f == SimpleParagraph(l)
<1>0. Grown(nodes) /\ Spelled(nodes)
  BY DEF TreeInv, Placed
<1>1. a = ReadersArticle(l) /\ t \in DOMAIN nodes /\ TypeOf(a) = "ARTICLE"
  BY Target_Located, Target_Is
<1>2. l.num \in Seq(Nat) /\ l.num = Append(<<>>, l.num[1]) /\ l.num[1] \in Nat
  <2>1. l.num \in Seq(Nat)
    BY DEF Line
  <2> DEFINE s == l.num
  <2> HIDE DEF s
  <2>2. s \in Seq(Nat) /\ Len(s) = 1
    BY <2>1 DEF s
  <2>3. s = Append(<<>>, s[1]) /\ s[1] \in Nat
    BY <2>2, One_Number
  <2> QED BY <2>2, <2>3 DEF s
<1>3. a \in Locator /\ a.at = "art" /\ a.path = <<>>
  BY <1>0, <1>1, Article_Path
<1>4. Below(nodes, t, l.num[1]) = x
  BY <1>2, <1>3 DEF Below, Under
<1>5. /\ x \in Locator /\ x.at = "art" /\ x.path = l.num /\ TypeOf(x) = "PARAGRAPH" /\ x # Nowhere
  <2>1. x \in Locator /\ x.at = "art" /\ x.path = l.num
    <3> HIDE DEF a
    <3> QED BY <1>2, <1>3, Under_Is
  <2>2. TypeOf(x) = "PARAGRAPH"
    <3>1. TypeOf(Below(nodes, t, l.num[1])) = "PARAGRAPH"
      BY <1>0, <1>1, <1>2, Below_Type
    <3> QED BY <1>4, <3>1
  <2>3. x # Nowhere
    BY <2>1 DEF Nowhere, Loc
  <2> QED BY <2>1, <2>2, <2>3
<1>6. S \in SUBSET (Nat \ {0}) /\ f = First(S)
  BY <1>0, Grown_Locator DEF SimpleParagraph
<1>7. (f # None => f \in S) /\ (S # {} => f \in S /\ f # None)
  <2> HIDE DEF S, f
  <2>1. (f # None => f \in S) /\ (S # {} => f \in S)
    BY <1>6, First_Least, First_Some
  <2> QED BY <1>6, <2>1 DEF None
<1> HIDE DEF f
\* A child of the article has the article's locator and one number.
<1>8. ASSUME NEW k \in S PROVE nodes[k].locator = x /\ x \in Listings
  <2>1. k \in DOMAIN nodes /\ nodes[k].parent = t /\ nodes[k].locator.path = l.num
        /\ nodes[k].locator \in simple
    BY <1>8
  <2>2. TypeOf(nodes[k].locator) = "PARAGRAPH"
    <3>0. t # None
      BY <1>0, <1>1, Grown_Locator DEF None
    <3>1. k # Root
      BY <1>0, <2>1, <3>0 DEF Grown
    <3>2. "ARTICLE" \in AllowedParents(TypeOf(nodes[k].locator))
      BY <1>0, <1>1, <2>1, <3>1 DEF Grown
    <3> QED BY <3>2 DEF AllowedParents
  <2>3. PICK m \in Nat : nodes[k].locator = Below(nodes, t, m)
    BY <1>0, <2>1, <2>2, Above_Is
  <2>4. nodes[k].locator = Under(a, Append(<<>>, m)) /\ Append(<<>>, m) \in Seq(Nat)
    BY <1>3, <2>3 DEF Below, Under
  <2>5. nodes[k].locator = x
    <3> DEFINE s == Append(<<>>, m)
    <3> HIDE DEF s, a
    <3>1. nodes[k].locator = Under(a, s) /\ s \in Seq(Nat)
      BY <2>4 DEF s
    <3>2. s = l.num
      BY <1>3, <2>1, <3>1, Under_Is
    <3> QED BY <3>1, <3>2
  <2> HIDE DEF x
  <2>6. x \in Listings
    BY <2>1, <2>5 DEF Placed, ListsAgree
  <2> QED BY <2>5, <2>6
<1>9. ASSUME x \in Listings PROVE S # {}
  <2> HIDE DEF x, a, t, S
  <2>1. x \in simple
    BY <1>5, <1>9 DEF Placed, ListsAgree
  <2>2. PICK j \in DOMAIN read : read[j].kind = "simple" /\ Standing[j] = x
    BY <1>9 DEF Listings
  <2>3. Place(j) = x
    BY <2>2 DEF Place, IsSubClause
  <2>4. PICK k \in DOMAIN nodes : nodes[k].locator = x
    BY <1>5, <2>3 DEF Placed, PlacesAreNodes
  <2>5. TypeOf(nodes[k].locator) = "PARAGRAPH"
    BY <1>5, <2>4
  <2>6. k # Root /\ nodes[k].parent \in DOMAIN nodes
    BY <1>0, <2>5, Above_Is
  <2>7. PICK m \in Nat : nodes[k].locator = Below(nodes, nodes[k].parent, m)
    BY <1>0, <2>5, Above_Is
  <2>8. Below(nodes, t, l.num[1]) = Below(nodes, nodes[k].parent, m)
    BY <1>4, <2>4, <2>7 DEF x, a
  <2>9. nodes[t].locator = nodes[nodes[k].parent].locator
    <3> DEFINE p == nodes[k].parent
               u == l.num[1]
    <3> HIDE DEF p, u
    <3>1. /\ p \in DOMAIN nodes /\ t \in DOMAIN nodes /\ u \in Nat /\ m \in Nat
          /\ Below(nodes, t, u) = Below(nodes, p, m)
      BY <1>1, <1>2, <2>6, <2>8 DEF p, u
    <3>2. nodes[t].locator = nodes[p].locator
      BY <1>0, <3>1, Below_Same
    <3> QED BY <3>2 DEF p
  <2>10. nodes[k].parent = t
    BY <1>0, <1>1, <2>6, <2>9, Clash_Is
  <2>11. k \in S
    BY <1>5, <2>1, <2>4, <2>10 DEF S
  <2> QED BY <2>11
<1>10. f # None => nodes[f].parent = t
  BY <1>7
<1> HIDE DEF x, S, t, a
<1>11. /\ f # None <=> x \in Listings
       /\ f # None => nodes[f].locator = x
  BY <1>7, <1>8, <1>9
<1>12. x = Under(ReadersArticle(l), l.num)
  BY <1>1 DEF x
<1> QED BY <1>10, <1>11, <1>12 DEF f, t

-----------------------------------------------------------------------------
(* The branches, one by one.                                               *)

LEMMA Chrome_Step ==
    ASSUME TreeInv, Placed, ~Clash(nodes), NEW l \in Lines, Chrome(l)
    PROVE  ReadStep(l, None)
<1> DEFINE s == Standing[Len(read)]
<1>0. s = Standing[Len(read)]
  OBVIOUS
<1> HIDE DEF s
<1>1. /\ l.kind = "chrome" /\ Reads(l) /\ nodes' = nodes /\ simple' = simple
      /\ chapter' = chapter /\ article' = article /\ paragraph' = paragraph /\ clause' = clause
  BY DEF Chrome
<1>2. /\ ~NextNames(l) /\ ~NextTop(l) /\ ~IsHeading(l)
      /\ Said(l) = {} /\ Kept(l, None) = {}
      /\ NextPlace(l) = s /\ After(l, s, Headings, Listings) = s
  BY <1>0, <1>1 DEF NextNames, NextTop, IsHeading, Said, Kept, NextPlace, After
<1>3. IF article = None THEN s = Nowhere ELSE Here \in DOMAIN nodes /\ s = nodes[Here].locator
  BY <1>0, Here_Is
<1>4. GrowsTo(l, nodes', None)
  <2>1. Filled(nodes, nodes, None, {})
    BY DEF Filled
  <2>2. Spelled(nodes) /\ ~Clash(nodes)
    BY DEF Placed
  <2>3. s = Nowhere \/ \E k \in DOMAIN nodes : nodes[k].locator = s
    BY <1>3
  <2> QED BY <1>1, <1>2, <2>1, <2>2, <2>3 DEF GrowsTo
<1>5. Moves(l)
  <2>1. Here' = Here
    BY <1>1 DEF Here
  <2>2. Hanging'
    BY <1>1 DEF Placed, Hanging
  <2>3. After(l, Standing[Len(read)], Headings, Listings)
          = IF article' = None THEN Nowhere ELSE nodes'[Here'].locator
    BY <1>0, <1>1, <1>2, <1>3, <2>1
  <2> QED BY <1>1, <2>2, <2>3 DEF Moves
<1> QED BY <1>1, <1>4, <1>5 DEF ReadStep

\* A heading always makes a node.
LEMMA Heading_Step ==
    ASSUME TreeInv, TreeInv', Placed, ~Clash(nodes), NEW l \in Lines,
           l.kind \in {"chapter", "article", "word", "annex"},
           NEW parent \in {Root, ArticleParent}, l.kind = "chapter" => parent = Root,
           NEW x \in Locator, x = NextPlace(l),
           TypeOf(x) \in {"CHAPTER", "ARTICLE", "ANNEX"},
           TypeOf(x) = "ARTICLE" <=> IsHeading(l),
           l.kind # "chapter" => parent = ArticleParent,
           nodes' = MakeNode(nodes, parent, x, Words(l))
    PROVE  LET at == Len(nodes) + 1 IN
           GrowsTo(l, nodes', at) /\ nodes'[at].locator = x /\ at # None
<1> DEFINE at == Len(nodes) + 1
           later == nodes'
<1>1. /\ Grown(nodes) /\ Grown(later) /\ Root \in DOMAIN nodes /\ Len(nodes) \in Nat
  BY DEF TreeInv, Grown
<1>2. /\ Filled(nodes, later, at, Words(l))
      /\ at \notin DOMAIN nodes /\ DOMAIN later = DOMAIN nodes \cup {at}
      /\ later[at].locator = x /\ later[at].parent = parent
  <2>1. Added(nodes, later, at, parent, x, Words(l))
    BY <1>1, MakeNode_Filled
  <2> HIDE DEF later, at
  <2> QED BY <2>1 DEF Added
<1>3. at # None /\ at # Root
  <2>1. at # Root
    BY <1>1, <1>2
  <2> QED BY <1>1, <2>1 DEF None
<1>4. parent = Root <=> NextTop(l)
  <2>1. chapter # None => chapter # Root
    BY DEF TreeInv, Current, Grown
  <2>2. chapter = None <=> \A h \in DOMAIN read : read[h].kind # "chapter"
    BY DEF Placed, TopsAgree
  <2> QED BY <2>1, <2>2 DEF ArticleParent, NextTop
<1>5. NextNames(l) /\ Kept(l, at) = Words(l)
  <2>1. Kept(l, at) = Said(l)
    BY <1>2, Kept_New
  <2> QED BY <2>1 DEF NextNames, Said
<1> HIDE DEF later, at
<1>6. Spelled(later)
  <2>1. SpelledAt(later, at)
    BY <1>2 DEF SpelledAt
  <2> QED BY <1>1, <1>2, <2>1, Spelled_Later DEF Placed
<1>7. Clash(later) => \E k \in DOMAIN nodes : nodes[k].locator = x
  BY <1>1, <1>2, New_NoClash, Filled_Extends
<1>8. GrowsTo(l, later, at)
  BY <1>2, <1>3, <1>4, <1>5, <1>6, <1>7 DEF GrowsTo, NameTypes
<1> QED BY <1>2, <1>3, <1>8 DEF later, at

LEMMA Chapter_Step ==
    ASSUME TreeInv, TreeInv', Placed, ~Clash(nodes), NEW l \in Lines, Chapter(l)
    PROVE  \E at : ReadStep(l, at)
<1> DEFINE x == ChapterNumber(l)
           at == Len(nodes) + 1
<1>1. /\ l.kind = "chapter" /\ Reads(l) /\ simple' = simple /\ chapter' = at
      /\ article' = None /\ paragraph' = None /\ clause' = None
      /\ nodes' = MakeNode(nodes, Root, x, Words(l))
  BY DEF Chapter
<1>2. x \in Locator /\ TypeOf(x) = "CHAPTER"
  BY Lines_Shape DEF ChapterNumber, Loc, Locator, TypeOf
<1>3. x = NextPlace(l) /\ ~IsHeading(l)
  BY <1>1 DEF NextPlace, IsHeading
<1> HIDE DEF x
<1>4. GrowsTo(l, nodes', at) /\ at # None
  BY <1>1, <1>2, <1>3, Heading_Step
<1> HIDE DEF at
<1>5. After(l, Standing[Len(read)], Headings, Listings) = Nowhere
  BY <1>1 DEF After, IsHeading
<1>6. Moves(l)
  BY <1>1, <1>4, <1>5 DEF Moves, Hanging
<1> QED BY <1>1, <1>4, <1>6 DEF ReadStep

LEMMA Article_Step ==
    ASSUME TreeInv, TreeInv', Placed, ~Clash(nodes), NEW l \in Lines, Article(l)
    PROVE  \E at : ReadStep(l, at)
<1> DEFINE x == ArticleNumber(l)
           at == Len(nodes) + 1
<1>1. /\ l.kind \in {"article", "word"} /\ Reads(l) /\ simple' = simple /\ chapter' = chapter
      /\ article' = at /\ paragraph' = None /\ clause' = None
      /\ nodes' = MakeNode(nodes, ArticleParent, x, Words(l))
  BY DEF Article
<1>2. x \in Locator /\ TypeOf(x) = "ARTICLE"
  BY Lines_Shape DEF ArticleNumber, Loc, Locator, TypeOf
<1>3. /\ x = NextPlace(l) /\ IsHeading(l)
      /\ After(l, Standing[Len(read)], Headings, Listings) = x
  BY <1>1 DEF NextPlace, IsHeading, After
<1> HIDE DEF x
<1>4. GrowsTo(l, nodes', at) /\ at # None /\ nodes'[at].locator = x
  BY <1>1, <1>2, <1>3, Heading_Step
<1> HIDE DEF at
<1>5. Here' = at
  BY <1>1 DEF Here
<1>6. Moves(l)
  BY <1>1, <1>3, <1>4, <1>5 DEF Moves, Hanging
<1> QED BY <1>1, <1>4, <1>6 DEF ReadStep

LEMMA Annex_Step ==
    ASSUME TreeInv, TreeInv', Placed, ~Clash(nodes), NEW l \in Lines, Annex(l)
    PROVE  \E at : ReadStep(l, at)
<1> DEFINE top == Cardinality(TopNodes(nodes))
           x == Loc("annex", <<top + 1>>, 0)
           at == Len(nodes) + 1
<1>1. /\ l.kind = "annex" /\ Reads(l) /\ simple' = simple /\ chapter' = chapter
      /\ article' = None /\ paragraph' = None /\ clause' = None
      /\ nodes' = MakeNode(nodes, ArticleParent, x, Words(l))
  BY DEF Annex, TopNodes
<1>2. x \in Locator /\ TypeOf(x) = "ANNEX"
  <2>1. top \in Nat
    BY TopNodes_Finite DEF TreeInv
  <2> HIDE DEF top
  <2> QED BY <2>1 DEF Loc, Locator, TypeOf
<1>3. x = NextPlace(l) /\ ~IsHeading(l)
  <2>1. top = Cardinality(TopLines(Len(read)))
    BY DEF Placed, TopsAgree
  <2> HIDE DEF top
  <2> QED BY <1>1, <2>1 DEF NextPlace, IsHeading
<1> HIDE DEF x
<1>4. GrowsTo(l, nodes', at) /\ at # None
  BY <1>1, <1>2, <1>3, Heading_Step
<1> HIDE DEF at
<1>5. After(l, Standing[Len(read)], Headings, Listings) = Nowhere
  BY <1>1 DEF After, IsHeading
<1>6. Moves(l)
  BY <1>1, <1>4, <1>5 DEF Moves, Hanging
<1> QED BY <1>1, <1>4, <1>6 DEF ReadStep

\* A line whose provision has been found or made by its number.
LEMMA Found_Step ==
    ASSUME TreeInv, NEW l \in Lines, NEW later, Grown(later), ~Clash(later), Spelled(later),
           ~NextNames(l),
           NEW at \in DOMAIN later, TypeOf(later[at].locator) # "DOCUMENT",
           Filled(nodes, later, at, Kept(l, at)),
           later[at].locator = NextPlace(l),
           \A k \in DOMAIN later \ DOMAIN nodes : TypeOf(later[k].locator) \in {"PARAGRAPH", "CLAUSE"}
    PROVE  GrowsTo(l, later, at) /\ at # None /\ at # Root
<1>1. /\ at # None /\ at # Root
  BY Grown_Locator DEF None, Grown
<1>2. ~NextTop(l)
  BY DEF NextTop, NextNames
<1>3. ASSUME NEW k \in DOMAIN later \ DOMAIN nodes PROVE later[k].parent # Root
  <2>1. TypeOf(later[k].locator) \in {"PARAGRAPH", "CLAUSE"}
    BY <1>3
  <2>2. "DOCUMENT" \notin AllowedParents(TypeOf(later[k].locator))
    BY <2>1 DEF AllowedParents
  <2>3. k # Root
    BY <2>1 DEF Grown
  <2> QED BY <1>3, <2>2, <2>3 DEF Grown
<1> QED BY <1>1, <1>2, <1>3 DEF GrowsTo, NameTypes

\* A line that is added to a provision, also to one that was just made, keeps
\* names and places.
LEMMA Texts_Keep ==
    ASSUME NEW tree, Grown(tree), Spelled(tree), ~Clash(tree),
           Filled(nodes, tree, None, {}),
           NEW at \in DOMAIN tree, NEW later, Grown(later),
           NEW l, l.kind # "chrome", later = AppendText(tree, at, l)
    PROVE  /\ Filled(tree, later, at, Kept(l, at)) /\ DOMAIN later = DOMAIN tree
           /\ Spelled(later) /\ ~Clash(later)
<1>0. tree[at].text = Held(at)
  BY Grown_Locator DEF Filled, Held, None
<1>1. Filled(tree, later, at, Kept(l, at)) /\ DOMAIN later = DOMAIN tree
  <2>1. NewWords(tree[at].text, l) = Kept(l, at)
    BY <1>0 DEF NewWords, Kept, Said
  <2> QED BY <2>1, AppendText_Filled
<1>2. Spelled(later)
  BY <1>1, Spelled_Later
<1>3. ~Clash(later)
  <2>1. \A k \in DOMAIN tree : later[k].locator = tree[k].locator
    BY <1>1 DEF Filled
  <2>2. Clash(later) <=> \E i, k \in DOMAIN later : i # k /\ later[i].locator = later[k].locator
    BY Clash_Is
  <2>3. ~\E i, k \in DOMAIN tree : i # k /\ tree[i].locator = tree[k].locator
    BY Clash_Is
  <2> QED BY <1>1, <2>1, <2>2, <2>3
<1> QED BY <1>1, <1>2, <1>3

LEMMA Continuation_Step ==
    ASSUME TreeInv, TreeInv', Placed, ~Clash(nodes), NEW l \in Lines, Continuation(l)
    PROVE  \E at : ReadStep(l, at)
<1> DEFINE s == Standing[Len(read)]
           at == IF article = None THEN None ELSE Here
<1>0. s = Standing[Len(read)]
  OBVIOUS
<1> HIDE DEF s
<1>1. IF article = None THEN s = Nowhere /\ Here = None
      ELSE /\ Here \in DOMAIN nodes \ {Root} /\ Here # None /\ s = nodes[Here].locator
           /\ s # Nowhere
  BY <1>0, Here_Is
<1>2. /\ l.kind = "plain" \/ (l.kind \in {"qualified", "simple"} /\ article = None)
      /\ Reads(l) /\ simple' = simple /\ chapter' = chapter /\ article' = article
      /\ paragraph' = paragraph /\ clause' = clause
      /\ nodes' = IF Here = None THEN nodes ELSE AppendText(nodes, Here, l)
  BY DEF Continuation, Here
<1>3. /\ ~NextNames(l) /\ ~IsHeading(l) /\ ~NextTop(l)
      /\ NextPlace(l) = s /\ After(l, s, Headings, Listings) = s
  BY <1>0, <1>1, <1>2 DEF NextNames, NextTop, IsHeading, NextPlace, After
<1>4. GrowsTo(l, nodes', at)
  <2>1. CASE article = None
    <3>1. nodes' = nodes /\ at = None
      BY <1>1, <1>2, <2>1
    <3>2. Filled(nodes, nodes, None, Kept(l, None))
      BY Grown_Locator DEF Filled, None, TreeInv
    <3>3. Spelled(nodes)
      BY DEF Placed
    <3> QED BY <1>1, <1>3, <2>1, <3>1, <3>2, <3>3 DEF GrowsTo
  <2>2. CASE article # None
    <3> DEFINE later == nodes'
    <3>1. at = Here /\ later = AppendText(nodes, Here, l) /\ l.kind # "chrome"
      BY <1>1, <1>2, <2>2
    <3>2. Filled(nodes, nodes, None, {})
      BY DEF Filled
    <3>3. Grown(nodes) /\ Grown(later) /\ Spelled(nodes)
      BY DEF TreeInv, Placed
    <3> HIDE DEF later, at
    <3>4. /\ Filled(nodes, later, at, Kept(l, at)) /\ DOMAIN later = DOMAIN nodes
          /\ Spelled(later) /\ ~Clash(later)
      BY <1>1, <2>2, <3>1, <3>2, <3>3, Texts_Keep
    <3>5. later[at].locator = s
      BY <1>1, <2>2, <3>1, <3>4 DEF Filled
    <3>6. TypeOf(later[at].locator) # "DOCUMENT"
      <4>1. AllowedParents("DOCUMENT") = {}
        BY DEF AllowedParents
      <4> QED BY <1>1, <2>2, <3>1, <3>3, <3>4, <4>1 DEF Grown
    <3>7. GrowsTo(l, later, at)
      BY <1>1, <1>3, <2>2, <3>1, <3>3, <3>4, <3>5, <3>6, Found_Step
    <3> QED BY <3>7 DEF later
  <2> QED BY <2>1, <2>2
<1>5. Moves(l)
  <2>1. Here' = Here
    BY <1>2 DEF Here
  <2>2. \A k \in DOMAIN nodes : nodes'[k].locator = nodes[k].locator
                                /\ nodes'[k].parent = nodes[k].parent
    BY <1>4 DEF GrowsTo, Filled
  <2>3. Hanging'
    BY <1>2, <2>2 DEF Placed, Hanging, TreeInv, Current
  <2>4. After(l, Standing[Len(read)], Headings, Listings)
          = IF article' = None THEN Nowhere ELSE nodes'[Here'].locator
    BY <1>0, <1>1, <1>2, <1>3, <2>1, <2>2
  <2>5. simple' = simple \cup (IF l.kind = "simple" THEN {NextPlace(l)} \ {Nowhere} ELSE {})
    BY <1>1, <1>2, <1>3
  <2>6. l.kind # "chapter"
    BY <1>2
  <2> QED BY <1>2, <2>3, <2>4, <2>5, <2>6 DEF Moves
<1> QED BY <1>2, <1>4, <1>5 DEF ReadStep

LEMMA Append_Two ==
    ASSUME NEW s \in Seq(Nat), NEW n \in Nat, NEW t \in Seq(Nat),
           Len(t) = Len(s) + 1, \A i \in 1..Len(s) : t[i] = s[i], t[Len(s) + 1] = n
    PROVE  t = Append(s, n) /\ Append(s, n) \in Seq(Nat)
<1> DEFINE u == Append(s, n)
<1>1. u \in Seq(Nat) /\ Len(u) = Len(s) + 1 /\ u[Len(s) + 1] = n
      /\ \A i \in 1..Len(s) : u[i] = s[i]
  BY AppendProperties
<1> HIDE DEF u
<1>2. \A i \in 1..Len(t) : t[i] = u[i]
  <2>1. 1..Len(t) = 1..Len(s) \cup {Len(s) + 1}
    OBVIOUS
  <2> QED BY <1>1, <2>1
<1>3. t = u
  BY <1>1, <1>2, SeqEqual
<1> QED BY <1>1, <1>3 DEF u

\* The numbers of a qualified line, one by one.
LEMMA Path_Numbers ==
    ASSUME NEW l \in Lines, l.kind = "qualified"
    PROVE  /\ Len(l.path) \in 1..3 /\ l.path \in Seq(Nat) /\ l.num \in Seq(Nat)
           /\ \A i \in 1..Len(l.path) : l.path[i] \in Nat
           /\ Len(l.path) = 1 => /\ l.path = Append(<<>>, l.path[1])
                                 /\ l.num \o l.path = Append(l.num, l.path[1])
           /\ Len(l.path) = 2 => l.path = Append(Append(<<>>, l.path[1]), l.path[2])
           /\ Len(l.path) = 3 => /\ SubSeq(l.path, 1, 2) = Append(Append(<<>>, l.path[1]), l.path[2])
                                 /\ l.path = Append(SubSeq(l.path, 1, 2), l.path[3])
                                 /\ SubSeq(l.path, 1, 2) \in Seq(Nat)
<1> DEFINE p == l.path
           u == l.num
<1>1. p \in Seq(Nat) /\ u \in Seq(Nat) /\ Len(u) = 1 /\ Len(p) \in 1..3
      /\ \A i \in 1..Len(p) : p[i] \in Nat
  <2>1. l \in Line
    BY LinesAssumption
  <2> QED BY <2>1, LinesAssumption, Lines_Shape DEF Line
<1> HIDE DEF p, u
<1>2. ASSUME Len(p) = 1
      PROVE  p = Append(<<>>, p[1]) /\ u \o p = Append(u, p[1])
  <2>1. p = Append(<<>>, p[1]) /\ p[1] \in Nat
    BY <1>1, <1>2, One_Number
  <2> DEFINE t == u \o p
  <2>2. t \in Seq(Nat) /\ Len(t) = Len(u) + 1 /\ t[Len(u) + 1] = p[1]
        /\ \A i \in 1..Len(u) : t[i] = u[i]
    <3>1. t \in Seq(Nat) /\ Len(t) = 2
          /\ \A i \in 1..2 : t[i] = IF i <= Len(u) THEN u[i] ELSE p[i - Len(u)]
      <4>1. /\ t \in Seq(Nat) /\ Len(t) = Len(u) + Len(p)
            /\ \A i \in 1..(Len(u) + Len(p)) : t[i] = IF i <= Len(u) THEN u[i] ELSE p[i - Len(u)]
        BY <1>1, ConcatProperties
      <4>2. Len(u) + Len(p) = 2
        BY <1>1, <1>2
      <4> QED BY <4>1, <4>2
    <3> HIDE DEF t
    <3>2. t[1] = u[1] /\ t[2] = p[1]
      BY <1>1, <3>1
    <3> QED BY <1>1, <3>1, <3>2
  <2> HIDE DEF t
  <2>3. t = Append(u, p[1])
    BY <1>1, <2>1, <2>2, Append_Two
  <2> QED BY <2>1, <2>3 DEF t
<1>3. ASSUME NEW t \in Seq(Nat), Len(t) = 2, t[1] = p[1], t[2] = p[2], Len(p) \in 2..3
      PROVE  t = Append(Append(<<>>, p[1]), p[2])
  <2> DEFINE s == Append(<<>>, p[1])
  <2>1. p[1] \in Nat /\ p[2] \in Nat
    <3>1. 1 \in 1..Len(p) /\ 2 \in 1..Len(p)
      BY <1>3
    <3> QED BY <1>1, <3>1
  <2>2. s \in Seq(Nat) /\ Len(s) = 1 /\ s[1] = p[1]
    BY <2>1
  <2> HIDE DEF s
  <2>3. t = Append(s, p[2])
    <3>1. \A i \in 1..Len(s) : t[i] = s[i]
      BY <1>3, <2>2
    <3>2. Len(t) = Len(s) + 1 /\ t[Len(s) + 1] = p[2]
      BY <1>3, <2>2
    <3> QED BY <2>1, <2>2, <3>1, <3>2, Append_Two
  <2> QED BY <2>3 DEF s
<1>4. ASSUME Len(p) = 2
      PROVE  p = Append(Append(<<>>, p[1]), p[2])
  BY <1>1, <1>3, <1>4
<1>5. ASSUME Len(p) = 3
      PROVE  /\ SubSeq(p, 1, 2) = Append(Append(<<>>, p[1]), p[2])
             /\ p = Append(SubSeq(p, 1, 2), p[3]) /\ SubSeq(p, 1, 2) \in Seq(Nat)
  <2> DEFINE t == SubSeq(p, 1, 2)
  <2>1. t \in Seq(Nat) /\ Len(t) = 2 /\ t[1] = p[1] /\ t[2] = p[2]
    BY <1>1, <1>5
  <2> HIDE DEF t
  <2>2. t = Append(Append(<<>>, p[1]), p[2])
    BY <1>3, <1>5, <2>1
  <2>3. p[3] \in Nat /\ \A i \in 1..Len(t) : p[i] = t[i]
    BY <1>1, <1>5, <2>1
  <2>4. p = Append(t, p[3])
    <3>1. Len(p) = Len(t) + 1 /\ p[Len(t) + 1] = p[3]
      BY <1>5, <2>1
    <3> QED BY <1>1, <2>1, <2>3, <3>1, Append_Two
  <2> QED BY <2>1, <2>2, <2>4 DEF t
<1> QED BY <1>1, <1>2, <1>4, <1>5 DEF p, u

LEMMA Below_Path ==
    ASSUME NEW tree, Grown(tree), NEW p \in DOMAIN tree, NEW n \in Nat,
           NEW a \in Locator, NEW path \in Seq(Nat), tree[p].locator = Under(a, path)
    PROVE  Below(tree, p, n) = Under(a, Append(path, n))
<1> DEFINE l == tree[p].locator
           s == Append(path, n)
<1>1. l.path = path
  BY Under_Is
<1>2. Below(tree, p, n) = Under(l, s)
  <2>1. Below(tree, p, n) = Under(l, Append(l.path, n))
    BY Below_Under
  <2> QED BY <1>1, <2>1
<1>3. s \in Seq(Nat)
  OBVIOUS
<1> HIDE DEF s
<1>4. Under(Under(a, path), s) = Under(a, s)
  BY <1>3, Under_Under
<1> QED BY <1>2, <1>4 DEF s

\* Where a qualified line leaves the reader.
LEMMA Qualified_After ==
    ASSUME NEW l \in Lines, l.kind = "qualified", Standing[Len(read)] # Nowhere
    PROVE  After(l, Standing[Len(read)], Headings, Listings)
             = IF Len(l.path) = 1 /\ Under(ReadersArticle(l), l.num) \in Listings
               THEN Under(ReadersArticle(l), l.num \o l.path)
               ELSE Under(ReadersArticle(l), IF Len(l.path) = 3 THEN SubSeq(l.path, 1, 2)
                                             ELSE l.path)
<1> DEFINE s == Standing[Len(read)]
           art == IF Loc("art", l.num, l.bis) \in Headings THEN Loc("art", l.num, l.bis)
                  ELSE Under(s, <<>>)
<1>1. art = ReadersArticle(l)
  BY DEF ReadersArticle
<1> HIDE DEF s
<1>2. s # Nowhere /\ l.kind = "qualified"
  BY DEF s
<1>3. After(l, s, Headings, Listings)
             = IF Len(l.path) = 1 /\ Under(art, l.num) \in Listings
               THEN Under(art, l.num \o l.path)
               ELSE Under(art, IF Len(l.path) = 3 THEN SubSeq(l.path, 1, 2) ELSE l.path)
  <2> DEFINE x == IF Len(l.path) = 1 /\ Under(art, l.num) \in Listings
                  THEN Under(art, l.num \o l.path)
                  ELSE Under(art, IF Len(l.path) = 3 THEN SubSeq(l.path, 1, 2) ELSE l.path)
  <2>1. After(l, s, Headings, Listings) =
          CASE l.kind \in {"chapter", "annex"}     -> Nowhere
            [] IsHeading(l)                        -> ArticleNumber(l)
            [] l.kind = "simple" /\ s # Nowhere    -> Under(s, l.num)
            [] l.kind = "qualified" /\ s # Nowhere -> x
            [] OTHER                               -> s
    BY Zenon DEF After
  <2> HIDE DEF x, art
  <2>2. After(l, s, Headings, Listings) = x
    BY <1>2, <2>1 DEF IsHeading
  <2> QED BY <2>2 DEF x
<1> HIDE DEF art
<1> QED BY <1>1, <1>3 DEF s

LEMMA Simple_Step ==
    ASSUME TreeInv, TreeInv', Placed, ~Clash(nodes), NEW l \in Lines, Simple(l)
    PROVE  \E at : ReadStep(l, at)
<1> DEFINE n    == l.num[1]
           tree == Ensure(nodes, article, n)
           at   == Child(tree, article, Below(tree, article, n))
           a    == nodes[article].locator
           s    == Standing[Len(read)]
           later == nodes'
           x    == Under(a, l.num)
<1>1. /\ l.kind = "simple" /\ article # None /\ Reads(l)
      /\ later = AppendText(tree, at, l) /\ paragraph' = at /\ clause' = None
      /\ simple' = simple \cup {tree[at].locator} /\ chapter' = chapter /\ article' = article
  BY DEF Simple
<1>2. Grown(nodes) /\ Grown(later) /\ Spelled(nodes)
  BY DEF TreeInv, Placed
<1>3. n \in Nat /\ l.num \in Seq(Nat) /\ l.num = Append(<<>>, n)
  <2>1. l.num \in Seq(Nat) /\ Len(l.num) = 1
    BY <1>1, Lines_Shape
  <2> DEFINE u == l.num
  <2> HIDE DEF u
  <2>2. u \in Seq(Nat) /\ Len(u) = 1
    BY <2>1 DEF u
  <2>3. u = Append(<<>>, u[1]) /\ u[1] \in Nat
    BY <2>2, One_Number
  <2> QED BY <2>2, <2>3 DEF u
<1> HIDE DEF n
<1>4. /\ article \in DOMAIN nodes /\ TypeOf(a) = "ARTICLE" /\ s # Nowhere
      /\ s \in Locator /\ Under(s, <<>>) = a
  BY <1>1, Here_Is
<1>5. a \in Locator /\ a.at = "art" /\ a.path = <<>>
  BY <1>2, <1>4, Article_Path
<1> HIDE DEF s
<1>6. Below(nodes, article, n) = x /\ Under(s, l.num) = x
  <2>1. Under(Under(s, <<>>), l.num) = Under(s, l.num)
    <3>1. <<>> \in Seq(Nat)
      OBVIOUS
    <3> QED BY <1>3, <1>4, <3>1, Under_Under
  <2> QED BY <1>3, <1>4, <1>5, <2>1 DEF Below, Under
<1>7. /\ Filled(nodes, tree, None, {}) /\ Spelled(tree) /\ ~Clash(tree) /\ Grown(tree)
      /\ at \in DOMAIN tree /\ DOMAIN tree \subseteq DOMAIN nodes \cup {at}
      /\ tree[at].locator = x /\ tree[at].parent = article
  <2> HIDE DEF x, a
  <2>1. TypeOf(nodes[article].locator) \in {"ARTICLE", "PARAGRAPH"}
    BY <1>4 DEF a
  <2> QED BY <1>2, <1>3, <1>4, <1>6, <2>1, Ensure_Fills, Ensure_Grown
<1> HIDE DEF tree, at
<1>8. TypeOf(x) = "PARAGRAPH" /\ x # Nowhere
  <2>1. TypeOf(x) = "PARAGRAPH"
    BY <1>2, <1>3, <1>4, <1>6, Below_Type
  <2>2. x.at = "art"
    <3> HIDE DEF a
    <3> QED BY <1>3, <1>5, Under_Is
  <2> QED BY <2>1, <2>2 DEF Nowhere, Loc
<1> HIDE DEF x, later
<1>9. /\ Filled(tree, later, at, Kept(l, at)) /\ DOMAIN later = DOMAIN tree
      /\ Spelled(later) /\ ~Clash(later)
  BY <1>1, <1>2, <1>7, Texts_Keep
<1>10. Filled(nodes, later, at, Kept(l, at))
  <2>1. None \notin DOMAIN tree
    BY <1>7, Grown_Locator DEF None
  <2> QED BY <1>7, <1>9, <2>1, Filled_Then
<1>11. later[at].locator = x /\ later[at].parent = article
  BY <1>7, <1>9 DEF Filled
<1>12. /\ After(l, s, Headings, Listings) = x /\ NextPlace(l) = x
       /\ ~NextNames(l)
  <2>1. After(l, s, Headings, Listings) = x
    BY <1>1, <1>4, <1>6 DEF After, IsHeading
  <2>2. NextPlace(l) = x
    BY <1>1, <2>1 DEF NextPlace, s
  <2> QED BY <1>1, <2>1, <2>2 DEF NextNames
<1>13. GrowsTo(l, later, at) /\ at # None
  <2>1. \A k \in DOMAIN later \ DOMAIN nodes : TypeOf(later[k].locator) \in {"PARAGRAPH", "CLAUSE"}
    BY <1>7, <1>8, <1>9, <1>11
  <2> QED BY <1>2, <1>7, <1>8, <1>9, <1>10, <1>11, <1>12, <2>1, Found_Step
<1>14. Moves(l)
  <2>1. Here' = at
    BY <1>1, <1>13 DEF Here
  <2>2. Hanging'
    BY <1>1, <1>11 DEF Hanging, later
  <2>3. After(l, Standing[Len(read)], Headings, Listings)
          = IF article' = None THEN Nowhere ELSE nodes'[Here'].locator
    BY <1>1, <1>11, <1>12, <2>1 DEF s, later
  <2>4. simple' = simple \cup {x}
    BY <1>1, <1>7
  <2> QED BY <1>1, <1>8, <1>12, <2>2, <2>3, <2>4 DEF Moves
<1> QED BY <1>1, <1>13, <1>14 DEF ReadStep, later

LEMMA QualifiedClause_Step ==
    ASSUME TreeInv, TreeInv', Placed, ~Clash(nodes), NEW l \in Lines, QualifiedClause(l)
    PROVE  \E at : ReadStep(l, at)
<1> DEFINE numbered == SimpleParagraph(l)
           n    == l.path[1]
           tree == Ensure(nodes, numbered, n)
           at   == Child(tree, numbered, Below(tree, numbered, n))
           a    == ReadersArticle(l)
           s    == Standing[Len(read)]
           later == nodes'
           x    == Under(a, l.num \o l.path)
<1>1. /\ l.kind = "qualified" /\ article # None /\ Len(l.path) = 1 /\ numbered # None
      /\ Reads(l) /\ later = AppendText(tree, at, l)
      /\ article' = Target(l) /\ paragraph' = numbered /\ clause' = at
      /\ simple' = simple /\ chapter' = chapter
  BY DEF QualifiedClause
<1>2. Grown(nodes) /\ Grown(later) /\ Spelled(nodes)
  BY DEF TreeInv, Placed
<1>3. /\ n \in Nat /\ l.num \in Seq(Nat) /\ l.num \o l.path = Append(l.num, n)
      /\ Len(l.num) = 1 /\ l \in Line
  <2>1. 1 \in 1..Len(l.path)
    BY <1>1
  <2> QED BY <1>1, <2>1, Path_Numbers, Lines_Shape
<1> HIDE DEF n
<1>4. /\ s # Nowhere /\ Target(l) \in DOMAIN nodes /\ Target(l) # None
      /\ nodes[Target(l)].locator = a /\ TypeOf(nodes[Target(l)].locator) = "ARTICLE"
  <2>1. Target(l) \in DOMAIN nodes /\ TypeOf(nodes[Target(l)].locator) = "ARTICLE"
    BY <1>1, Target_Is
  <2>2. nodes[Target(l)].locator = a
    BY <1>1, <1>3, Target_Located
  <2>3. Target(l) # None
    BY <1>2, <2>1, Grown_Locator DEF None
  <2> QED BY <1>1, <2>1, <2>2, <2>3, Here_Is
<1>5. /\ nodes[numbered].locator = Under(a, l.num) /\ Under(a, l.num) \in Listings
      /\ nodes[numbered].parent = Target(l)
  BY <1>1, <1>3, SimpleParagraph_Located
<1>6. numbered \in DOMAIN nodes /\ TypeOf(nodes[numbered].locator) = "PARAGRAPH"
  BY <1>1, SimpleParagraph_Is DEF Current
<1> HIDE DEF numbered
<1>7. a \in Locator
  BY <1>2, <1>4, Grown_Locator
<1> HIDE DEF a
<1>8. Below(nodes, numbered, n) = x
  <2>1. Below(nodes, numbered, n) = Under(a, Append(l.num, n))
    BY <1>2, <1>3, <1>5, <1>6, <1>7, Below_Path
  <2> QED BY <1>3, <2>1
<1> HIDE DEF s, x
<1>9. /\ Filled(nodes, tree, None, {}) /\ Spelled(tree) /\ ~Clash(tree) /\ Grown(tree)
      /\ at \in DOMAIN tree /\ DOMAIN tree \subseteq DOMAIN nodes \cup {at}
      /\ tree[at].locator = x /\ tree[at].parent = numbered
  <2>1. TypeOf(nodes[numbered].locator) \in {"ARTICLE", "PARAGRAPH"}
    BY <1>6
  <2> QED BY <1>2, <1>3, <1>6, <1>8, <2>1, Ensure_Fills, Ensure_Grown
<1>10. TypeOf(x) = "CLAUSE"
  BY <1>2, <1>3, <1>6, <1>8, Below_Type
<1> HIDE DEF tree, at, later
<1>11. /\ Filled(tree, later, at, Kept(l, at)) /\ DOMAIN later = DOMAIN tree
       /\ Spelled(later) /\ ~Clash(later)
  BY <1>1, <1>2, <1>9, Texts_Keep
<1>12. Filled(nodes, later, at, Kept(l, at))
  <2>1. None \notin DOMAIN tree
    BY <1>9, Grown_Locator DEF None
  <2> QED BY <1>9, <1>11, <2>1, Filled_Then
<1>13. /\ later[at].locator = x /\ later[at].parent = numbered
       /\ later[numbered].parent = Target(l)
  BY <1>5, <1>6, <1>9, <1>11, <1>12 DEF Filled
<1>14. /\ After(l, s, Headings, Listings) = x /\ NextPlace(l) = x
       /\ ~NextNames(l)
  <2>1. After(l, s, Headings, Listings) = x
    BY <1>1, <1>4, <1>5, Qualified_After DEF s, x, a
  <2>2. NextPlace(l) = x
    BY <1>1, <2>1 DEF NextPlace, s
  <2> QED BY <1>1, <2>1, <2>2 DEF NextNames
<1>15. GrowsTo(l, later, at) /\ at # None
  <2>1. \A k \in DOMAIN later \ DOMAIN nodes : TypeOf(later[k].locator) \in {"PARAGRAPH", "CLAUSE"}
    BY <1>9, <1>10, <1>11, <1>13
  <2> QED BY <1>2, <1>9, <1>10, <1>11, <1>12, <1>13, <1>14, <2>1, Found_Step
<1>16. Moves(l)
  <2>1. Here' = at
    BY <1>1, <1>15 DEF Here
  <2>2. Hanging'
    BY <1>1, <1>4, <1>13 DEF Hanging, later
  <2>3. After(l, Standing[Len(read)], Headings, Listings)
          = IF article' = None THEN Nowhere ELSE nodes'[Here'].locator
    BY <1>1, <1>4, <1>13, <1>14, <2>1 DEF s, later
  <2> QED BY <1>1, <2>2, <2>3 DEF Moves
<1> QED BY <1>1, <1>15, <1>16 DEF ReadStep, later

LEMMA QualifiedParagraph_Step ==
    ASSUME TreeInv, TreeInv', Placed, ~Clash(nodes), NEW l \in Lines, QualifiedParagraph(l)
    PROVE  \E at : ReadStep(l, at)
<1> DEFINE target == Target(l)
           n      == Len(l.path)
           tree1  == Ensure(nodes, target, l.path[1])
           para   == Child(tree1, target, Below(tree1, target, l.path[1]))
           tree2  == IF n = 1 THEN tree1 ELSE Ensure(tree1, para, l.path[2])
           at     == IF n = 1 THEN None
                     ELSE Child(tree2, para, Below(tree2, para, l.path[2]))
           words  == Words(l)
           later  == nodes'
           a      == ReadersArticle(l)
           s      == Standing[Len(read)]
           after  == After(l, s, Headings, Listings)
           one    == Append(<<>>, l.path[1])
           two    == Append(one, l.path[2])
<1>1. /\ l.kind = "qualified" /\ article # None /\ Reads(l)
      /\ later = IF n = 1 THEN AppendText(tree2, para, l)
                 ELSE IF n = 2 THEN AppendText(tree2, at, l)
                 ELSE MakeNode(tree2, at, Below(tree2, at, l.path[3]), words)
      /\ article' = target /\ paragraph' = para /\ clause' = at
      /\ simple' = simple /\ chapter' = chapter
  BY DEF QualifiedParagraph
<1>2. n > 1 \/ SimpleParagraph(l) = None
  BY DEF QualifiedParagraph
<1>3. Grown(nodes) /\ Grown(later) /\ Spelled(nodes)
  BY DEF TreeInv, Placed
<1>4. /\ n \in 1..3 /\ l.path \in Seq(Nat) /\ l.num \in Seq(Nat) /\ Len(l.num) = 1 /\ l \in Line
      /\ l.path[1] \in Nat /\ (n # 1 => l.path[2] \in Nat) /\ (n = 3 => l.path[3] \in Nat)
      /\ n = 1 => l.path = one
      /\ n = 2 => l.path = two
      /\ n = 3 => SubSeq(l.path, 1, 2) = two /\ l.path = Append(two, l.path[3])
  <2>1. /\ n \in 1..3 /\ l.path \in Seq(Nat) /\ l.num \in Seq(Nat) /\ Len(l.num) = 1 /\ l \in Line
        /\ \A i \in 1..n : l.path[i] \in Nat
        /\ n = 1 => l.path = one
        /\ n = 2 => l.path = two
        /\ n = 3 => SubSeq(l.path, 1, 2) = two /\ l.path = Append(SubSeq(l.path, 1, 2), l.path[3])
    BY <1>1, Path_Numbers, Lines_Shape
  <2> HIDE DEF n, one, two
  <2>2. l.path[1] \in Nat /\ (n # 1 => l.path[2] \in Nat) /\ (n = 3 => l.path[3] \in Nat)
    BY <2>1
  <2> QED BY <2>1, <2>2
<1>5. one \in Seq(Nat) /\ (n # 1 => two \in Seq(Nat))
  <2>1. one \in Seq(Nat)
    BY <1>4
  <2> HIDE DEF one, n
  <2> QED BY <1>4, <2>1
<1>6. /\ s # Nowhere /\ target \in DOMAIN nodes /\ target # None
      /\ nodes[target].locator = a /\ TypeOf(nodes[target].locator) = "ARTICLE"
  <2>1. target \in DOMAIN nodes /\ TypeOf(nodes[target].locator) = "ARTICLE"
    BY <1>1, Target_Is
  <2>2. nodes[target].locator = a
    BY <1>1, <1>4, Target_Located
  <2>3. target # None
    BY <1>3, <2>1, Grown_Locator DEF None
  <2> QED BY <1>1, <2>1, <2>2, <2>3, Here_Is
<1>7. a \in Locator /\ a = Under(a, <<>>) /\ <<>> \in Seq(Nat)
  <2>1. a \in Locator /\ a.path = <<>>
    BY <1>3, <1>6, Article_Path
  <2> HIDE DEF a
  <2>2. <<>> \in Seq(Nat)
    OBVIOUS
  <2> QED BY <2>1, <2>2, Under_Under
<1>8. /\ n = 1 => after = Under(a, one)
      /\ n # 1 => after = Under(a, two)
  <2>1. after = IF n = 1 /\ Under(a, l.num) \in Listings
                THEN Under(a, l.num \o l.path)
                ELSE Under(a, IF n = 3 THEN SubSeq(l.path, 1, 2) ELSE l.path)
    BY <1>1, <1>6, Qualified_After
  <2>2. n = 1 => Under(a, l.num) \notin Listings
    BY <1>1, <1>2, <1>4, SimpleParagraph_Located
  <2>3. /\ n \in {1, 2, 3}
        /\ n = 1 => l.path = one
        /\ n = 2 => l.path = two
        /\ n = 3 => SubSeq(l.path, 1, 2) = two
    BY <1>4
  <2> DEFINE q == SubSeq(l.path, 1, 2)
  <2> HIDE DEF after, a, one, two, n, q
  <2>4. CASE n = 1
    BY <2>1, <2>2, <2>3, <2>4
  <2>5. CASE n = 2
    BY <2>1, <2>3, <2>5
  <2>6. CASE n = 3
    <3>1. after = Under(a, q)
      BY <2>1, <2>6 DEF q
    <3>2. q = two
      BY <2>3, <2>6 DEF q
    <3> QED BY <2>6, <3>1, <3>2
  <2>7. n = 1 \/ n = 2 \/ n = 3
    BY <2>3
  <2> QED BY <2>4, <2>5, <2>6, <2>7
<1>9. /\ NextPlace(l) = IF n = 3 THEN Under(after, l.path) ELSE after
      /\ NextNames(l) <=> n = 3
      /\ Said(l) = words /\ ~NextTop(l) /\ ~IsHeading(l)
  BY <1>1, <1>6 DEF NextPlace, NextNames, NextTop, Said, IsHeading
<1> HIDE DEF target, a, s, after, words, later
<1>10. /\ Filled(nodes, tree1, None, {}) /\ Spelled(tree1) /\ ~Clash(tree1) /\ Grown(tree1)
       /\ para \in DOMAIN tree1 /\ DOMAIN tree1 \subseteq DOMAIN nodes \cup {para}
       /\ tree1[para].locator = Under(a, one) /\ tree1[para].parent = target
       /\ TypeOf(tree1[para].locator) = "PARAGRAPH"
  <2>1. TypeOf(nodes[target].locator) \in {"ARTICLE", "PARAGRAPH"}
    BY <1>6
  <2>2. Below(nodes, target, l.path[1]) = Under(a, one)
    <3> DEFINE p == l.path[1]
    <3> HIDE DEF p
    <3>1. nodes[target].locator = Under(a, <<>>) /\ p \in Nat
      BY <1>4, <1>6, <1>7 DEF p
    <3>2. Below(nodes, target, p) = Under(a, Append(<<>>, p))
      BY <1>3, <1>6, <1>7, <3>1, Below_Path
    <3> QED BY <3>2 DEF p
  <2>3. /\ Filled(nodes, tree1, None, {}) /\ Spelled(tree1) /\ ~Clash(tree1)
        /\ para \in DOMAIN tree1 /\ DOMAIN tree1 \subseteq DOMAIN nodes \cup {para}
        /\ tree1[para].locator = Below(nodes, target, l.path[1]) /\ tree1[para].parent = target
    <3> DEFINE p == l.path[1]
    <3>1. Grown(nodes) /\ Spelled(nodes) /\ target \in DOMAIN nodes /\ p \in Nat
      BY <1>3, <1>4, <1>6
    <3>2. tree1 = Ensure(nodes, target, p) /\ para = Child(tree1, target, Below(tree1, target, p))
      OBVIOUS
    <3> HIDE DEF n, one, two, tree1, para, p
    <3>3. /\ Filled(nodes, tree1, None, {}) /\ Spelled(tree1) /\ ~Clash(tree1)
          /\ para \in DOMAIN tree1 /\ DOMAIN tree1 \subseteq DOMAIN nodes \cup {para}
          /\ tree1[para].locator = Below(nodes, target, p) /\ tree1[para].parent = target
      BY <2>1, <3>1, <3>2, Ensure_Fills
    <3> QED BY <3>3 DEF p
  <2>4. Grown(tree1) /\ TypeOf(tree1[para].locator) = "PARAGRAPH"
    <3> DEFINE p == l.path[1]
    <3>1. Grown(nodes) /\ target \in DOMAIN nodes /\ p \in Nat
      BY <1>3, <1>4, <1>6
    <3>2. tree1 = Ensure(nodes, target, p) /\ para = Child(tree1, target, Below(tree1, target, p))
      OBVIOUS
    <3> HIDE DEF n, one, two, tree1, para, p
    <3> QED BY <1>6, <2>1, <3>1, <3>2, Ensure_Grown
  <2> HIDE DEF tree1, para
  <2> QED BY <2>2, <2>3, <2>4
<1> HIDE DEF tree1, para
<1>11. None \notin DOMAIN tree1 /\ para # None
  BY <1>10, Grown_Locator DEF None
<1>12. CASE n = 1
  <2>1. later = AppendText(tree1, para, l) /\ at = None
    BY <1>1, <1>12
  <2> HIDE DEF tree2, at
  <2>2. /\ Filled(tree1, later, para, Kept(l, para)) /\ DOMAIN later = DOMAIN tree1
        /\ Spelled(later) /\ ~Clash(later)
    BY <1>1, <1>3, <1>10, <2>1, Texts_Keep
  <2>3. Filled(nodes, later, para, Kept(l, para))
    BY <1>10, <1>11, <2>2, Filled_Then
  <2>4. later[para].locator = Under(a, one) /\ later[para].parent = target
    BY <1>10, <2>2 DEF Filled
  <2>5. NextPlace(l) = Under(a, one) /\ ~NextNames(l) /\ after = Under(a, one)
    BY <1>8, <1>9, <1>12
  <2> HIDE DEF one, two, n
  <2>6. GrowsTo(l, later, para)
    <3>1. \A k \in DOMAIN later \ DOMAIN nodes : TypeOf(later[k].locator) \in {"PARAGRAPH", "CLAUSE"}
      BY <1>10, <2>2, <2>4
    <3> QED BY <1>3, <1>9, <1>10, <2>2, <2>3, <2>4, <2>5, <3>1, Found_Step
  <2>7. Moves(l)
    <3>1. Here' = para
      BY <1>1, <1>11, <2>1 DEF Here
    <3>2. Hanging'
      BY <1>1, <1>6, <2>1, <2>4 DEF Hanging, later
    <3>3. After(l, Standing[Len(read)], Headings, Listings)
            = IF article' = None THEN Nowhere ELSE nodes'[Here'].locator
      BY <1>1, <1>6, <2>4, <2>5, <3>1 DEF s, after, later
    <3> QED BY <1>1, <3>2, <3>3 DEF Moves
  <2> QED BY <1>1, <2>6, <2>7 DEF ReadStep, later
<1>13. CASE n # 1
  <2>1. /\ tree2 = Ensure(tree1, para, l.path[2])
        /\ at = Child(tree2, para, Below(tree2, para, l.path[2]))
    BY <1>13
  <2>2. /\ later = IF n = 2 THEN AppendText(tree2, at, l)
                   ELSE MakeNode(tree2, at, Below(tree2, at, l.path[3]), words)
        /\ clause' = at
    BY <1>1, <1>13
  <2> HIDE DEF tree2, at, one, two, n
  <2>3. two = Append(one, l.path[2])
    BY DEF two
  <2>4. /\ Filled(tree1, tree2, None, {}) /\ Spelled(tree2) /\ ~Clash(tree2) /\ Grown(tree2)
        /\ at \in DOMAIN tree2 /\ DOMAIN tree2 \subseteq DOMAIN tree1 \cup {at}
        /\ tree2[at].locator = Under(a, two) /\ tree2[at].parent = para
        /\ TypeOf(tree2[at].locator) = "CLAUSE"
    <3>1. TypeOf(tree1[para].locator) \in {"ARTICLE", "PARAGRAPH"}
      BY <1>10
    <3>2. Below(tree1, para, l.path[2]) = Under(a, two)
      BY <1>4, <1>5, <1>7, <1>10, <1>13, <2>3, Below_Path
    <3>3. /\ Filled(tree1, tree2, None, {}) /\ Spelled(tree2) /\ ~Clash(tree2)
          /\ at \in DOMAIN tree2 /\ DOMAIN tree2 \subseteq DOMAIN tree1 \cup {at}
          /\ tree2[at].locator = Below(tree1, para, l.path[2]) /\ tree2[at].parent = para
      BY <1>4, <1>10, <1>13, <2>1, <3>1, Ensure_Fills
    <3>4. Grown(tree2) /\ TypeOf(tree2[at].locator) = "CLAUSE"
      BY <1>4, <1>10, <1>13, <2>1, <3>1, Ensure_Grown
    <3> QED BY <3>2, <3>3, <3>4
  <2>5. None \notin DOMAIN tree2 /\ at # None /\ Filled(nodes, tree2, None, {})
    <3>1. None \notin DOMAIN tree2
      BY <2>4, Grown_Locator DEF None
    <3> QED BY <1>10, <1>11, <2>4, <3>1, Filled_Then
  <2>6. /\ para \in DOMAIN tree2 /\ tree2[para].parent = target
        /\ TypeOf(tree2[para].locator) = "PARAGRAPH"
        /\ DOMAIN tree2 \subseteq DOMAIN nodes \cup {para, at}
    BY <1>10, <2>4 DEF Filled
  \* What both longer forms move.
  <2>7. ASSUME later[at].locator = Under(a, two), later[at].parent = para,
               later[para].parent = target
        PROVE  Moves(l)
    <3>1. Here' = at
      BY <2>2, <2>5 DEF Here
    <3>2. Hanging'
      BY <1>1, <1>6, <1>11, <2>2, <2>7 DEF Hanging, later
    <3>3. After(l, Standing[Len(read)], Headings, Listings)
            = IF article' = None THEN Nowhere ELSE nodes'[Here'].locator
      BY <1>1, <1>6, <1>8, <1>13, <2>7, <3>1 DEF s, after, later
    <3> QED BY <1>1, <3>2, <3>3 DEF Moves
  <2>8. CASE n = 2
    <3>1. later = AppendText(tree2, at, l)
      BY <2>2, <2>8
    <3>2. /\ Filled(tree2, later, at, Kept(l, at)) /\ DOMAIN later = DOMAIN tree2
          /\ Spelled(later) /\ ~Clash(later)
      BY <1>1, <1>3, <2>4, <2>5, <3>1, Texts_Keep
    <3>3. Filled(nodes, later, at, Kept(l, at))
      BY <2>5, <3>2, Filled_Then
    <3>4. /\ later[at].locator = Under(a, two) /\ later[at].parent = para
          /\ later[para].parent = target /\ TypeOf(later[para].locator) = "PARAGRAPH"
          /\ TypeOf(later[at].locator) = "CLAUSE"
      BY <2>4, <2>6, <3>2 DEF Filled
    <3>5. NextPlace(l) = Under(a, two) /\ ~NextNames(l)
      BY <1>8, <1>9, <2>8
    <3>6. GrowsTo(l, later, at)
      <4>1. \A k \in DOMAIN later \ DOMAIN nodes : TypeOf(later[k].locator) \in {"PARAGRAPH", "CLAUSE"}
        BY <2>6, <3>2, <3>4
      <4> QED BY <1>3, <1>9, <2>4, <3>2, <3>3, <3>4, <3>5, <4>1, Found_Step
    <3> QED BY <1>1, <2>7, <3>4, <3>6 DEF ReadStep, later
  <2>9. CASE n = 3
    <3> DEFINE new == Len(tree2) + 1
               x == Below(tree2, at, l.path[3])
    <3>1. later = MakeNode(tree2, at, x, words)
      BY <2>2, <2>9
    <3>2. x = Under(a, l.path) /\ TypeOf(x) = "SUB_CLAUSE"
      <4>1. x = Under(a, Append(two, l.path[3]))
        BY <1>4, <1>5, <1>7, <1>13, <2>4, <2>9, Below_Path
      <4>2. TypeOf(x) = "SUB_CLAUSE"
        BY <1>4, <2>4, <2>9, Below_Type
      <4> HIDE DEF x
      <4> QED BY <1>4, <2>9, <4>1, <4>2
    <3>3. NextPlace(l) = x /\ NextNames(l)
      <4>1. Under(Under(a, two), l.path) = Under(a, l.path)
        BY <1>4, <1>5, <1>7, <1>13, Under_Under
      <4> HIDE DEF x
      <4> QED BY <1>8, <1>9, <1>13, <2>9, <3>2, <4>1
    <3>4. Spelled(later)
      BY <1>3, <1>4, <2>4, <2>9, <3>1, Below_Spelled
    <3> HIDE DEF x
    <3>5. /\ Filled(tree2, later, new, words) /\ new \notin DOMAIN tree2
          /\ DOMAIN later = DOMAIN tree2 \cup {new}
          /\ later[new].locator = x /\ later[new].parent = at
      <4>1. Added(tree2, later, new, at, x, words)
        BY <2>4, <3>1, MakeNode_Filled
      <4> HIDE DEF new
      <4> QED BY <4>1 DEF Added
    <3> HIDE DEF new
    <3>6. Filled(nodes, later, new, Kept(l, new))
      <4>1. new \notin DOMAIN nodes
        BY <2>5, <3>5 DEF Filled
      <4>2. Kept(l, new) = words
        BY <1>9, <4>1, Kept_New
      <4> QED BY <2>5, <3>5, <4>2, Filled_Then
    <3>7. /\ later[at].locator = Under(a, two) /\ later[at].parent = para
          /\ later[para].parent = target /\ TypeOf(later[para].locator) = "PARAGRAPH"
          /\ TypeOf(later[at].locator) = "CLAUSE"
      BY <2>4, <2>6, <3>5 DEF Filled
    <3>8. Root \in DOMAIN nodes /\ new # Root /\ at # Root /\ para # Root /\ target # Root
      <4>1. Root \in DOMAIN nodes /\ DOMAIN nodes \subseteq DOMAIN tree2
        BY <1>3, <2>5 DEF Grown, Filled
      <4> QED BY <1>3, <1>6, <2>4, <2>6, <3>5, <4>1 DEF Grown
    <3>9. new \in DOMAIN later \ DOMAIN nodes
      BY <2>5, <3>5 DEF Filled
    <3>10. ASSUME Clash(later) PROVE \E k \in DOMAIN nodes : nodes[k].locator = x
      <4>1. Extends(later, tree2)
        BY <3>5, Filled_Extends
      <4>2. PICK k \in DOMAIN tree2 : tree2[k].locator = x
        BY <1>3, <2>4, <3>5, <3>10, <4>1, New_NoClash
      <4>3. k # para /\ k # at
        BY <2>4, <2>6, <3>2, <4>2
      <4>4. k \in DOMAIN nodes
        BY <2>6, <4>2, <4>3
      <4> QED BY <2>5, <4>2, <4>4 DEF Filled
    <3>11. GrowsTo(l, later, new)
      <4>1. ASSUME NEW k \in DOMAIN later \ DOMAIN nodes
            PROVE  /\ (k = new /\ NextNames(l)) \/ TypeOf(later[k].locator) \notin NameTypes
                   /\ later[k].parent = Root <=> k = new /\ NextTop(l)
        <5>1. k \in {para, at, new}
          BY <2>6, <3>5, <4>1
        <5> QED BY <1>9, <3>3, <3>5, <3>7, <3>8, <5>1 DEF NameTypes
      <4>2. new # None /\ new # Root
        BY <1>3, <3>8, <3>9, Grown_Locator DEF None
      <4>3. /\ TypeOf(x) \in NameTypes
            /\ TypeOf(x) = "ARTICLE" <=> IsHeading(l)
        BY <1>9, <3>2 DEF NameTypes
      <4> QED BY <1>9, <3>3, <3>4, <3>5, <3>6, <3>9, <3>10, <4>1, <4>2, <4>3 DEF GrowsTo
    <3> QED BY <1>1, <2>7, <3>7, <3>11 DEF ReadStep, later
  <2> QED BY <1>4, <1>13, <2>8, <2>9
<1> QED BY <1>12, <1>13

-----------------------------------------------------------------------------
(* The invariant and what follows from it.                                 *)

LEMMA GateInv_Init == TreeInit => GateInv
<1> SUFFICES ASSUME TreeInit PROVE GateInv
  OBVIOUS
<1> DEFINE root == [parent |-> None, locator |-> Nowhere, text |-> {}]
<1>1. /\ read = <<>> /\ nodes = <<root>> /\ simple = {}
      /\ chapter = None /\ article = None /\ paragraph = None /\ clause = None
  BY DEF TreeInit, Nowhere
<1>2. root.parent = None /\ root.locator = Nowhere
  OBVIOUS
<1> HIDE DEF root
<1>3. /\ DOMAIN nodes = {Root} /\ nodes[Root].parent = None /\ nodes[Root].locator = Nowhere
      /\ Len(read) = 0 /\ DOMAIN read = {}
  BY <1>1, <1>2 DEF Root
<1>4. TypeOf(Nowhere) = "DOCUMENT"
  BY DEF Nowhere, Loc, TypeOf
<1>5. ~Clash(nodes) /\ ~NamedTwice
  BY <1>3 DEF Clash, NamedTwice, Root
<1>6. Spelled(nodes) /\ Hanging /\ PlacesAreNodes /\ TextsArePlaced /\ NodesAreNamed
  BY <1>1, <1>3 DEF Spelled, Hanging, PlacesAreNodes, TextsArePlaced, NodesAreNamed
<1>7. StandsHere
  <2>1. Len(read) \in Nat
    BY <1>3
  <2>2. Follows(Standing, read, Len(read))
    BY <2>1, Reading_Is, Standing_Reading
  <2>3. Standing[0] = Stand(read, Standing, 0)
    <3>1. 0 \in 0..Len(read)
      BY <1>3
    <3> QED BY <2>2, <3>1, Zenon DEF Follows
  <2>4. Standing[0] = Nowhere
    BY <2>3, Zenon DEF Stand
  <2> QED BY <1>1, <1>3, <2>4 DEF StandsHere
<1>8. ListsAgree
  <2>1. Headings = {} /\ Listings = {}
    BY <1>3 DEF Headings, Listings
  <2>2. {h \in DOMAIN nodes : IsArticle(h)} = {}
    BY <1>3, <1>4 DEF IsArticle
  <2>3. {nodes[k].locator : k \in {h \in DOMAIN nodes : IsArticle(h)}} = {}
    BY <2>2
  <2> QED BY <1>1, <2>1, <2>3 DEF ListsAgree
<1>9. TopsAgree
  <2>1. TopNodes(nodes) = {}
    BY <1>3 DEF TopNodes, Root, None
  <2>2. TopLines(Len(read)) = {}
    <3>1. 1..Len(read) = {}
      BY <1>3
    <3> QED BY <3>1 DEF TopLines
  <2> QED BY <1>1, <1>3, <2>1, <2>2 DEF TopsAgree
<1> QED BY <1>5, <1>6, <1>7, <1>8, <1>9 DEF GateInv, Placed

\* Whatever the next line is.  Once there is a clash it stays.
LEMMA GateInv_Line ==
    ASSUME TreeInv, GateInv, NEW l \in Lines,
           \/ Chrome(l) \/ Chapter(l) \/ Article(l) \/ Annex(l)
           \/ QualifiedClause(l) \/ QualifiedParagraph(l) \/ Simple(l) \/ Continuation(l)
    PROVE  GateInv'
<1>1. Reads(l) /\ TreeInv' /\ Extends(nodes', nodes) /\ l \in Line
  BY Tree_Step, Lines_Shape
<1>2. CASE Clash(nodes)
  BY <1>1, <1>2, Clash_Stays
<1>3. CASE ~Clash(nodes)
  <2>1. Placed
    BY <1>3 DEF GateInv
  <2>2. \E at : ReadStep(l, at)
    BY <1>1, <1>3, <2>1, Chrome_Step, Chapter_Step, Article_Step, Annex_Step,
       QualifiedClause_Step, QualifiedParagraph_Step, Simple_Step, Continuation_Step
  <2>3. PICK at : ReadStep(l, at)
    BY <2>2
  <2> QED BY <1>1, <1>3, <2>3, Step_Placed
<1> QED BY <1>2, <1>3

LEMMA GateInv_Same == GateInv /\ UNCHANGED treeVars => GateInv'
<1> SUFFICES ASSUME GateInv, UNCHANGED treeVars PROVE GateInv'
  OBVIOUS
<1>1. /\ read' = read /\ nodes' = nodes /\ chapter' = chapter /\ article' = article
      /\ paragraph' = paragraph /\ clause' = clause /\ simple' = simple
  BY DEF treeVars
<1>2. Standing' = Standing
  BY <1>1, Standing_Reading
<1>3. \A i : /\ (Names(i)' <=> Names(i)) /\ (Says(i)' <=> Says(i))
             /\ Place(i)' = Place(i) /\ TopLines(i)' = TopLines(i)
  <2>1. \A i : TopLines(i)' = TopLines(i)
    BY <1>1 DEF TopLines, IsHeading
  <2>2. \A i : IsSubClause(i)' <=> IsSubClause(i)
    BY <1>1, <1>2 DEF IsSubClause
  <2>3. \A i : (Names(i)' <=> Names(i)) /\ (Says(i)' <=> Says(i))
    BY <1>1, <2>2 DEF Names, Says, IsHeading
  <2>4. \A i : Place(i)' = Place(i)
    BY <1>1, <1>2, <2>1, <2>2 DEF Place
  <2> QED BY <2>1, <2>3, <2>4
<1>4. Clash(nodes)' <=> Clash(nodes)
  BY <1>1 DEF Clash
<1>5. NamedTwice' <=> NamedTwice
  <2>1. NamedTwice' <=> \E i, j \in DOMAIN read' :
                            i < j /\ Names(i)' /\ Names(j)' /\ Place(i)' = Place(j)'
    BY DEF NamedTwice, Names
  <2> QED BY <1>1, <1>3, <2>1, NamedTwice_Is
<1>6. ASSUME Placed PROVE Placed'
  <2> USE DEF Placed
  <2>1. Spelled(nodes)' /\ Hanging'
    BY <1>1, <1>6 DEF Spelled, Hanging, Below
  <2>2. StandsHere'
    BY <1>1, <1>2, <1>6 DEF StandsHere, Here
  <2>3. ListsAgree'
    <3>1. Headings' = Headings
      BY <1>1 DEF Headings
    <3>2. Listings' = Listings
      BY <1>1, <1>2 DEF Listings
    <3> QED BY <1>1, <1>6, <3>1, <3>2 DEF ListsAgree, IsArticle
  <2>4. PlacesAreNodes' /\ TextsArePlaced' /\ NodesAreNamed'
    <3>1. \A i, lines : SaidBefore(i, lines)' <=> SaidBefore(i, lines)
      BY <1>1 DEF SaidBefore, Repeats, Written
    <3> QED BY <1>1, <1>3, <1>6, <3>1 DEF PlacesAreNodes, TextsArePlaced, NodesAreNamed
  <2>5. TopsAgree'
    <3>1. Cardinality(TopNodes(nodes))' = Cardinality(TopNodes(nodes))
      BY <1>1 DEF TopNodes
    <3>2. Cardinality(TopLines(Len(read)))' = Cardinality(TopLines(Len(read)))
      BY <1>1 DEF TopLines, IsHeading
    <3> QED BY <1>1, <1>6, <3>1, <3>2 DEF TopsAgree
  <2> QED BY <2>1, <2>2, <2>3, <2>4, <2>5
<1> QED BY <1>4, <1>5, <1>6 DEF GateInv

(***************************************************************************)
(* Parser and reader agree after every line, whatever the document: a      *)
(* locator is there twice exactly when a heading or a sub-clause is named  *)
(* twice, and until then each place of the reader is one node, and each    *)
(* node holds the lines of its place, but those that the earlier of them   *)
(* include (legalinfo-html.parser.ts:95-263, 399-408).                     *)
(***************************************************************************)
THEOREM ParsedTree_GateInv == TreeSpec => []GateInv
<1>1. TreeInv /\ GateInv /\ [TreeNext]_treeVars => GateInv'
  BY GateInv_Line, GateInv_Same DEF TreeNext
<1> QED BY <1>1, GateInv_Init, ParsedTree_Inv, PTL DEF TreeSpec

(***************************************************************************)
(* What may be published holds each provision's own lines and no others,   *)
(* for documents of any length and any lines: however often the text comes *)
(* back to an earlier article, paragraph or clause, and in whichever style *)
(* of numbering.  What is lost on the way is lost for two reasons and no   *)
(* third: a line whose words the provision's earlier lines include is      *)
(* dropped, and a line without a place, before the first article or after  *)
(* the heading of a chapter or an annex, is kept nowhere                   *)
(* (legalinfo-html.parser.ts:95-263, 399-408).                             *)
(***************************************************************************)
THEOREM ParsedTree_TextIsInPlace == TreeSpec => []TextIsInPlace
<1>1. TreeInv /\ GateInv => TextIsInPlace
  <2> SUFFICES ASSUME TreeInv, GateInv, Accepted(nodes, TRUE, TRUE)
               PROVE  /\ TextsArePlaced
                      /\ \A i \in DOMAIN read : HasPlace(i) <=>
                            \E k \in DOMAIN nodes \ {Root} : nodes[k].locator = Place(i)
    BY DEF TextIsInPlace, TextsArePlaced
  <2>1. ~Clash(nodes)
    BY DEF Accepted, ConfidenceOk
  <2>2. TextsArePlaced /\ PlacesAreNodes
    BY <2>1 DEF GateInv, Placed
  <2>3. ASSUME NEW i \in DOMAIN read
        PROVE  HasPlace(i) <=> \E k \in DOMAIN nodes \ {Root} : nodes[k].locator = Place(i)
    <3>1. Grown(nodes) /\ read \in Seq(Line)
      BY DEF TreeInv
    <3>2. HasPlace(i) <=> Place(i) # Nowhere
      BY <3>1, HasPlace_Is
    <3>3. ASSUME NEW k \in DOMAIN nodes \ {Root}, nodes[k].locator = Place(i)
          PROVE  Place(i) # Nowhere
      BY <3>1, <3>3, Nowhere_Root
    <3>4. ASSUME Place(i) # Nowhere
          PROVE  \E k \in DOMAIN nodes \ {Root} : nodes[k].locator = Place(i)
      <4>1. PICK k \in DOMAIN nodes : nodes[k].locator = Place(i)
        BY <2>2, <3>4 DEF PlacesAreNodes
      <4>2. TypeOf(Place(i)) # "DOCUMENT"
        BY <3>1, <3>2, <3>4, HasPlace_Is
      <4> QED BY <3>1, <4>1, <4>2 DEF Grown
    <3> QED BY <3>2, <3>3, <3>4
  <2> QED BY <2>2, <2>3
<1> QED BY <1>1, ParsedTree_Inv, ParsedTree_GateInv, PTL

\* Of the checks of gate and confidence these are left.
LEMMA Accepted_Is ==
    ASSUME NEW tree, Grown(tree), NEW titled, NEW sameBytes
    PROVE  Accepted(tree, titled, sameBytes) <=> ConfidenceOk(tree, titled) /\ sameBytes
<1>1. Cardinality(DocumentParents(tree)) = 1 /\ \A k \in DOMAIN tree : ParentAllowed(tree, k)
  BY Grown_Structure
<1>2. ConfidenceOk(tree, titled) => ~Clash(tree)
  BY DEF ConfidenceOk
<1>3. GateReasons(tree, titled, sameBytes) = {} <=> ConfidenceOk(tree, titled) /\ sameBytes
  BY <1>1, <1>2 DEF GateReasons
<1> QED BY <1>3 DEF Accepted

(***************************************************************************)
(* Gate and confidence accept a document exactly for what it says: it has  *)
(* an article, none of number 0, and names no heading and no sub-clause    *)
(* twice; the parser never makes a clash of its own, and hides none        *)
(* (publication-gate.ts:24-113, confidence.ts:10-54, evaluate-version.ts). *)
(***************************************************************************)
THEOREM ParsedTree_VerdictFollowsLines == TreeSpec => []VerdictFollowsLines
<1>1. TreeInv /\ GateInv => VerdictFollowsLines
  <2> SUFFICES ASSUME TreeInv, GateInv PROVE VerdictFollowsLines
    OBVIOUS
  <2> DEFINE articles == {k \in DOMAIN nodes : TypeOf(nodes[k].locator) = "ARTICLE"}
             headed   == \E i \in DOMAIN read : IsHeading(read[i])
             numbered == \A i \in DOMAIN read :
                             IsHeading(read[i]) => read[i].num # <<0>> \/ ArticleNumber(read[i]).bis # 0
  <2>1. \A titled : ConfidenceOk(nodes, titled) <=>
            /\ titled /\ articles # {} /\ ~Clash(nodes)
            /\ \A k \in articles : nodes[k].locator.num = <<0>> => nodes[k].locator.bis # 0
    BY DEF ConfidenceOk
  <2>2. ASSUME ~Clash(nodes)
        PROVE  /\ articles # {} <=> headed
               /\ (\A k \in articles : nodes[k].locator.num = <<0>> => nodes[k].locator.bis # 0)
                    <=> numbered
    <3>1. {ArticleNumber(read[i]) : i \in {h \in DOMAIN read : IsHeading(read[h])}}
            = {nodes[k].locator : k \in articles}
      BY <2>2 DEF GateInv, Placed, ListsAgree, Headings, IsArticle
    <3>2. \A i \in DOMAIN read : ArticleNumber(read[i]).num = read[i].num
      BY DEF ArticleNumber, Loc
    <3> HIDE DEF articles
    <3>3. ASSUME NEW k \in articles
          PROVE  \E i \in DOMAIN read : IsHeading(read[i]) /\ ArticleNumber(read[i]) = nodes[k].locator
      BY <3>1
    <3>4. ASSUME NEW i \in DOMAIN read, IsHeading(read[i])
          PROVE  \E k \in articles : nodes[k].locator = ArticleNumber(read[i])
      BY <3>1, <3>4
    <3>5. articles # {} <=> headed
      BY <3>3, <3>4
    <3>6. (\A k \in articles : nodes[k].locator.num = <<0>> => nodes[k].locator.bis # 0)
            <=> numbered
      BY <3>2, <3>3, <3>4
    <3> QED BY <3>5, <3>6
  <2> HIDE DEF articles, headed, numbered
  <2>3. ASSUME NEW titled \in BOOLEAN, NEW sameBytes \in BOOLEAN
        PROVE  Accepted(nodes, titled, sameBytes) <=>
                   titled /\ sameBytes /\ headed /\ numbered /\ ~NamedTwice
    <3>1. Accepted(nodes, titled, sameBytes) <=> ConfidenceOk(nodes, titled) /\ sameBytes
      BY Accepted_Is DEF TreeInv
    <3>2. Clash(nodes) <=> NamedTwice
      BY DEF GateInv
    <3> QED BY <2>1, <2>2, <3>1, <3>2
  <2> QED BY <2>3 DEF VerdictFollowsLines, headed, numbered
<1> QED BY <1>1, ParsedTree_Inv, ParsedTree_GateInv, PTL
=============================================================================
