----------------------------- MODULE SourceFetch -----------------------------
(***************************************************************************)
(* How the data layer fetches a page of an outside source: the request     *)
(* cache (silk_cache.py), under it the retrying GET with its spacing per   *)
(* host (silk_data_layer.py), and the circuit breaker of the host          *)
(* (silk_circuit.py).  One host, one process with several threads, and the *)
(* cache directory, which other processes of the deployment write to.      *)
(*                                                                         *)
(*   fails, cool   the breaker: failures in a row, time left of the window *)
(*   next          time until the host's next free slot                    *)
(*   call          the call each thread is in                              *)
(*   file, life    a cached page: its content, and how long it counts      *)
(*   tmp           the file this process writes a page to before it is     *)
(*                 renamed: one per page, its name holds the process id    *)
(*   fd            what the file a thread is writing is called by now      *)
(*   crossed       history: the pages that two threads of this process     *)
(*                 wrote at once, and no thread has written alone since    *)
(* All clocks are distances from now, so time itself has no bound.         *)
(***************************************************************************)
EXTENDS Naturals, FiniteSets

CONSTANTS
    Threads,
    Pages,        \* addresses, all of one host
    Threshold,    \* SILK_CIRCUIT_THRESHOLD
    Cooldown,     \* SILK_CIRCUIT_COOLDOWN_S, in ticks
    Retries,      \* SILK_HTTP_RETRIES
    Gap,          \* _min_gap_ms, in ticks
    MaxWait,      \* SILK_HTTP_MAX_THROTTLE_WAIT_S, in ticks
    Objects,      \* the pages whose callers keep any JSON object
    Indexes       \* the pages whose caller gives no short life to any answer

ASSUME SourceFetchAssumption ==
    /\ {Threshold, Cooldown, Gap} \subseteq Nat \ {0}
    /\ {Retries, MaxWait} \subseteq Nat
    /\ Pages # {}
    /\ Objects \subseteq Pages /\ Indexes \subseteq Pages

VARIABLES fails, cool, next, call, file, life, tmp, fd, crossed

breaker == << fails, cool >>
disk == << file, life, tmp, fd, crossed >>
vars == << breaker, next, call, disk >>

(* "full" has rows, "empty" is a valid answer without rows, and "error" a  *)
(* JSON envelope that says why there is no answer.  A file "part" is cut   *)
(* short, and one that is "torn" has the texts of two answers and is no    *)
(* JSON; two texts of which a part of each makes JSON again count as one.  *)
Payload == {"full", "empty", "error"}
OnDisk == {"none", "part", "torn"} \cup Payload

NoCall == [pc |-> "idle", page |-> CHOOSE p \in Pages : TRUE, tries |-> 0,
           wait |-> 0, sent |-> 0, body |-> "error"]

TypeOK ==
    /\ fails \in 0 .. Threshold /\ cool \in 0 .. Cooldown
    /\ next \in 0 .. MaxWait + Gap
    /\ call \in [Threads -> [pc : {"idle", "check", "half", "slot", "asleep", "wire",
                                   "got", "open", "rename", "age"},
                             page : Pages, tries : 0 .. Retries + 1,
                             wait : 0 .. MaxWait, sent : 0 .. Retries + 2,
                             body : Payload]]
    /\ file \in [Pages -> OnDisk] /\ tmp \in [Pages -> OnDisk]
    /\ life \in [Pages -> {"stale", "short", "long"}]
    /\ fd \in [Threads -> {"none", "tmp", "file", "gone"}]
    /\ crossed \subseteq Pages

Init ==
    /\ fails = 0 /\ cool = 0 /\ next = 0
    /\ call = [t \in Threads |-> NoCall]
    /\ file = [p \in Pages |-> "none"] /\ tmp = [p \in Pages |-> "none"]
    /\ life = [p \in Pages |-> "stale"]
    /\ fd = [t \in Threads |-> "none"]
    /\ crossed = {}

At(t, pc) == call[t].pc = pc
Goto(t, pc) ==
    call' = [call EXCEPT ![t] = IF pc = "idle" THEN NoCall ELSE [@ EXCEPT !.pc = pc]]
Page(t) == call[t].page
Less(n) == IF n = 0 THEN 0 ELSE n - 1

-----------------------------------------------------------------------------
(* The circuit breaker. *)

Tripped == fails >= Threshold

IsOpen == Tripped /\ cool > 0

HalfOpen == Tripped /\ cool = 0

(* The count is not read above the threshold, and is kept there. *)
RecordFailure ==
    /\ fails' = IF Tripped THEN fails ELSE fails + 1
    /\ cool' = IF fails' >= Threshold THEN Cooldown ELSE cool

RecordSuccess == fails' = 0 /\ cool' = 0

-----------------------------------------------------------------------------
(* cached_get: a page that is fresh and readable is served, which changes  *)
(* nothing here; any other is fetched.                                     *)

Readable(c) == c \in Payload

Served(p) == life[p] # "stale" /\ Readable(file[p])

Ask(t) ==
    /\ At(t, "idle")
    /\ \E p \in Pages :
           /\ ~Served(p)
           /\ call' = [call EXCEPT ![t] = [NoCall EXCEPT !.pc = "check", !.page = p]]
    /\ UNCHANGED << breaker, next, disk >>

(* The fetch failed: this call is over, and its caller gets the sentinel,  *)
(* or None.  A caller that asks again, as _public_indicator does up to     *)
(* three times, makes another call of it.                                  *)
AfterFailure == "idle"

-----------------------------------------------------------------------------
(* _http_get: the breaker is asked twice, each time under its lock.        *)

Mut_Refuse == RecordFailure
Refuse == UNCHANGED breaker     \* CircuitOpen: no request, and no failure counted

CheckOpen(t) ==
    /\ At(t, "check")
    /\ IF IsOpen THEN Goto(t, AfterFailure) /\ Refuse
                 ELSE Goto(t, "half") /\ UNCHANGED breaker
    /\ UNCHANGED << next, disk >>

CheckHalf(t) ==
    /\ At(t, "half")
    /\ call' = [call EXCEPT ![t].pc = "slot",
                            ![t].tries = IF HalfOpen THEN 1 ELSE Retries + 1]
    /\ UNCHANGED << breaker, next, disk >>

(* _throttle: take the host's next slot, or none if it is too far away. *)
Mut_NextSlot == Gap
NextSlot == next + Gap

Mut_TooFar == FALSE
TooFar == next > MaxWait

Throttle(t) ==
    /\ At(t, "slot")
    /\ IF TooFar
       THEN Goto(t, AfterFailure) /\ UNCHANGED next
       ELSE /\ next' = NextSlot
            /\ call' = [call EXCEPT ![t].pc = "asleep", ![t].wait = next]
    /\ UNCHANGED << breaker, disk >>

(* A sleep ends no earlier than it should. *)
Send(t) ==
    /\ At(t, "asleep") /\ call[t].wait = 0
    /\ call' = [call EXCEPT ![t].pc = "wire", ![t].tries = @ - 1,
                            ![t].sent = IF @ > Retries + 1 THEN @ ELSE @ + 1]
    /\ UNCHANGED << breaker, next, disk >>

(* No answer: the connection fails or times out. *)
NoAnswer(t) ==
    /\ At(t, "wire")
    /\ RecordFailure
    /\ Goto(t, AfterFailure)
    /\ UNCHANGED << next, disk >>

(* 429 or 5xx: another attempt while there is one, after a pause of random *)
(* length: the thread takes its next slot when it takes it.                *)
Busy(t) ==
    /\ At(t, "wire")
    /\ IF call[t].tries > 0
       THEN Goto(t, "slot") /\ UNCHANGED breaker
       ELSE Goto(t, AfterFailure) /\ RecordFailure
    /\ UNCHANGED << next, disk >>

(* Any other status counts as the host's recovery, an error status too,    *)
(* which raise_for_status then turns into a failed fetch.                  *)
Answered(t) ==
    /\ At(t, "wire")
    /\ RecordSuccess
    /\ \/ Goto(t, AfterFailure)
       \/ \E b \in Payload : call' = [call EXCEPT ![t].pc = "got", ![t].body = b]
    /\ UNCHANGED << next, disk >>

-----------------------------------------------------------------------------
(* cached_get: keep the page, if its caller would.  The World Bank's       *)
(* callers refuse an error envelope, Comtrade's, the IMF's and the WTO's   *)
(* keep any JSON object, an envelope too.  What is no answer with rows     *)
(* gets a short life, except for the index of the indicators.              *)

Cacheable(p, b) == b # "error" \/ p \in Objects

Mut_ShortLived(p, b) == FALSE
ShortLived(p, b) == b # "full" /\ p \notin Indexes

(* The threads between the open and the rename of a page. *)
Writers(p) == {t \in Threads : Page(t) = p /\ (At(t, "open") \/ At(t, "rename"))}

(* open() truncates the file of that name, whoever is writing it; the text *)
(* is all there when it is closed; os.replace gives it the page's name.    *)
OpenTmp(t) ==
    /\ At(t, "got")
    /\ IF Cacheable(Page(t), call[t].body)
       THEN /\ tmp' = [tmp EXCEPT ![Page(t)] = "part"]
            /\ fd' = [fd EXCEPT ![t] = "tmp"]
            /\ crossed' = IF Writers(Page(t)) = {} THEN crossed ELSE crossed \cup {Page(t)}
            /\ Goto(t, "open")
       ELSE Goto(t, "idle") /\ UNCHANGED << tmp, fd, crossed >>
    /\ UNCHANGED << breaker, next, file, life >>

(* Two who have one file open write each from where it stands, so that the *)
(* text of one may stick out of the other's.                               *)
Left(t, old) ==
    IF old = "part" /\ \A u \in Threads \ {t} : Page(u) = Page(t) => fd[u] # fd[t]
    THEN {call[t].body} ELSE {call[t].body, "torn"}

CloseTmp(t) ==
    /\ At(t, "open")
    /\ \/ /\ fd[t] = "tmp"
          /\ \E c \in Left(t, tmp[Page(t)]) : tmp' = [tmp EXCEPT ![Page(t)] = c]
          /\ UNCHANGED << file, life >>
       \/ /\ fd[t] = "file"
          /\ \E c \in Left(t, file[Page(t)]) : file' = [file EXCEPT ![Page(t)] = c]
          /\ life' = [life EXCEPT ![Page(t)] = "long"]
          /\ UNCHANGED tmp
       \/ fd[t] = "gone" /\ UNCHANGED << file, life, tmp >>
    /\ fd' = [fd EXCEPT ![t] = "none"]
    /\ Goto(t, "rename")
    /\ UNCHANGED << breaker, next, crossed >>

(* Whoever has the page's old file open keeps it, without a name. *)
Renamed(p) ==
    [u \in Threads |-> IF Page(u) # p THEN fd[u]
                       ELSE CASE fd[u] = "tmp" -> "file"
                              [] fd[u] = "file" -> "gone"
                              [] OTHER -> fd[u]]

(* The file may have been renamed by another thread: an OSError, and the   *)
(* page is returned all the same.                                          *)
Rename(t) ==
    /\ At(t, "rename")
    /\ IF tmp[Page(t)] = "none"
       THEN Goto(t, "idle") /\ UNCHANGED << file, life, tmp, fd, crossed >>
       ELSE /\ file' = [file EXCEPT ![Page(t)] = tmp[Page(t)]]
            /\ life' = [life EXCEPT ![Page(t)] = "long"]
            /\ tmp' = [tmp EXCEPT ![Page(t)] = "none"]
            /\ fd' = Renamed(Page(t))
            /\ crossed' = IF Writers(Page(t)) = {t} THEN crossed \ {Page(t)} ELSE crossed
            /\ Goto(t, IF ShortLived(Page(t), call[t].body) THEN "age" ELSE "idle")
    /\ UNCHANGED << breaker, next >>

(* os.utime: such an answer lives for minutes, not for days. *)
Age(t) ==
    /\ At(t, "age")
    /\ life' = [life EXCEPT ![Page(t)] = "short"]
    /\ Goto(t, "idle")
    /\ UNCHANGED << breaker, next, file, tmp, fd, crossed >>

-----------------------------------------------------------------------------
(* Another process puts the page down, by one thread and through a file of *)
(* its own.                                                                *)
OtherProcess(p) ==
    /\ \E b \in Payload :
           /\ Cacheable(p, b)
           /\ file' = [file EXCEPT ![p] = b]
           /\ life' = [life EXCEPT ![p] = IF ShortLived(p, b) THEN "short" ELSE "long"]
    /\ fd' = [u \in Threads |-> IF Page(u) = p /\ fd[u] = "file" THEN "gone" ELSE fd[u]]
    /\ UNCHANGED << breaker, next, call, tmp, crossed >>

Expire(p) ==
    /\ life[p] # "stale"
    /\ life' = [life EXCEPT ![p] = "stale"]
    /\ UNCHANGED << breaker, next, call, file, tmp, fd, crossed >>

Tick ==
    /\ cool' = Less(cool)
    /\ next' = Less(next)
    /\ call' = [t \in Threads |-> [call[t] EXCEPT !.wait = Less(@)]]
    /\ << cool, next, call >>' # << cool, next, call >>
    /\ UNCHANGED << fails, disk >>

Step(t) ==
    \/ CheckOpen(t) \/ CheckHalf(t) \/ Throttle(t) \/ Send(t)
    \/ NoAnswer(t) \/ Busy(t) \/ Answered(t)
    \/ OpenTmp(t) \/ CloseTmp(t) \/ Rename(t) \/ Age(t)

Next ==
    \/ \E t \in Threads : Ask(t) \/ Step(t)
    \/ \E p \in Pages : OtherProcess(p) \/ Expire(p)
    \/ Tick

Spec == Init /\ [][Next]_vars

(* Threads run, requests time out, and time passes. *)
FairSpec == Spec /\ WF_vars(Tick) /\ \A t \in Threads : WF_vars(Step(t))

-----------------------------------------------------------------------------
(* Two threads that wait for the host wait for slots at least a gap apart, *)
(* however many call _throttle at once, and the next slot to be given out  *)
(* is a gap behind them all.                                               *)
Sleeping(t) == At(t, "asleep") /\ call[t].wait > 0
SlotsSpaced ==
    \A t \in Threads : Sleeping(t) =>
        /\ call[t].wait + Gap <= next
        /\ \A u \in Threads \ {t} : Sleeping(u) =>
               \/ call[t].wait + Gap <= call[u].wait
               \/ call[u].wait + Gap <= call[t].wait

(* One call of cached_get sends at most the requests of one retry loop:    *)
(* the cache layer does not fetch again what has failed (EXT-2).  What a   *)
(* caller does with a failure is its own affair.                           *)
SpentOnce == \A t \in Threads : call[t].sent <= Retries + 1

(* What the deployment owes the host: spaced requests, and no more of them *)
(* than the retry loop is configured for.                                  *)
HostSpared == SlotsSpaced /\ SpentOnce

(* A text cut short bears a page's name only while a thread of the process *)
(* still writes it: the damage of a rename that meets another thread's     *)
(* open is made good by that thread, with no further fetch.                *)
CutShortIsOpen ==
    \A p \in Pages : file[p] = "part" =>
        \E t \in Threads : Page(t) = p /\ fd[t] = "file"

(* What bears a page's name is a whole answer, and no error envelope where *)
(* its caller refuses those.                                               *)
Whole(p) ==
    /\ file[p] \notin {"part", "torn"}
    /\ file[p] = "error" => p \in Objects

(* What has no rows counts for a full life in the index, or else only      *)
(* while the thread that put it down is about to age it.                   *)
AgedSoon(p) ==
    file[p] \in {"empty", "error"} /\ life[p] = "long" =>
        \/ p \in Indexes
        \/ \E t \in Threads : At(t, "age") /\ Page(t) = p

(* The cache believes what the source answered, for as long as its caller  *)
(* says: whatever threads and processes fetch a page at once, as long as   *)
(* no two threads were between open and rename of it together; and after   *)
(* that, from the next time one thread writes it alone.                    *)
CacheHonest ==
    /\ CutShortIsOpen
    /\ \A p \in Pages \ crossed : Whole(p) /\ AgedSoon(p)

(* What the comment at the temporary name promises without that condition: *)
(* no file is ever cut short.                                              *)
NoTruncatedFile == \A p \in Pages : Whole(p)

(* Every call ends: a host that is down, slow or busy holds no caller. *)
CallsEnd == \A t \in Threads : ~At(t, "idle") ~> At(t, "idle")

(* An open breaker lets callers through again, though the calls that were  *)
(* under way when it opened fail one by one and each renews the window:    *)
(* the calls it refuses do not.                                            *)
OpenIsTemporary == IsOpen ~> ~IsOpen

(* A host that is down holds nobody: neither its callers nor those to come. *)
DownHoldsNobody == CallsEnd /\ OpenIsTemporary

=============================================================================
