-------------------------- MODULE SourceFetch_proofs --------------------------
(***************************************************************************)
(* Proofs about SourceFetch, for every set of threads and pages, and every *)
(* setting of the breaker, the throttle and the retry loop.                *)
(***************************************************************************)
EXTENDS SourceFetch, TLAPS

(* The retry loop: a thread that is to send has an attempt left, and what  *)
(* it has sent and may still send are together what it was given; only an  *)
(* answer that may be kept is written down.                                *)
Retrying ==
    \A t \in Threads :
        /\ call[t].pc \in {"check", "half"} => call[t].sent = 0
        /\ call[t].pc \in {"slot", "asleep"} => call[t].tries >= 1
        /\ call[t].pc \in {"slot", "asleep", "wire"} =>
              call[t].sent + call[t].tries <= Retries + 1
        /\ call[t].sent <= Retries + 1
        /\ call[t].pc \in {"open", "rename", "age"} => Cacheable(call[t].page, call[t].body)

FetchInv == TypeOK /\ Retrying /\ SlotsSpaced

Pcs == {"idle", "check", "half", "slot", "asleep", "wire", "got", "open", "rename", "age"}

CallRow == [pc : Pcs, page : Pages, tries : 0 .. Retries + 1, wait : 0 .. MaxWait,
            sent : 0 .. Retries + 2, body : Payload]

(* The constants are numbers. *)
LEMMA Numbers ==
    /\ Threshold \in Nat /\ Threshold >= 1 /\ Cooldown \in Nat /\ Cooldown >= 1
    /\ Gap \in Nat /\ Gap >= 1 /\ Retries \in Nat /\ MaxWait \in Nat
BY SourceFetchAssumption

(* A thread without a call. *)
LEMMA NoCallType == NoCall \in CallRow
BY SourceFetchAssumption, Numbers DEF NoCall, CallRow, Pcs, Payload

(* A thread that only moves on, or gives its call up, keeps the invariant  *)
(* of the retry loop and of the slots.                                     *)
LEMMA Moves ==
    ASSUME FetchInv, NEW t \in Threads, NEW pc \in Pcs, Goto(t, pc), next' = next,
           \/ pc \in {"idle", "got"}
           \/ pc = "half" /\ call[t].pc = "check"
           \/ pc = "slot" /\ call[t].pc = "wire" /\ call[t].tries > 0
           \/ pc \in {"open", "rename", "age"} /\ Cacheable(call[t].page, call[t].body)
    PROVE  call' \in [Threads -> CallRow] /\ Retrying' /\ SlotsSpaced'
<1>1. call \in [Threads -> CallRow]
  BY DEF FetchInv, TypeOK, CallRow, Pcs
<1>2. call' = [call EXCEPT ![t] = IF pc = "idle" THEN NoCall ELSE [@ EXCEPT !.pc = pc]]
  BY DEF Goto
<1>3. call' \in [Threads -> CallRow]
  BY <1>1, <1>2, NoCallType DEF CallRow
<1>4. \A u \in Threads : u # t => call'[u] = call[u]
  BY <1>1, <1>2
<1>5. /\ pc = "idle" => call'[t] = NoCall
      /\ pc # "idle" => /\ call'[t].pc = pc /\ call'[t].tries = call[t].tries
                        /\ call'[t].sent = call[t].sent /\ call'[t].body = call[t].body
                        /\ call'[t].page = call[t].page
  BY <1>1, <1>2 DEF CallRow
<1>6. Retrying'
  BY <1>1, <1>3, <1>4, <1>5, Numbers DEF FetchInv, Retrying, NoCall, CallRow, Payload
<1>7. call'[t].pc # "asleep"
  BY <1>5 DEF NoCall
<1>8. SlotsSpaced'
  BY <1>4, <1>7 DEF FetchInv, SlotsSpaced, Sleeping, At
<1>. QED
  BY <1>3, <1>6, <1>8

(* A thread that gives its call up. *)
LEMMA GivesUp ==
    ASSUME FetchInv, NEW t \in Threads, Goto(t, "idle"), next' = next
    PROVE  call' \in [Threads -> CallRow] /\ Retrying' /\ SlotsSpaced'
<1>1. "idle" \in Pcs
  BY DEF Pcs
<1>. QED
  BY <1>1, Moves

(* One step of a call keeps the invariant. *)
LEMMA StepKeeps ==
    ASSUME FetchInv, NEW t \in Threads, Step(t)
    PROVE  FetchInv'
<1>1. call \in [Threads -> CallRow]
  BY DEF FetchInv, TypeOK, CallRow, Pcs
<1>2. SUFFICES call' \in [Threads -> CallRow] /\ Retrying' /\ SlotsSpaced'
                /\ fails' \in 0 .. Threshold /\ cool' \in 0 .. Cooldown
                /\ next' \in 0 .. MaxWait + Gap
                /\ file' \in [Pages -> OnDisk] /\ tmp' \in [Pages -> OnDisk]
                /\ life' \in [Pages -> {"stale", "short", "long"}]
                /\ fd' \in [Threads -> {"none", "tmp", "file", "gone"}]
                /\ crossed' \subseteq Pages
  BY DEF FetchInv, TypeOK, CallRow, Pcs
<1>3. UNCHANGED << file, life, tmp, fd, crossed >> =>
                /\ file' \in [Pages -> OnDisk] /\ tmp' \in [Pages -> OnDisk]
                /\ life' \in [Pages -> {"stale", "short", "long"}]
                /\ fd' \in [Threads -> {"none", "tmp", "file", "gone"}]
                /\ crossed' \subseteq Pages
  BY DEF FetchInv, TypeOK
<1>4. UNCHANGED << fails, cool >> \/ RecordFailure \/ RecordSuccess =>
                fails' \in 0 .. Threshold /\ cool' \in 0 .. Cooldown
  BY Numbers DEF FetchInv, TypeOK, RecordFailure, RecordSuccess, Tripped
<1>5. UNCHANGED next => next' \in 0 .. MaxWait + Gap
  BY DEF FetchInv, TypeOK
<1>6. Page(t) \in Pages /\ call[t].body \in Payload
  BY <1>1 DEF Page, CallRow
<1>7. CASE CheckOpen(t)
  <2>1. Goto(t, "idle") \/ (Goto(t, "half") /\ call[t].pc = "check")
    BY <1>7 DEF CheckOpen, AfterFailure, At
  <2>2. call' \in [Threads -> CallRow] /\ Retrying' /\ SlotsSpaced'
    BY <1>7, <2>1, Moves DEF CheckOpen, Pcs
  <2>. QED
    BY <1>3, <1>4, <1>5, <1>7, <2>2 DEF CheckOpen, Refuse, breaker, disk
<1>8. CASE CheckHalf(t)
  <2>0. PICK n \in 1 .. Retries + 1 : call' = [call EXCEPT ![t].pc = "slot", ![t].tries = n]
    <3>1. (IF HalfOpen THEN 1 ELSE Retries + 1) \in 1 .. Retries + 1
      BY Numbers
    <3>. QED
      BY <1>8, <3>1 DEF CheckHalf
  <2>1. /\ call' \in [Threads -> CallRow]
        /\ \A u \in Threads : u # t => call'[u] = call[u]
        /\ call'[t].pc = "slot" /\ call'[t].sent = call[t].sent
        /\ call'[t].tries \in 1 .. Retries + 1
    <3>1. [call[t] EXCEPT !.pc = "slot", !.tries = n] \in CallRow
      <4>1. call[t] \in CallRow /\ n \in 0 .. Retries + 1
        BY <1>1, Numbers
      <4>. QED
        BY <4>1 DEF CallRow, Pcs
    <3>2. call' = [call EXCEPT ![t] = [@ EXCEPT !.pc = "slot", !.tries = n]]
      BY <2>0
    <3>. QED
      BY <1>1, <3>1, <3>2 DEF CallRow
  <2>4. call[t].sent = 0
    BY <1>8 DEF CheckHalf, At, FetchInv, Retrying
  <2>2. Retrying'
    BY <1>1, <2>1, <2>4, Numbers DEF FetchInv, Retrying, CallRow
  <2>3. SlotsSpaced'
    BY <1>8, <2>1 DEF FetchInv, SlotsSpaced, Sleeping, At, CheckHalf
  <2>. QED
    BY <1>3, <1>4, <1>5, <1>8, <2>1, <2>2, <2>3 DEF CheckHalf, breaker, disk
<1>9. CASE Throttle(t)
  <2>1. CASE next > MaxWait
    <3>1. Goto(t, "idle") /\ next' = next
      BY <1>9, <2>1 DEF Throttle, TooFar, AfterFailure
    <3>2. call' \in [Threads -> CallRow] /\ Retrying' /\ SlotsSpaced'
      BY <3>1, GivesUp
    <3>. QED
      BY <1>3, <1>4, <1>5, <1>9, <3>1, <3>2 DEF Throttle, breaker, disk
  <2>2. CASE ~ (next > MaxWait)
    <3>1. next \in 0 .. MaxWait /\ next' = next + Gap
      BY <1>9, <2>2, Numbers DEF Throttle, TooFar, NextSlot, FetchInv, TypeOK
    <3>2. /\ call' = [call EXCEPT ![t].pc = "asleep", ![t].wait = next]
          /\ call[t].pc = "slot"
      BY <1>9, <2>2 DEF Throttle, TooFar, At
    <3>3. /\ call' \in [Threads -> CallRow]
          /\ \A u \in Threads : u # t => call'[u] = call[u]
          /\ call'[t].pc = "asleep" /\ call'[t].sent = call[t].sent
          /\ call'[t].tries = call[t].tries /\ call'[t].wait = next
      BY <1>1, <3>1, <3>2, Numbers DEF CallRow, Pcs
    <3>4. Retrying'
      BY <1>1, <3>2, <3>3, Numbers DEF FetchInv, Retrying, CallRow
    <3>5. \A u \in Threads : call[u].wait \in Nat
      BY <1>1, Numbers DEF CallRow
    <3>6. SlotsSpaced'
      BY <3>1, <3>3, <3>5, Numbers DEF FetchInv, SlotsSpaced, Sleeping, At
    <3>. QED
      BY <1>3, <1>4, <1>9, <3>1, <3>3, <3>4, <3>6, Numbers DEF Throttle, breaker, disk
  <2>. QED
    BY <2>1, <2>2
<1>10. CASE Send(t)
  <2>1. /\ call[t].pc = "asleep" /\ call[t].wait = 0
        /\ call[t].sent + call[t].tries <= Retries + 1 /\ call[t].tries >= 1
    BY <1>10 DEF Send, At, FetchInv, Retrying
  <2>2. /\ call[t].sent \in 0 .. Retries /\ call[t].tries \in 1 .. Retries + 1
    BY <1>1, <2>1, Numbers DEF CallRow
  <2>3. /\ call' \in [Threads -> CallRow]
        /\ \A u \in Threads : u # t => call'[u] = call[u]
        /\ call'[t].pc = "wire" /\ call'[t].sent = call[t].sent + 1
        /\ call'[t].tries = call[t].tries - 1
    BY <1>1, <1>10, <2>2, Numbers DEF Send, CallRow, Pcs
  <2>4. Retrying'
    BY <1>1, <2>1, <2>2, <2>3, Numbers DEF FetchInv, Retrying, CallRow
  <2>5. SlotsSpaced'
    BY <1>10, <2>3 DEF FetchInv, SlotsSpaced, Sleeping, At, Send
  <2>. QED
    BY <1>3, <1>4, <1>5, <1>10, <2>3, <2>4, <2>5 DEF Send, breaker, disk
<1>11. CASE NoAnswer(t)
  <2>1. call' \in [Threads -> CallRow] /\ Retrying' /\ SlotsSpaced'
    BY <1>11, Moves DEF NoAnswer, AfterFailure, Pcs
  <2>. QED
    BY <1>3, <1>4, <1>5, <1>11, <2>1 DEF NoAnswer, breaker, disk
<1>12. CASE Busy(t)
  <2>1. Goto(t, "idle") \/ (Goto(t, "slot") /\ call[t].pc = "wire" /\ call[t].tries > 0)
    BY <1>12 DEF Busy, AfterFailure, At
  <2>2. call' \in [Threads -> CallRow] /\ Retrying' /\ SlotsSpaced'
    BY <1>12, <2>1, Moves DEF Busy, Pcs
  <2>. QED
    BY <1>3, <1>4, <1>5, <1>12, <2>2 DEF Busy, breaker, disk
<1>13. CASE Answered(t)
  <2>1. CASE Goto(t, "idle")
    <3>1. call' \in [Threads -> CallRow] /\ Retrying' /\ SlotsSpaced'
      BY <1>13, <2>1, Moves DEF Answered, Pcs
    <3>. QED
      BY <1>3, <1>4, <1>5, <1>13, <3>1 DEF Answered, breaker, disk
  <2>2. CASE \E b \in Payload : call' = [call EXCEPT ![t].pc = "got", ![t].body = b]
    <3>1. /\ call' \in [Threads -> CallRow]
          /\ \A u \in Threads : u # t => call'[u] = call[u]
          /\ call'[t].pc = "got" /\ call'[t].sent = call[t].sent
      <4>1. PICK b \in Payload : call' = [call EXCEPT ![t] = [@ EXCEPT !.pc = "got", !.body = b]]
        BY <2>2
      <4>2. [call[t] EXCEPT !.pc = "got", !.body = b] \in CallRow
        BY <1>1 DEF CallRow, Pcs
      <4>. QED
        BY <1>1, <4>1, <4>2 DEF CallRow
    <3>2. Retrying'
      BY <3>1 DEF FetchInv, Retrying
    <3>3. SlotsSpaced'
      BY <1>13, <3>1 DEF FetchInv, SlotsSpaced, Sleeping, At, Answered
    <3>. QED
      BY <1>3, <1>4, <1>5, <1>13, <3>1, <3>2, <3>3 DEF Answered, breaker, disk
  <2>. QED
    BY <1>13, <2>1, <2>2 DEF Answered, AfterFailure
<1>14. CASE OpenTmp(t)
  <2>1. \/ Goto(t, "idle")
        \/ Goto(t, "open") /\ Cacheable(call[t].page, call[t].body)
    BY <1>14 DEF OpenTmp, Page
  <2>2. call' \in [Threads -> CallRow] /\ Retrying' /\ SlotsSpaced'
    BY <1>14, <2>1, Moves DEF OpenTmp, Pcs
  <2>3. /\ tmp' \in [Pages -> OnDisk]
        /\ fd' \in [Threads -> {"none", "tmp", "file", "gone"}]
        /\ crossed' \subseteq Pages
    BY <1>6, <1>14 DEF OpenTmp, FetchInv, TypeOK, OnDisk
  <2>. QED
    BY <1>4, <1>5, <1>14, <2>2, <2>3 DEF OpenTmp, FetchInv, TypeOK, breaker, disk
<1>15. CASE CloseTmp(t)
  <2>1. Goto(t, "rename") /\ Cacheable(call[t].page, call[t].body)
    BY <1>15 DEF CloseTmp, FetchInv, Retrying, At
  <2>2. call' \in [Threads -> CallRow] /\ Retrying' /\ SlotsSpaced'
    BY <1>15, <2>1, Moves DEF CloseTmp, Pcs
  <2>3. \A c : Left(t, c) \subseteq OnDisk
    BY <1>6 DEF Left, OnDisk
  <2>4. /\ file' \in [Pages -> OnDisk] /\ tmp' \in [Pages -> OnDisk]
        /\ life' \in [Pages -> {"stale", "short", "long"}]
        /\ fd' \in [Threads -> {"none", "tmp", "file", "gone"}]
    BY <1>6, <1>15, <2>3 DEF CloseTmp, FetchInv, TypeOK
  <2>. QED
    BY <1>4, <1>5, <1>15, <2>2, <2>4 DEF CloseTmp, FetchInv, TypeOK, breaker, disk
<1>16. CASE Rename(t)
  <2>1. \/ Goto(t, "idle")
        \/ Goto(t, "age") /\ Cacheable(call[t].page, call[t].body)
    BY <1>16 DEF Rename, FetchInv, Retrying, At
  <2>2. call' \in [Threads -> CallRow] /\ Retrying' /\ SlotsSpaced'
    BY <1>16, <2>1, Moves DEF Rename, Pcs
  <2>3. Renamed(Page(t)) \in [Threads -> {"none", "tmp", "file", "gone"}]
    BY DEF Renamed, FetchInv, TypeOK
  <2>4. /\ file' \in [Pages -> OnDisk] /\ tmp' \in [Pages -> OnDisk]
        /\ life' \in [Pages -> {"stale", "short", "long"}]
        /\ fd' \in [Threads -> {"none", "tmp", "file", "gone"}]
        /\ crossed' \subseteq Pages
    BY <1>6, <1>16, <2>3 DEF Rename, FetchInv, TypeOK, OnDisk
  <2>. QED
    BY <1>4, <1>5, <1>16, <2>2, <2>4 DEF Rename, breaker, disk
<1>17. CASE Age(t)
  <2>1. call' \in [Threads -> CallRow] /\ Retrying' /\ SlotsSpaced'
    BY <1>17, Moves DEF Age, Pcs
  <2>. QED
    BY <1>4, <1>5, <1>6, <1>17, <2>1 DEF Age, FetchInv, TypeOK, breaker, disk
<1>. QED
  BY <1>7, <1>8, <1>9, <1>10, <1>11, <1>12, <1>13, <1>14, <1>15, <1>16, <1>17 DEF Step

(* A new call, the other process, the end of a page's life and time keep   *)
(* the invariant: a tick moves every slot by as much.                      *)
LEMMA RestKeeps ==
    ASSUME FetchInv,
           \/ \E t \in Threads : Ask(t)
           \/ \E p \in Pages : OtherProcess(p) \/ Expire(p)
           \/ Tick
           \/ UNCHANGED vars
    PROVE  FetchInv'
<1>1. call \in [Threads -> CallRow]
  BY DEF FetchInv, TypeOK, CallRow, Pcs
<1>2. ASSUME NEW t \in Threads, Ask(t) PROVE FetchInv'
  <2>1. PICK p \in Pages :
            call' = [call EXCEPT ![t] = [NoCall EXCEPT !.pc = "check", !.page = p]]
    BY <1>2 DEF Ask
  <2>2. [NoCall EXCEPT !.pc = "check", !.page = p] \in CallRow
    BY NoCallType DEF CallRow, Pcs
  <2>3. /\ call' \in [Threads -> CallRow]
        /\ \A u \in Threads : u # t => call'[u] = call[u]
        /\ call'[t].pc = "check" /\ call'[t].sent = 0
    BY <1>1, <2>1, <2>2 DEF NoCall
  <2>4. Retrying'
    BY <2>3, Numbers DEF FetchInv, Retrying
  <2>5. SlotsSpaced'
    <3>1. next' = next
      BY <1>2 DEF Ask
    <3>. QED
      BY <2>3, <3>1 DEF FetchInv, SlotsSpaced, Sleeping, At
  <2>. QED
    BY <1>2, <2>3, <2>4, <2>5 DEF FetchInv, TypeOK, Ask, breaker, disk, CallRow, Pcs
<1>3. ASSUME NEW p \in Pages, OtherProcess(p) PROVE FetchInv'
  BY <1>3 DEF OtherProcess, FetchInv, TypeOK, Retrying, SlotsSpaced, Sleeping, At,
              breaker, OnDisk, ShortLived
<1>4. ASSUME NEW p \in Pages, Expire(p) PROVE FetchInv'
  BY <1>4 DEF Expire, FetchInv, TypeOK, Retrying, SlotsSpaced, Sleeping, At, breaker
<1>5. CASE Tick
  <2>1. \A t \in Threads : call[t].wait \in Nat
    BY <1>1, Numbers DEF CallRow
  <2>2. /\ call' \in [Threads -> CallRow]
        /\ \A t \in Threads :
              /\ call'[t].pc = call[t].pc /\ call'[t].sent = call[t].sent
              /\ call'[t].tries = call[t].tries /\ call'[t].body = call[t].body
              /\ call'[t].page = call[t].page
              /\ call'[t].wait = Less(call[t].wait)
    BY <1>1, <1>5, Numbers DEF Tick, Less, CallRow
  <2>3. cool' \in 0 .. Cooldown /\ next' \in 0 .. MaxWait + Gap /\ next' = Less(next)
    BY <1>5, Numbers DEF Tick, Less, FetchInv, TypeOK
  <2>4. Retrying'
    BY <2>2 DEF FetchInv, Retrying
  <2>5. next \in Nat
    BY Numbers DEF FetchInv, TypeOK
  <2>6. SlotsSpaced'
    BY <2>1, <2>2, <2>3, <2>5, Numbers DEF FetchInv, SlotsSpaced, Sleeping, At, Less
  <2>. QED
    BY <1>5, <2>2, <2>3, <2>4, <2>6 DEF Tick, FetchInv, TypeOK, disk, CallRow, Pcs
<1>6. CASE UNCHANGED vars
  BY <1>6 DEF vars, breaker, disk, FetchInv, TypeOK, Retrying, SlotsSpaced, Sleeping, At
<1>. QED
  BY <1>2, <1>3, <1>4, <1>5, <1>6

(* The invariant holds in every reachable state. *)
LEMMA FetchInvHolds == Spec => []FetchInv
<1>1. Init => FetchInv
  <2>. SUFFICES ASSUME Init PROVE FetchInv
    OBVIOUS
  <2>1. \A t \in Threads : call[t] = NoCall
    BY DEF Init
  <2>2. call \in [Threads -> CallRow]
    BY NoCallType DEF Init
  <2>3. NoCall.pc = "idle" /\ NoCall.sent = 0
    BY DEF NoCall
  <2>4. Retrying /\ SlotsSpaced
    BY <2>1, <2>3, Numbers DEF Retrying, SlotsSpaced, Sleeping, At
  <2>. QED
    BY <2>2, <2>4, Numbers DEF Init, FetchInv, TypeOK, CallRow, Pcs, OnDisk
<1>2. FetchInv /\ [Next]_vars => FetchInv'
  BY StepKeeps, RestKeeps DEF Next
<1>. QED
  BY <1>1, <1>2, PTL DEF Spec

(* Type correctness of the cache, the throttle and the breaker. *)
THEOREM FetchTypeCorrect == Spec => []TypeOK
BY FetchInvHolds, PTL DEF FetchInv

(* However many threads call _throttle and _http_get at once, those that   *)
(* wait for a host wait for slots at least a gap apart, and no fetch sends *)
(* more requests than its retry loop is configured for.                    *)
THEOREM HostIsSpared == Spec => []HostSpared
<1>1. FetchInv => HostSpared
  BY DEF FetchInv, Retrying, HostSpared, SpentOnce
<1>. QED
  BY <1>1, FetchInvHolds, PTL

-----------------------------------------------------------------------------
(* The pages of the cache. *)

Writes(t) == call[t].pc \in {"open", "rename"}

(* A thread has a file open exactly from its open to its close. *)
HasFile == \A t \in Threads : fd[t] # "none" <=> call[t].pc = "open"

(* The file a thread has open under the temporary name is there, and a     *)
(* file cut short is one that some thread has open.                        *)
TmpThere == \A t \in Threads : fd[t] = "tmp" => tmp[call[t].page] # "none"
TmpOpen ==
    \A p \in Pages : tmp[p] = "part" => \E t \in Threads : call[t].page = p /\ fd[t] = "tmp"

(* Two threads write a page at once only if it is crossed, and only then   *)
(* does a thread have a file open that bears the page's name.              *)
Crossing ==
    \A t \in Threads : \A u \in Threads \ {t} :
        Writes(t) /\ Writes(u) /\ call[t].page = call[u].page => call[t].page \in crossed
NamedWhileOpen == \A t \in Threads : fd[t] = "file" => call[t].page \in crossed

(* A thread that is by now the only writer of a page has written the file  *)
(* of the temporary name from its start, or that file is gone.             *)
Sole(t) == \A u \in Threads \ {t} : call[u].page = call[t].page => ~Writes(u)
LoneWriter ==
    \A t \in Threads : Writes(t) /\ Sole(t) =>
        /\ fd[t] = "tmp" => tmp[call[t].page] = "part"
        /\ call[t].pc = "open" /\ fd[t] # "tmp" => tmp[call[t].page] = "none"
        /\ call[t].pc = "rename" => tmp[call[t].page] \in {"none", call[t].body}

Files == HasFile /\ TmpThere /\ TmpOpen /\ Crossing /\ NamedWhileOpen /\ LoneWriter

CacheInv == FetchInv /\ Files /\ CacheHonest

Writing == {"open", "rename", "age"}

(* What the invariant says of the files, by name. *)
LEMMA CacheTypes ==
    ASSUME CacheInv
    PROVE  /\ call \in [Threads -> CallRow]
           /\ file \in [Pages -> OnDisk] /\ tmp \in [Pages -> OnDisk]
           /\ life \in [Pages -> {"stale", "short", "long"}]
           /\ fd \in [Threads -> {"none", "tmp", "file", "gone"}]
           /\ crossed \subseteq Pages
BY DEF CacheInv, FetchInv, TypeOK, CallRow, Pcs

(* A thread that moves on by Goto, and the others. *)
LEMMA GoesTo ==
    ASSUME CacheInv, NEW t \in Threads, NEW pc, Goto(t, pc)
    PROVE  /\ \A u \in Threads : u # t => call'[u] = call[u]
           /\ pc # "idle" => /\ call'[t].pc = pc /\ call'[t].page = call[t].page
                             /\ call'[t].body = call[t].body
           /\ pc = "idle" => call'[t].pc = "idle"
<1>1. call \in [Threads -> CallRow]
  BY CacheTypes
<1>2. NoCall.pc = "idle"
  BY DEF NoCall
<1>3. call' = [call EXCEPT ![t] = IF pc = "idle" THEN NoCall ELSE [call[t] EXCEPT !.pc = pc]]
  BY <1>1 DEF Goto
<1>. QED
  BY <1>1, <1>2, <1>3 DEF CallRow

(* A step by which no thread begins or ends to write, and no file changes. *)
LEMMA DiskRests ==
    ASSUME CacheInv, UNCHANGED disk,
           \A t \in Threads : call[t].pc \in Writing \/ call'[t].pc \in Writing =>
               /\ call'[t].pc = call[t].pc /\ call'[t].page = call[t].page
               /\ call'[t].body = call[t].body
    PROVE  Files' /\ CacheHonest'
<1>1. UNCHANGED << file, life, tmp, fd, crossed >>
  BY DEF disk
<1>2. \A t \in Threads : fd[t] # "none" => /\ call[t].pc = "open" /\ call'[t].pc = "open"
                                           /\ call'[t].page = call[t].page
  BY DEF CacheInv, Files, HasFile, Writing
<1>3. HasFile'
  BY <1>1 DEF CacheInv, Files, HasFile, Writing
<1>4. TmpThere' /\ TmpOpen' /\ NamedWhileOpen'
  BY <1>1, <1>2 DEF CacheInv, Files, TmpThere, TmpOpen, NamedWhileOpen
<1>5. \A t \in Threads : Writes(t)' => /\ Writes(t) /\ call'[t].pc = call[t].pc
                                       /\ call'[t].page = call[t].page
                                       /\ call'[t].body = call[t].body
  BY DEF Writes, Writing
<1>6. \A t \in Threads : Writes(t) => Writes(t)'
  BY DEF Writes, Writing
<1>7. Crossing'
  BY <1>1, <1>5 DEF CacheInv, Files, Crossing
<1>8. \A t \in Threads : Writes(t)' /\ Sole(t)' => Sole(t)
  BY <1>5, <1>6 DEF Sole
<1>9. LoneWriter'
  BY <1>1, <1>5, <1>8 DEF CacheInv, Files, LoneWriter
<1>10. CacheHonest'
  <2>1. CutShortIsOpen'
    BY <1>1, <1>2 DEF CacheInv, CacheHonest, CutShortIsOpen, Page
  <2>2. \A p \in Pages \ crossed : Whole(p)'
    BY <1>1 DEF CacheInv, CacheHonest, Whole
  <2>3. \A p \in Pages \ crossed : AgedSoon(p)'
    BY <1>1 DEF CacheInv, CacheHonest, AgedSoon, At, Page, Writing
  <2>. QED
    BY <1>1, <2>1, <2>2, <2>3 DEF CacheHonest
<1>. QED
  BY <1>3, <1>4, <1>7, <1>9, <1>10 DEF Files

(* The steps of a call until there is an answer to write. *)
LEMMA FetchLeaves ==
    ASSUME CacheInv, NEW t \in Threads,
           \/ CheckOpen(t) \/ CheckHalf(t) \/ Throttle(t) \/ Send(t)
           \/ NoAnswer(t) \/ Busy(t) \/ Answered(t)
    PROVE  Files' /\ CacheHonest'
<1>1. call \in [Threads -> CallRow]
  BY CacheTypes
<1>2. PICK c : /\ call' = [call EXCEPT ![t] = c] /\ c.pc \notin Writing
               /\ c.pc = "idle" \/ c.page = call[t].page
  <2>1. ASSUME NEW pc \in Pcs \ Writing, Goto(t, pc)
        PROVE  \E c : /\ call' = [call EXCEPT ![t] = c] /\ c.pc \notin Writing
                      /\ c.pc = "idle" \/ c.page = call[t].page
    <3>1. call' = [call EXCEPT ![t] = IF pc = "idle" THEN NoCall ELSE [call[t] EXCEPT !.pc = pc]]
      BY <1>1, <2>1 DEF Goto
    <3>2. CASE pc = "idle"
      <4>1. call' = [call EXCEPT ![t] = NoCall] /\ NoCall.pc = "idle"
        BY <3>1, <3>2 DEF NoCall
      <4>. QED
        BY <4>1 DEF Writing
    <3>3. CASE pc # "idle"
      <4>1. [call[t] EXCEPT !.pc = pc].pc = pc /\ [call[t] EXCEPT !.pc = pc].page = call[t].page
        BY <1>1 DEF CallRow
      <4>. QED
        BY <3>1, <3>3, <4>1
    <3>. QED
      BY <3>2, <3>3
  <2>2. {"idle", "half", "slot"} \subseteq Pcs \ Writing
    BY DEF Pcs, Writing
  <2>3. CASE CheckOpen(t) \/ NoAnswer(t) \/ Busy(t)
    BY <2>1, <2>2, <2>3 DEF CheckOpen, NoAnswer, Busy, AfterFailure
  <2>4. CASE CheckHalf(t)
    <3> DEFINE c == [call[t] EXCEPT !.pc = "slot",
                                    !.tries = IF HalfOpen THEN 1 ELSE Retries + 1]
    <3>1. call' = [call EXCEPT ![t] = c]
      BY <1>1, <2>4 DEF CheckHalf
    <3>2. c.pc = "slot" /\ c.page = call[t].page
      BY <1>1 DEF CallRow
    <3>. QED
      BY <3>1, <3>2 DEF Writing
  <2>5. CASE Throttle(t)
    <3>1. CASE next > MaxWait
      BY <2>1, <2>2, <2>5, <3>1 DEF Throttle, TooFar, AfterFailure
    <3>2. CASE ~ (next > MaxWait)
      <4> DEFINE c == [call[t] EXCEPT !.pc = "asleep", !.wait = next]
      <4>1. call' = [call EXCEPT ![t] = c]
        BY <1>1, <2>5, <3>2 DEF Throttle, TooFar
      <4>2. c.pc = "asleep" /\ c.page = call[t].page
        BY <1>1 DEF CallRow
      <4>. QED
        BY <4>1, <4>2 DEF Writing
    <3>. QED
      BY <3>1, <3>2
  <2>6. CASE Send(t)
    <3> DEFINE c == [call[t] EXCEPT !.pc = "wire", !.tries = @ - 1,
                                    !.sent = IF @ > Retries + 1 THEN @ ELSE @ + 1]
    <3>1. call' = [call EXCEPT ![t] = c]
      BY <1>1, <2>6 DEF Send
    <3>2. c.pc = "wire" /\ c.page = call[t].page
      BY <1>1 DEF CallRow
    <3>. QED
      BY <3>1, <3>2 DEF Writing
  <2>7. CASE Answered(t)
    <3>1. ASSUME NEW b \in Payload, call' = [call EXCEPT ![t].pc = "got", ![t].body = b]
          PROVE  \E c : /\ call' = [call EXCEPT ![t] = c] /\ c.pc \notin Writing
                        /\ c.pc = "idle" \/ c.page = call[t].page
      <4> DEFINE c == [call[t] EXCEPT !.pc = "got", !.body = b]
      <4>1. call' = [call EXCEPT ![t] = c]
        BY <1>1, <3>1
      <4>2. c.pc = "got" /\ c.page = call[t].page
        BY <1>1 DEF CallRow
      <4>. QED
        BY <4>1, <4>2 DEF Writing
    <3>. QED
      BY <2>1, <2>2, <2>7, <3>1 DEF Answered, AfterFailure
  <2>. QED
    BY <2>3, <2>4, <2>5, <2>6, <2>7
<1>3. /\ call[t].pc \notin Writing /\ call[t].pc # "idle" /\ UNCHANGED disk
  BY DEF CheckOpen, CheckHalf, Throttle, Send, NoAnswer, Busy, Answered, At, Writing
<1>4. /\ call'[t].pc \notin Writing
      /\ call'[t].pc = "idle" \/ call'[t].page = call[t].page
      /\ \A u \in Threads : u # t => call'[u] = call[u]
  BY <1>1, <1>2
<1>. QED
  BY <1>3, <1>4, DiskRests

(* A thread opens the temporary file, or keeps nothing. *)
LEMMA OpenLeaves ==
    ASSUME CacheInv, NEW t \in Threads, OpenTmp(t)
    PROVE  Files' /\ CacheHonest'
<1> DEFINE p == call[t].page
<1>1. /\ call \in [Threads -> CallRow] /\ p \in Pages /\ call[t].pc = "got"
      /\ tmp \in [Pages -> OnDisk] /\ fd \in [Threads -> {"none", "tmp", "file", "gone"}]
      /\ UNCHANGED << file, life >>
  BY CacheTypes DEF OpenTmp, At, CallRow
<1>2. CASE ~ Cacheable(Page(t), call[t].body)
  <2>1. Goto(t, "idle") /\ UNCHANGED << tmp, fd, crossed >>
    BY <1>2 DEF OpenTmp
  <2>2. UNCHANGED disk
    BY <1>1, <2>1 DEF disk
  <2>3. (\A u \in Threads : u # t => call'[u] = call[u]) /\ call'[t].pc = "idle"
    BY <2>1, GoesTo
  <2>. QED
    BY <1>1, <2>2, <2>3, DiskRests DEF Writing
<1>3. CASE Cacheable(Page(t), call[t].body)
  <2>1. /\ tmp' = [tmp EXCEPT ![p] = "part"] /\ fd' = [fd EXCEPT ![t] = "tmp"]
        /\ crossed' = IF Writers(p) = {} THEN crossed ELSE crossed \cup {p}
        /\ Goto(t, "open")
    BY <1>3 DEF OpenTmp, Page
  <2>2. /\ \A u \in Threads : u # t => call'[u] = call[u]
        /\ call'[t].pc = "open" /\ call'[t].page = p
    BY <2>1, GoesTo
  <2>3. /\ \A u \in Threads : u # t => fd'[u] = fd[u]
        /\ fd'[t] = "tmp" /\ tmp'[p] = "part"
        /\ \A q \in Pages : q # p => tmp'[q] = tmp[q]
        /\ fd[t] = "none" /\ ~Writes(t)
    BY <1>1, <2>1 DEF CacheInv, Files, HasFile, Writes
  <2> HIDE DEF p
  <2>4. HasFile' /\ TmpThere'
    BY <1>1, <2>2, <2>3 DEF CacheInv, Files, HasFile, TmpThere, CallRow
  <2>5. TmpOpen'
    <3>. SUFFICES ASSUME NEW q \in Pages, tmp'[q] = "part"
                  PROVE  \E u \in Threads : call'[u].page = q /\ fd'[u] = "tmp"
      BY DEF TmpOpen
    <3>1. CASE q = p
      BY <2>2, <2>3, <3>1
    <3>2. CASE q # p
      <4>1. PICK u \in Threads : call[u].page = q /\ fd[u] = "tmp"
        BY <2>3, <3>2 DEF CacheInv, Files, TmpOpen
      <4>2. u # t
        BY <2>3, <4>1
      <4>. QED
        BY <2>2, <2>3, <4>1, <4>2
    <3>. QED
      BY <3>1, <3>2
  <2>6. \A u \in Threads : u # t => (Writes(u)' <=> Writes(u))
    BY <2>2 DEF Writes
  <2>7. crossed \subseteq crossed'
    BY <2>1
  <2>8. \A u \in Threads : u # t /\ Writes(u) /\ call[u].page = p => p \in crossed'
    BY <2>1 DEF Writers, Writes, Page, At
  <2>9. Crossing'
    <3>. SUFFICES ASSUME NEW v \in Threads, NEW u \in Threads \ {v}, Writes(v)', Writes(u)',
                         call'[v].page = call'[u].page
                  PROVE  call'[v].page \in crossed'
      BY DEF Crossing
    <3>1. CASE v # t /\ u # t
      BY <2>2, <2>6, <2>7, <3>1 DEF CacheInv, Files, Crossing
    <3>2. CASE v = t \/ u = t
      BY <2>2, <2>6, <2>8, <3>2
    <3>. QED
      BY <3>1, <3>2
  <2>10. NamedWhileOpen'
    BY <2>2, <2>3, <2>7 DEF CacheInv, Files, NamedWhileOpen
  <2>11. LoneWriter'
    <3>. SUFFICES ASSUME NEW u \in Threads, Writes(u)', Sole(u)'
                  PROVE  /\ fd'[u] = "tmp" => tmp'[call'[u].page] = "part"
                         /\ call'[u].pc = "open" /\ fd'[u] # "tmp" => tmp'[call'[u].page] = "none"
                         /\ call'[u].pc = "rename" => tmp'[call'[u].page] \in {"none", call'[u].body}
      BY DEF LoneWriter
    <3>1. CASE u = t
      BY <2>2, <2>3, <3>1
    <3>2. CASE u # t
      <4>1. call'[u] = call[u] /\ Writes(u) /\ fd'[u] = fd[u]
        BY <2>2, <2>3, <2>6, <3>2
      <4>2. Writes(t)'
        BY <2>2 DEF Writes
      <4>3. call[u].page # p
        BY <2>2, <3>2, <4>1, <4>2 DEF Sole
      <4>4. Sole(u)
        BY <2>2, <2>3, <2>6, <4>1 DEF Sole
      <4>5. tmp'[call'[u].page] = tmp[call[u].page]
        BY <1>1, <2>3, <4>1, <4>3 DEF CallRow
      <4>. QED
        BY <4>1, <4>4, <4>5 DEF CacheInv, Files, LoneWriter
    <3>. QED
      BY <3>1, <3>2
  <2>12. CacheHonest'
    <3>1. CutShortIsOpen'
      <4>. SUFFICES ASSUME NEW q \in Pages, file[q] = "part"
                    PROVE  \E u \in Threads : call'[u].page = q /\ fd'[u] = "file"
        BY <1>1 DEF CutShortIsOpen, Page
      <4>1. PICK u \in Threads : call[u].page = q /\ fd[u] = "file"
        BY DEF CacheInv, CacheHonest, CutShortIsOpen, Page
      <4>2. u # t
        BY <2>3, <4>1
      <4>. QED
        BY <2>2, <2>3, <4>1, <4>2
    <3>2. ASSUME NEW q \in Pages \ crossed' PROVE Whole(q)' /\ AgedSoon(q)'
      <4>1. q \notin crossed
        BY <2>7
      <4>2. Whole(q)'
        BY <1>1, <4>1 DEF CacheInv, CacheHonest, Whole
      <4>3. AgedSoon(q)'
        BY <1>1, <2>2, <4>1 DEF CacheInv, CacheHonest, AgedSoon, At, Page
      <4>. QED
        BY <4>2, <4>3
    <3>. QED
      BY <3>1, <3>2 DEF CacheHonest
  <2>. QED
    BY <2>4, <2>5, <2>9, <2>10, <2>11, <2>12 DEF Files
<1>. QED
  BY <1>2, <1>3

(* A thread closes the file it has open, under whatever name it has. *)
LEMMA CloseLeaves ==
    ASSUME CacheInv, NEW t \in Threads, CloseTmp(t)
    PROVE  Files' /\ CacheHonest'
<1> DEFINE p == call[t].page
<1>1. /\ call \in [Threads -> CallRow] /\ p \in Pages /\ call[t].pc = "open"
      /\ call[t].body \in Payload
      /\ tmp \in [Pages -> OnDisk] /\ file \in [Pages -> OnDisk]
      /\ life \in [Pages -> {"stale", "short", "long"}]
      /\ fd \in [Threads -> {"none", "tmp", "file", "gone"}]
      /\ fd' = [fd EXCEPT ![t] = "none"] /\ Goto(t, "rename") /\ crossed' = crossed
  BY CacheTypes DEF CloseTmp, At, CallRow
<1>2. /\ \A u \in Threads : u # t => call'[u] = call[u] /\ fd'[u] = fd[u]
      /\ call'[t].pc = "rename" /\ call'[t].page = p /\ call'[t].body = call[t].body
      /\ fd'[t] = "none"
  BY <1>1, GoesTo
<1>3. /\ \A u \in Threads : call'[u].page = call[u].page /\ (Writes(u)' <=> Writes(u))
      /\ \A u \in Threads : Sole(u)' <=> Sole(u)
  <2>1. \A u \in Threads : call'[u].page = call[u].page /\ (Writes(u)' <=> Writes(u))
    BY <1>1, <1>2 DEF Writes
  <2>. QED
    BY <2>1 DEF Sole
<1>4. \A c : "part" \notin Left(t, c) /\ "none" \notin Left(t, c)
  BY <1>1 DEF Left, Payload
<1>5. /\ \A q \in Pages : q # p => /\ tmp'[q] = tmp[q] /\ file'[q] = file[q]
                                   /\ life'[q] = life[q]
      /\ \/ fd[t] = "tmp" /\ tmp'[p] \in Left(t, tmp[p]) /\ UNCHANGED << file, life >>
         \/ fd[t] = "file" /\ file'[p] \in Left(t, file[p]) /\ tmp' = tmp
         \/ fd[t] = "gone" /\ UNCHANGED << file, life, tmp >>
  BY <1>1 DEF CloseTmp, Page
<1> HIDE DEF p
<1>6. HasFile'
  BY <1>1, <1>2 DEF CacheInv, Files, HasFile
<1>7. TmpThere'
  <2>1. \A u \in Threads : fd'[u] = "tmp" => u # t /\ tmp[call[u].page] # "none"
    BY <1>2 DEF CacheInv, Files, TmpThere
  <2>. QED
    BY <1>1, <1>2, <1>4, <1>5, <2>1 DEF TmpThere, CallRow
<1>8. TmpOpen'
  <2>. SUFFICES ASSUME NEW q \in Pages, tmp'[q] = "part"
                PROVE  \E u \in Threads : call'[u].page = q /\ fd'[u] = "tmp"
    BY DEF TmpOpen
  <2>1. tmp[q] = "part" /\ (fd[t] = "tmp" => q # p)
    BY <1>4, <1>5
  <2>2. PICK u \in Threads : call[u].page = q /\ fd[u] = "tmp"
    BY <2>1 DEF CacheInv, Files, TmpOpen
  <2>3. u # t
    BY <2>1, <2>2 DEF p
  <2>. QED
    BY <1>2, <2>2, <2>3
<1>9. Crossing' /\ NamedWhileOpen'
  BY <1>1, <1>2, <1>3 DEF CacheInv, Files, Crossing, NamedWhileOpen
<1>10. LoneWriter'
  <2>. SUFFICES ASSUME NEW u \in Threads, Writes(u)', Sole(u)'
                PROVE  /\ fd'[u] = "tmp" => tmp'[call'[u].page] = "part"
                       /\ call'[u].pc = "open" /\ fd'[u] # "tmp" => tmp'[call'[u].page] = "none"
                       /\ call'[u].pc = "rename" => tmp'[call'[u].page] \in {"none", call'[u].body}
    BY DEF LoneWriter
  <2>1. Writes(u) /\ Sole(u) /\ Writes(t)
    BY <1>1, <1>3 DEF Writes
  <2>2. CASE u # t
    <3>1. call[u].page # p
      BY <2>1, <2>2 DEF Sole, p
    <3>2. tmp'[call[u].page] = tmp[call[u].page]
      BY <1>1, <1>5, <3>1 DEF CallRow
    <3>. QED
      BY <1>2, <2>1, <2>2, <3>2 DEF CacheInv, Files, LoneWriter
  <2>3. CASE u = t
    <3>1. /\ fd[t] = "tmp" => tmp[p] = "part"
          /\ fd[t] # "tmp" => tmp[p] = "none"
      BY <1>1, <2>1, <2>3 DEF CacheInv, Files, LoneWriter, p
    <3>2. CASE fd[t] = "tmp"
      <4>1. \A v \in Threads \ {t} : call[v].page = p => fd[v] = "none"
        BY <1>1, <2>1, <2>3 DEF Sole, Writes, CacheInv, Files, HasFile, p
      <4>2. Left(t, tmp[p]) = {call[t].body}
        BY <3>1, <3>2, <4>1 DEF Left, Page, p
      <4>. QED
        BY <1>2, <1>5, <2>3, <3>2, <4>2
    <3>3. CASE fd[t] # "tmp"
      BY <1>2, <1>5, <2>3, <3>1, <3>3
    <3>. QED
      BY <3>2, <3>3
  <2>. QED
    BY <2>2, <2>3
<1>11. CutShortIsOpen'
  <2>. SUFFICES ASSUME NEW q \in Pages, file'[q] = "part"
                PROVE  \E u \in Threads : call'[u].page = q /\ fd'[u] = "file"
    BY DEF CutShortIsOpen, Page
  <2>1. file[q] = "part" /\ (fd[t] = "file" => q # p)
    BY <1>4, <1>5
  <2>2. PICK u \in Threads : call[u].page = q /\ fd[u] = "file"
    BY <2>1 DEF CacheInv, CacheHonest, CutShortIsOpen, Page
  <2>3. u # t
    BY <2>1, <2>2 DEF p
  <2>. QED
    BY <1>2, <2>2, <2>3
<1>12. ASSUME NEW q \in Pages \ crossed PROVE Whole(q)' /\ AgedSoon(q)'
  <2>1. file'[q] = file[q] /\ life'[q] = life[q]
    <3>1. fd[t] = "file" => p \in crossed
      BY DEF CacheInv, Files, NamedWhileOpen, p
    <3>. QED
      BY <1>5, <3>1
  <2>2. Whole(q) /\ AgedSoon(q)
    BY DEF CacheInv, CacheHonest
  <2>3. \A u \in Threads : call[u].pc = "age" => call'[u] = call[u]
    BY <1>1, <1>2
  <2>. QED
    BY <2>1, <2>2, <2>3 DEF Whole, AgedSoon, At, Page
<1>. QED
  BY <1>1, <1>6, <1>7, <1>8, <1>9, <1>10, <1>11, <1>12 DEF Files, CacheHonest

(* A thread gives the temporary file the page's name, unless another one   *)
(* has done so.                                                            *)
LEMMA RenameLeaves ==
    ASSUME CacheInv, NEW t \in Threads, Rename(t)
    PROVE  Files' /\ CacheHonest'
<1>0. PICK p \in Pages : p = call[t].page
  BY CacheTypes DEF CallRow
<1>1. /\ call \in [Threads -> CallRow] /\ p \in Pages /\ call[t].pc = "rename"
      /\ call[t].body \in Payload
      /\ tmp \in [Pages -> OnDisk] /\ file \in [Pages -> OnDisk]
      /\ life \in [Pages -> {"stale", "short", "long"}]
      /\ fd \in [Threads -> {"none", "tmp", "file", "gone"}] /\ fd[t] = "none"
      /\ Cacheable(p, call[t].body)
  BY <1>0, CacheTypes DEF Rename, At, CallRow, CacheInv, FetchInv, Retrying, Files, HasFile
<1>2. PICK pc \in {"idle", "age"} : Goto(t, pc)
  BY DEF Rename
<1>3. /\ \A u \in Threads : u # t => call'[u] = call[u]
      /\ call'[t].pc = pc /\ (pc = "age" => call'[t].page = p)
  BY <1>0, <1>2, GoesTo
<1>4. tmp'[p] = "none" /\ \A q \in Pages : q # p => /\ tmp'[q] = tmp[q] /\ file'[q] = file[q]
                                                    /\ life'[q] = life[q]
  BY <1>0, <1>1 DEF Rename, Page
<1>5. ~Writes(t)' /\ \A u \in Threads : u # t => (Writes(u)' <=> Writes(u))
  BY <1>2, <1>3 DEF Writes
<1>6. ASSUME NEW u \in Threads
      PROVE  /\ fd'[u] = "none" <=> fd[u] = "none"
             /\ fd'[u] = "tmp" => fd[u] = "tmp" /\ (call[u].page # p \/ tmp[p] = "none")
             /\ fd'[u] = "file" => fd[u] = "file" \/ (call[u].page = p /\ fd[u] = "tmp")
             /\ call[u].page # p => fd'[u] = fd[u]
  BY <1>0, <1>1 DEF Rename, Renamed, Page
<1>7. \A u \in Threads : fd[u] # "none" => u # t /\ Writes(u)
  BY <1>1 DEF CacheInv, Files, HasFile, Writes
<1>8. Writes(t)
  BY <1>1 DEF Writes
<1>9. crossed' \subseteq crossed /\ crossed \subseteq crossed' \cup {p}
  BY <1>0 DEF Rename, Page
<1>10. ASSUME NEW u \in Threads, u # t, Writes(u), call[u].page = p
       PROVE  p \in crossed /\ p \in crossed'
  <2>1. p \in crossed
    BY <1>0, <1>8, <1>10 DEF CacheInv, Files, Crossing
  <2>2. u \in Writers(p)
    BY <1>0, <1>10 DEF Writers, Writes, Page, At
  <2>. QED
    BY <1>0, <1>10, <2>1, <2>2 DEF Rename, Page
<1>11. HasFile'
  BY <1>1, <1>2, <1>3, <1>6 DEF CacheInv, Files, HasFile
<1>12. TmpThere'
  <2>. SUFFICES ASSUME NEW u \in Threads, fd'[u] = "tmp"
                PROVE  tmp'[call'[u].page] # "none"
    BY DEF TmpThere
  <2>1. fd[u] = "tmp" /\ tmp[call[u].page] # "none" /\ call[u].page # p
    BY <1>6 DEF CacheInv, Files, TmpThere
  <2>2. u # t /\ call'[u] = call[u] /\ call[u].page \in Pages
    BY <1>1, <1>3, <1>7, <2>1 DEF CallRow
  <2>. QED
    BY <1>4, <2>1, <2>2
<1>13. TmpOpen'
  <2>. SUFFICES ASSUME NEW q \in Pages, tmp'[q] = "part"
                PROVE  \E u \in Threads : call'[u].page = q /\ fd'[u] = "tmp"
    BY DEF TmpOpen
  <2>1. q # p /\ tmp[q] = "part"
    BY <1>4
  <2>2. PICK u \in Threads : call[u].page = q /\ fd[u] = "tmp"
    BY <2>1 DEF CacheInv, Files, TmpOpen
  <2>. QED
    BY <1>3, <1>6, <1>7, <2>1, <2>2
<1>14. Crossing'
  <2>. SUFFICES ASSUME NEW v \in Threads, NEW u \in Threads \ {v}, Writes(v)', Writes(u)',
                       call'[v].page = call'[u].page
                PROVE  call'[v].page \in crossed'
    BY <1>0 DEF Crossing
  <2>1. v # t /\ u # t /\ call'[v] = call[v] /\ call'[u] = call[u] /\ Writes(v) /\ Writes(u)
    BY <1>3, <1>5
  <2>2. call[v].page \in crossed
    BY <1>0, <2>1 DEF CacheInv, Files, Crossing
  <2>. QED
    BY <1>9, <1>10, <2>1, <2>2
<1>15. NamedWhileOpen'
  <2>. SUFFICES ASSUME NEW u \in Threads, fd'[u] = "file"
                PROVE  call'[u].page \in crossed'
    BY DEF NamedWhileOpen
  <2>1. u # t /\ Writes(u) /\ call'[u] = call[u]
    BY <1>3, <1>6, <1>7
  <2>2. CASE call[u].page = p
    BY <1>10, <2>1, <2>2
  <2>3. CASE call[u].page # p
    BY <1>6, <1>9, <2>1, <2>3 DEF CacheInv, Files, NamedWhileOpen
  <2>. QED
    BY <2>2, <2>3
<1>16. LoneWriter'
  <2>. SUFFICES ASSUME NEW u \in Threads, Writes(u)', Sole(u)'
                PROVE  /\ fd'[u] = "tmp" => tmp'[call'[u].page] = "part"
                       /\ call'[u].pc = "open" /\ fd'[u] # "tmp" => tmp'[call'[u].page] = "none"
                       /\ call'[u].pc = "rename" => tmp'[call'[u].page] \in {"none", call'[u].body}
    BY <1>0 DEF LoneWriter
  <2>1. u # t /\ Writes(u) /\ call'[u] = call[u] /\ call[u].page \in Pages
    BY <1>1, <1>3, <1>5 DEF CallRow
  <2>2. CASE call[u].page = p
    <3>1. fd'[u] # "tmp"
      <4>1. SUFFICES ASSUME fd'[u] = "tmp" PROVE FALSE
        OBVIOUS
      <4>2. fd[u] = "tmp" /\ tmp[p] = "none"
        BY <1>6, <2>2, <4>1
      <4>. QED
        BY <2>2, <4>2 DEF CacheInv, Files, TmpThere
    <3>. QED
      BY <1>4, <2>1, <2>2, <3>1
  <2>3. CASE call[u].page # p
    <3>1. Sole(u)
      BY <1>0, <1>3, <1>5, <2>1, <2>3 DEF Sole
    <3>2. fd'[u] = fd[u] /\ tmp'[call[u].page] = tmp[call[u].page]
      BY <1>4, <1>6, <2>1, <2>3
    <3>. QED
      BY <1>0, <2>1, <3>1, <3>2 DEF CacheInv, Files, LoneWriter
  <2>. QED
    BY <2>2, <2>3
<1>17. CutShortIsOpen'
  <2>. SUFFICES ASSUME NEW q \in Pages, file'[q] = "part"
                PROVE  \E u \in Threads : call'[u].page = q /\ fd'[u] = "file"
    BY <1>0 DEF CutShortIsOpen, Page
  <2>1. CASE q = p /\ tmp[p] # "none"
    <3>1. file'[p] = tmp[p] /\ fd' = Renamed(p)
      BY <1>0, <1>1, <2>1 DEF Rename, Page
    <3>2. PICK u \in Threads : call[u].page = p /\ fd[u] = "tmp"
      BY <2>1, <3>1 DEF CacheInv, Files, TmpOpen
    <3>3. fd'[u] = "file"
      BY <1>0, <3>1, <3>2 DEF Renamed, Page
    <3>. QED
      BY <1>3, <1>7, <2>1, <3>2, <3>3
  <2>2. CASE q # p \/ tmp[p] = "none"
    <3>1. file[q] = "part" /\ (q = p => fd' = fd)
      BY <1>0, <1>1, <1>4, <2>2 DEF Rename, Page
    <3>2. PICK u \in Threads : call[u].page = q /\ fd[u] = "file"
      BY <1>0, <3>1 DEF CacheInv, CacheHonest, CutShortIsOpen, Page
    <3>. QED
      BY <1>3, <1>6, <1>7, <3>1, <3>2
  <2>. QED
    BY <2>1, <2>2
<1>18. ASSUME NEW q \in Pages \ crossed' PROVE Whole(q)' /\ AgedSoon(q)'
  <2>0. \A u \in Threads : call[u].pc = "age" => u # t /\ call'[u] = call[u]
    BY <1>1, <1>3
  <2>1. CASE q # p \/ tmp[p] = "none"
    <3>1. q \notin crossed /\ file'[q] = file[q] /\ life'[q] = life[q]
      BY <1>0, <1>1, <1>4, <1>9, <2>1 DEF Rename, Page
    <3>2. Whole(q) /\ AgedSoon(q)
      BY <3>1 DEF CacheInv, CacheHonest
    <3>. QED
      BY <1>0, <2>0, <3>1, <3>2 DEF Whole, AgedSoon, At, Page
  <2>2. CASE q = p /\ tmp[p] # "none"
    <3>1. Sole(t)
      BY <1>0, <1>10, <2>2 DEF Sole
    <3>2. tmp[p] = call[t].body
      BY <1>0, <1>1, <1>8, <2>2, <3>1 DEF CacheInv, Files, LoneWriter
    <3>3. file'[p] = call[t].body
      BY <1>0, <1>1, <2>2, <3>2 DEF Rename, Page
    <3>4. pc = IF ShortLived(p, call[t].body) THEN "age" ELSE "idle"
      <4>1. Goto(t, IF ShortLived(p, call[t].body) THEN "age" ELSE "idle")
        BY <1>0, <2>2 DEF Rename, Page
      <4>2. call'[t].pc = IF ShortLived(p, call[t].body) THEN "age" ELSE "idle"
        BY <4>1, GoesTo
      <4>. QED
        BY <1>3, <4>2
    <3>5. Whole(p)'
      BY <1>1, <3>3 DEF Whole, Cacheable, Payload
    <3>6. AgedSoon(p)'
      BY <1>0, <1>3, <3>3, <3>4 DEF AgedSoon, ShortLived, At, Page
    <3>. QED
      BY <2>2, <3>5, <3>6
  <2>. QED
    BY <2>1, <2>2
<1>. QED
  BY <1>11, <1>12, <1>13, <1>14, <1>15, <1>16, <1>17, <1>18 DEF Files, CacheHonest

(* A step of nobody who writes: another process puts a page down, or an    *)
(* answer gets a shorter life.                                             *)
LEMMA OthersLeave ==
    ASSUME CacheInv, NEW p \in Pages, NEW c, NEW l \in {"stale", "short", "long"},
           file' = [file EXCEPT ![p] = c], life' = [life EXCEPT ![p] = l],
           tmp' = tmp, crossed' = crossed,
           \A u \in Threads : /\ fd'[u] = "none" <=> fd[u] = "none"
                              /\ fd'[u] = "tmp" <=> fd[u] = "tmp"
                              /\ fd'[u] = "file" => fd[u] = "file"
                              /\ call[u].page # p => fd'[u] = fd[u],
           \A u \in Threads : Writes(u) \/ Writes(u)' => call'[u] = call[u],
           \A u \in Threads : call[u].pc = "age" /\ call[u].page # p => call'[u] = call[u],
           \/ c = "full"
           \/ c \in {"empty", "error"} /\ (c = "error" => p \in Objects)
                                       /\ (l = "long" => p \in Indexes)
           \/ c = file[p] /\ l # "long" /\ fd' = fd
    PROVE  Files' /\ CacheHonest'
<1>1. /\ file \in [Pages -> OnDisk] /\ life \in [Pages -> {"stale", "short", "long"}]
      /\ call \in [Threads -> CallRow]
  BY CacheTypes
<1>2. /\ file'[p] = c /\ life'[p] = l
      /\ \A q \in Pages : q # p => file'[q] = file[q] /\ life'[q] = life[q]
  BY <1>1
<1>3. \A u \in Threads : Writes(u)' <=> Writes(u)
  BY DEF Writes
<1>4. \A u \in Threads : fd[u] # "none" => Writes(u) /\ call'[u] = call[u]
  BY DEF CacheInv, Files, HasFile, Writes
<1>5. HasFile'
  BY <1>4 DEF CacheInv, Files, HasFile, Writes
<1>6. TmpThere' /\ TmpOpen'
  BY <1>4 DEF CacheInv, Files, TmpThere, TmpOpen
<1>7. Crossing' /\ NamedWhileOpen'
  BY <1>3, <1>4 DEF CacheInv, Files, Crossing, NamedWhileOpen
<1>8. \A u \in Threads : Writes(u)' /\ Sole(u)' => Writes(u) /\ Sole(u) /\ call'[u] = call[u]
  BY <1>3 DEF Sole
<1>9. LoneWriter'
  BY <1>8 DEF CacheInv, Files, LoneWriter
<1>10. CutShortIsOpen'
  <2>. SUFFICES ASSUME NEW q \in Pages, file'[q] = "part"
                PROVE  \E u \in Threads : call'[u].page = q /\ fd'[u] = "file"
    BY DEF CutShortIsOpen, Page
  <2>1. file[q] = "part" /\ (q = p => fd' = fd)
    BY <1>2
  <2>2. PICK u \in Threads : call[u].page = q /\ fd[u] = "file"
    BY <2>1 DEF CacheInv, CacheHonest, CutShortIsOpen, Page
  <2>. QED
    BY <1>4, <2>1, <2>2
<1>11. ASSUME NEW q \in Pages \ crossed PROVE Whole(q)' /\ AgedSoon(q)'
  <2>1. Whole(q) /\ AgedSoon(q)
    BY DEF CacheInv, CacheHonest
  <2>2. CASE q # p
    <3>1. \A u \in Threads : call[u].pc = "age" /\ call[u].page = q => call'[u] = call[u]
      BY <2>2
    <3>. QED
      BY <1>2, <2>1, <2>2, <3>1 DEF Whole, AgedSoon, At, Page
  <2>3. CASE q = p
    BY <1>2, <2>1, <2>3 DEF Whole, AgedSoon
  <2>. QED
    BY <2>2, <2>3
<1>. QED
  BY <1>5, <1>6, <1>7, <1>9, <1>10, <1>11 DEF Files, CacheHonest

(* A thread ages what it has put down. *)
LEMMA AgeLeaves ==
    ASSUME CacheInv, NEW t \in Threads, Age(t)
    PROVE  Files' /\ CacheHonest'
<1> DEFINE p == call[t].page
<1>1. /\ p \in Pages /\ call[t].pc = "age" /\ Goto(t, "idle")
      /\ life' = [life EXCEPT ![p] = "short"] /\ UNCHANGED << file, tmp, fd, crossed >>
      /\ file \in [Pages -> OnDisk]
  BY CacheTypes DEF Age, At, Page, CallRow
<1>2. (\A u \in Threads : u # t => call'[u] = call[u]) /\ call'[t].pc = "idle"
  BY <1>1, GoesTo
<1>3. file' = [file EXCEPT ![p] = file[p]]
  BY <1>1
<1>4. \A u \in Threads : Writes(u) \/ Writes(u)' => call'[u] = call[u]
  BY <1>1, <1>2 DEF Writes
<1>5. \A u \in Threads : call[u].pc = "age" /\ call[u].page # p => call'[u] = call[u]
  BY <1>2
<1> HIDE DEF p
<1>. QED
  BY <1>1, <1>3, <1>4, <1>5, OthersLeave

(* A new call, the other process, the end of a page's life, and time. *)
LEMMA RestLeaves ==
    ASSUME CacheInv,
           \/ \E t \in Threads : Ask(t)
           \/ \E p \in Pages : OtherProcess(p) \/ Expire(p)
           \/ Tick
           \/ UNCHANGED vars
    PROVE  Files' /\ CacheHonest'
<1>1. call \in [Threads -> CallRow] /\ file \in [Pages -> OnDisk]
  BY CacheTypes
<1>2. ASSUME NEW t \in Threads, Ask(t) PROVE Files' /\ CacheHonest'
  <2>1. PICK p \in Pages : call' = [call EXCEPT ![t] = [NoCall EXCEPT !.pc = "check", !.page = p]]
    BY <1>2 DEF Ask
  <2>2. /\ \A u \in Threads : u # t => call'[u] = call[u]
        /\ call[t].pc = "idle" /\ call'[t].pc = "check" /\ UNCHANGED disk
    BY <1>1, <1>2, <2>1 DEF Ask, At, NoCall
  <2>. QED
    BY <2>2, DiskRests DEF Writing
<1>3. ASSUME NEW p \in Pages, OtherProcess(p) PROVE Files' /\ CacheHonest'
  <2>1. PICK b \in Payload :
            /\ Cacheable(p, b) /\ file' = [file EXCEPT ![p] = b]
            /\ life' = [life EXCEPT ![p] = IF ShortLived(p, b) THEN "short" ELSE "long"]
    BY <1>3 DEF OtherProcess
  <2>2. UNCHANGED << call, tmp, crossed >>
    BY <1>3 DEF OtherProcess
  <2>3. \A u \in Threads : /\ fd'[u] = "none" <=> fd[u] = "none"
                           /\ fd'[u] = "tmp" <=> fd[u] = "tmp"
                           /\ fd'[u] = "file" => fd[u] = "file"
                           /\ call[u].page # p => fd'[u] = fd[u]
    BY <1>3 DEF OtherProcess, Page
  <2> DEFINE l == IF ShortLived(p, b) THEN "short" ELSE "long"
  <2>4. l \in {"stale", "short", "long"}
    OBVIOUS
  <2>5. \/ b = "full"
        \/ b \in {"empty", "error"} /\ (b = "error" => p \in Objects)
                                    /\ (l = "long" => p \in Indexes)
    BY <2>1 DEF Payload, Cacheable, ShortLived
  <2>6. \A u \in Threads : call'[u] = call[u]
    BY <2>2
  <2>7. life' = [life EXCEPT ![p] = l]
    BY <2>1
  <2> HIDE DEF l
  <2>. QED
    BY <2>1, <2>2, <2>3, <2>4, <2>5, <2>6, <2>7, OthersLeave
<1>4. ASSUME NEW p \in Pages, Expire(p) PROVE Files' /\ CacheHonest'
  <2>1. life' = [life EXCEPT ![p] = "stale"] /\ UNCHANGED << call, file, tmp, fd, crossed >>
    BY <1>4 DEF Expire
  <2>2. file' = [file EXCEPT ![p] = file[p]]
    BY <1>1, <2>1
  <2>. QED
    BY <2>1, <2>2, OthersLeave
<1>5. CASE Tick
  <2>1. \A u \in Threads :
            /\ call'[u].pc = call[u].pc /\ call'[u].page = call[u].page
            /\ call'[u].body = call[u].body
    BY <1>1, <1>5 DEF Tick, CallRow
  <2>. QED
    BY <1>5, <2>1, DiskRests DEF Tick
<1>6. CASE UNCHANGED vars
  BY <1>6, DiskRests DEF vars
<1>. QED
  BY <1>2, <1>3, <1>4, <1>5, <1>6

(* Whatever threads of this process and other processes fetch a page at    *)
(* once: a text cut short bears a page's name only while it is written,    *)
(* and a page that no two threads were writing at once is a whole answer   *)
(* which its caller keeps, and believed no longer than its caller says.    *)
THEOREM CacheIsHonest == Spec => []CacheHonest
<1>1. Init => Files /\ CacheHonest
  <2>. SUFFICES ASSUME Init PROVE Files /\ CacheHonest
    OBVIOUS
  <2>1. \A t \in Threads : call[t].pc = "idle" /\ fd[t] = "none"
    BY DEF Init, NoCall
  <2>2. \A p \in Pages : file[p] = "none" /\ tmp[p] = "none"
    BY DEF Init
  <2>3. \A t \in Threads : ~Writes(t)
    BY <2>1 DEF Writes
  <2>4. Files
    BY <2>1, <2>2, <2>3 DEF Files, HasFile, TmpThere, TmpOpen, Crossing, NamedWhileOpen,
                            LoneWriter
  <2>5. CacheHonest
    BY <2>2 DEF CacheHonest, CutShortIsOpen, Whole, AgedSoon
  <2>. QED
    BY <2>4, <2>5
<1>2. CacheInv /\ [Next]_vars => Files' /\ CacheHonest'
  <2>. SUFFICES ASSUME CacheInv, [Next]_vars PROVE Files' /\ CacheHonest'
    OBVIOUS
  <2>1. ASSUME NEW t \in Threads, Step(t) PROVE Files' /\ CacheHonest'
    BY <2>1, FetchLeaves, OpenLeaves, CloseLeaves, RenameLeaves, AgeLeaves DEF Step
  <2>. QED
    BY <2>1, RestLeaves DEF Next
<1>3. CacheInv /\ FetchInv' /\ [Next]_vars => CacheInv'
  BY <1>2 DEF CacheInv
<1>4. FetchInv /\ Files /\ CacheHonest => CacheInv
  BY DEF CacheInv
<1>5. CacheInv => CacheHonest
  BY DEF CacheInv
<1>. QED
  BY <1>1, <1>3, <1>4, <1>5, FetchInvHolds, PTL DEF Spec

=============================================================================
