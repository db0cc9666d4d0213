---- MODULE HostAccessProofs ----
(***************************************************************************)
(* Proofs about HostAccess, for any callers, times and bounds: what        *)
(* RetryRunner.Run promises every caller, and what the reboot wait and the *)
(* plugin wait on top of it answer.                                        *)
(***************************************************************************)
EXTENDS HostAccess, TLAPS

Shaped == /\ call \in [Callers -> Calls] /\ down \in BOOLEAN
          /\ now \in Nat /\ boot \in Nat /\ end \in Nat

(* A Run that is dialling or pausing has started nothing, and it answers   *)
(* only at its end.                                                        *)
Once(r) == /\ r.at # "idle" => r.answer = "none"
           /\ r.at \in {"dial", "pause"} => r.starts = 0
           /\ r.starts <= 1
           /\ r.answer = "connect" /\ ~(now >= r.deadline) => r.starts = 0

(* A Run that began on a guest known to be down never pauses, for the      *)
(* guest is known to be down for as long as the Run is under way.          *)
Lone(r) == r.known => r.tries <= 1 /\ r.at # "pause" /\ (r.at # "idle" => down)

IInv == Shaped /\ \A c \in Callers : Once(call[c]) /\ Lone(call[c])

(* What one caller's record becomes disturbs no other's, while nobody      *)
(* finds the guest up.                                                     *)
LEMMA OneCall ==
  ASSUME IInv, NEW c \in Callers, NEW r \in Calls, call' = [call EXCEPT ![c] = r],
         UNCHANGED <<now, boot, end>>, down' \in BOOLEAN, down => down',
         Once(r), r.known => r.tries <= 1 /\ r.at # "pause" /\ (r.at # "idle" => down')
  PROVE  IInv'
<1>1. Shaped'
  BY DEF IInv, Shaped
<1>2. call'[c] = r /\ \A x \in Callers \ {c} : call'[x] = call[x]
  BY DEF IInv, Shaped
<1>3. ASSUME NEW x \in Callers PROVE Once(call[x])' /\ Lone(call[x])'
  <2>1. CASE x = c
    BY <1>2, <2>1 DEF Once, Lone
  <2>2. CASE x # c
    BY <1>2, <2>2 DEF IInv, Once, Lone
  <2> QED
    BY <2>1, <2>2
<1> QED
  BY <1>1, <1>3 DEF IInv

(* A Run that begins.                                                      *)
LEMMA BeginKeeps ==
  ASSUME IInv, NEW c \in Callers, NEW d \in Nat, call' = [call EXCEPT ![c] = Run(d)],
         UNCHANGED <<now, boot, end, down>>
  PROVE  IInv'
<1>1. NoID \in Nat
  BY TimesAssumption DEF NoID
<1>2. Run(d) \in Calls
  BY <1>1 DEF IInv, Shaped, Run, Idle, Calls, Answers
<1>3. /\ Run(d).at = "dial" /\ Run(d).answer = "none" /\ Run(d).starts = 0
      /\ Run(d).tries = 1 /\ Run(d).known = down
  BY DEF Run, Idle
<1> DEFINE r == Run(d)
<1>4. Once(r)
  BY <1>3 DEF Once
<1>5. r.known => r.tries <= 1 /\ r.at # "pause" /\ (r.at # "idle" => down')
  BY <1>3
<1>6. down' \in BOOLEAN /\ (down => down')
  BY DEF IInv, Shaped
<1> HIDE DEF r
<1> QED
  BY <1>2, <1>4, <1>5, <1>6, OneCall DEF r

(* An attempt that failed, or was cut.                                     *)
LEMMA FailureKeeps ==
  ASSUME IInv, NEW c \in Callers, NEW err \in {"connect", "other"}, AttemptFailed(c, err),
         call[c].at = "dial" \/ (call[c].at = "sent" /\ err = "other"),
         UNCHANGED <<now, boot, end>>
  PROVE  IInv'
<1> DEFINE over(a) == Answered(c, a)
           pause == [call[c] EXCEPT !.at = "pause", !.since = now, !.refused = TRUE]
<1>1. call[c] \in Calls /\ Once(call[c]) /\ Lone(call[c]) /\ down \in BOOLEAN /\ now \in Nat
  BY DEF IInv, Shaped
<1>2. ASSUME NEW a \in Answers
      PROVE  /\ over(a) \in Calls /\ over(a).at = "idle" /\ over(a).answer = a
             /\ over(a).starts = call[c].starts /\ over(a).tries = call[c].tries
             /\ over(a).known = call[c].known /\ over(a).deadline = call[c].deadline
  BY <1>1 DEF Answered, Calls, Answers
<1>3. /\ pause \in Calls /\ pause.at = "pause" /\ pause.answer = call[c].answer
      /\ pause.starts = call[c].starts /\ pause.known = call[c].known
  BY <1>1 DEF Calls
<1>4. call[c].answer = "none" /\ call[c].starts <= 1 /\ (call[c].known => call[c].tries <= 1)
  BY <1>1 DEF Once, Lone
<1> HIDE DEF over, pause
<1>5. CASE call' = [call EXCEPT ![c] = over(AnswerOf(c, err))] /\ UNCHANGED down
  <2>1. AnswerOf(c, err) \in Answers
    BY DEF AnswerOf, Answers
  <2>2. Once(over(AnswerOf(c, err)))
    <3>1. AnswerOf(c, err) = "connect" /\ ~Ended(c) => err = "connect"
      BY DEF AnswerOf
    <3> QED
      BY <1>1, <1>2, <1>4, <2>1, <3>1 DEF Once, Ended
  <2> QED
    BY <1>1, <1>2, <1>4, <1>5, <2>1, <2>2, OneCall
<1>6. CASE MayRetry(c, err) /\ call' = [call EXCEPT ![c] = over("connect")] /\ down' = TRUE
  <2>1. call[c].starts = 0
    BY <1>1, <1>6 DEF MayRetry, Once
  <2>2. "connect" \in Answers
    BY DEF Answers
  <2>3. Once(over("connect"))
    BY <1>2, <2>1, <2>2 DEF Once
  <2> QED
    BY <1>2, <1>4, <1>6, <2>2, <2>3, OneCall
<1>7. CASE MayRetry(c, err) /\ call' = [call EXCEPT ![c] = pause] /\ UNCHANGED down
  <2>1. call[c].starts = 0
    BY <1>1, <1>7 DEF MayRetry, Once
  <2>2. ~call[c].known
    BY <1>1, <1>7 DEF MayRetry, Lone
  <2>3. Once(pause)
    BY <1>3, <1>4, <2>1 DEF Once
  <2> QED
    BY <1>1, <1>3, <1>7, <2>2, <2>3, OneCall
<1> QED
  BY <1>5, <1>6, <1>7 DEF AttemptFailed, over, pause

(* A reply finds the guest up, which every other Run then knows.           *)
LEMMA ReplyKeeps ==
  ASSUME IInv, NEW c \in Callers, Reply(c)
  PROVE  IInv'
<1> DEFINE mine == [Answered(c, "ok") EXCEPT !.id = boot]
           theirs(x) == [call[x] EXCEPT !.known = FALSE]
<1>1. ASSUME NEW x \in Callers PROVE call[x] \in Calls /\ Once(call[x]) /\ Lone(call[x])
  BY <1>1 DEF IInv, Shaped
<1>2. /\ mine \in Calls /\ mine.at = "idle" /\ mine.answer = "ok"
      /\ mine.starts = call[c].starts /\ mine.tries = call[c].tries /\ mine.known = call[c].known
  BY <1>1 DEF IInv, Shaped, Answered, Calls, Answers
<1>3. ASSUME NEW x \in Callers
      PROVE  /\ theirs(x) \in Calls /\ theirs(x).at = call[x].at /\ theirs(x).answer = call[x].answer
             /\ theirs(x).starts = call[x].starts /\ theirs(x).deadline = call[x].deadline
             /\ theirs(x).known = FALSE
  BY <1>1, <1>3 DEF Calls
<1>4. call' = [x \in Callers |-> IF x = c THEN mine ELSE theirs(x)] /\ UNCHANGED <<now, boot, end>> /\ down' = FALSE
  BY DEF Reply, guest, waiting
<1> HIDE DEF mine, theirs
<1>5. Shaped'
  BY <1>2, <1>3, <1>4 DEF IInv, Shaped
<1>6. ASSUME NEW x \in Callers PROVE Once(call[x])' /\ Lone(call[x])'
  <2>1. CASE x = c
    BY <1>1, <1>2, <1>4, <2>1 DEF Once, Lone
  <2>2. CASE x # c
    <3>1. call'[x] = theirs(x)
      BY <1>4, <2>2
    <3> QED
      BY <1>1, <1>3, <1>4, <3>1 DEF Once, Lone
  <2> QED
    BY <2>1, <2>2
<1> QED
  BY <1>5, <1>6 DEF IInv

LEMMA RunnerKeeps ==
  ASSUME IInv, NEW c \in Callers, Runner(c)
  PROVE  IInv'
<1>0. call[c] \in Calls /\ Once(call[c]) /\ Lone(call[c]) /\ down \in BOOLEAN /\ now \in Nat
  BY DEF IInv, Shaped
<1>1. CASE Dial(c)
  <2> DEFINE r == [call[c] EXCEPT !.at = "sent", !.since = now, !.starts = @ + 1]
  <2>1. call' = [call EXCEPT ![c] = r] /\ UNCHANGED <<now, boot, end, down>> /\ call[c].at = "dial"
    BY <1>1 DEF Dial, guest, waiting
  <2>2. /\ r \in Calls /\ r.at = "sent" /\ r.answer = call[c].answer /\ r.starts = call[c].starts + 1
        /\ r.tries = call[c].tries /\ r.known = call[c].known
    <3> DEFINE n == call[c].starts + 1
    <3>1. n \in Nat
      BY <1>0 DEF Calls
    <3> HIDE DEF n
    <3>2. r = [call[c] EXCEPT !.at = "sent", !.since = now, !.starts = n]
      BY DEF n
    <3> HIDE DEF r
    <3>3. /\ r \in Calls /\ r.at = "sent" /\ r.answer = call[c].answer /\ r.starts = n
          /\ r.tries = call[c].tries /\ r.known = call[c].known
      BY <1>0, <3>1, <3>2 DEF Calls
    <3> QED
      BY <3>3 DEF n
  <2> HIDE DEF r
  <2>3. Once(r)
    BY <1>0, <2>1, <2>2 DEF Once
  <2>4. r.known => r.tries <= 1 /\ r.at # "pause" /\ (r.at # "idle" => down')
    BY <1>0, <2>1, <2>2 DEF Lone
  <2>5. down' \in BOOLEAN /\ (down => down')
    BY <1>0, <2>1
  <2> QED
    BY <2>1, <2>2, <2>3, <2>4, <2>5, OneCall
<1>2. CASE Refused(c)
  BY <1>2, FailureKeeps DEF Refused, guest, waiting
<1>3. CASE Dropped(c)
  BY <1>3, FailureKeeps DEF Dropped, guest, waiting
<1>4. CASE Cut(c)
  BY <1>4, FailureKeeps DEF Cut, Trying, guest, waiting
<1>5. CASE Resume(c)
  <2>1. call[c].at = "pause" /\ call[c].starts = 0 /\ ~call[c].known /\ UNCHANGED <<now, boot, end, down>>
    BY <1>0, <1>5 DEF Resume, Once, Lone, guest, waiting
  <2>2. CASE call' = [call EXCEPT ![c] = Answered(c, "connect")]
    <3>1. /\ Answered(c, "connect") \in Calls /\ Answered(c, "connect").at = "idle"
          /\ Answered(c, "connect").starts = 0 /\ ~Answered(c, "connect").known
      BY <1>0, <2>1 DEF Answered, Calls, Answers
    <3> QED
      BY <1>0, <2>1, <2>2, <3>1, OneCall DEF Once
  <2>3. CASE call' = [call EXCEPT ![c].at = "dial", ![c].since = now, ![c].tries = @ + 1]
    <3> DEFINE r == [call[c] EXCEPT !.at = "dial", !.since = now, !.tries = @ + 1]
    <3>1. r \in Calls /\ r.at = "dial" /\ r.starts = 0 /\ r.answer = call[c].answer /\ ~r.known
      <4> DEFINE n == call[c].tries + 1
      <4>1. n \in Nat
        BY <1>0 DEF Calls
      <4> HIDE DEF n
      <4>2. r = [call[c] EXCEPT !.at = "dial", !.since = now, !.tries = n]
        BY DEF n
      <4> HIDE DEF r
      <4> QED
        BY <1>0, <2>1, <4>1, <4>2 DEF Calls
    <3>2. call' = [call EXCEPT ![c] = r]
      BY <2>3
    <3> HIDE DEF r
    <3>3. r.answer = "none"
      BY <1>0, <2>1, <3>1 DEF Once
    <3>4. Once(r)
      BY <3>1, <3>3 DEF Once
    <3>5. down' \in BOOLEAN /\ (down => down')
      BY <1>0, <2>1
    <3> QED
      BY <2>1, <3>1, <3>2, <3>4, <3>5, OneCall
  <2> QED
    BY <1>5, <2>2, <2>3 DEF Resume
<1> QED
  BY <1>1, <1>2, <1>3, <1>4, <1>5, ReplyKeeps DEF Runner

(* The wait takes an answer over, or asks again.                           *)
LEMMA WaitKeeps ==
  ASSUME IInv, Wait
  PROVE  IInv'
<1>0. "wait" \in Callers /\ NoID \in Nat /\ Never \in Nat /\ end \in Nat /\ down \in BOOLEAN
  BY TimesAssumption DEF Callers, NoID, Never, IInv, Shaped
<1>1. UNCHANGED <<now, boot, end, down>>
  BY DEF Wait, AskBootID, SleepOn, RebootTimedOut, GotFirstID, GotSecondID, AskDocker, AskPlugin, GotPlugin,
         guest, waiting
<1>2. CASE UNCHANGED call
  BY <1>1, <1>2 DEF IInv, Shaped, Once, Lone
<1>3. CASE \E d \in Nat : Calling(d)
  BY <1>0, <1>1, <1>3, BeginKeeps DEF Calling
<1>4. CASE Consumed
  <2>1. Idle \in Calls /\ Idle.at = "idle" /\ Idle.answer = "none" /\ Idle.starts = 0 /\ Idle.known = FALSE
    BY <1>0 DEF Idle, Calls, Answers
  <2>2. Once(Idle)
    BY <2>1 DEF Once
  <2> QED
    BY <1>0, <1>1, <1>4, <2>1, <2>2, OneCall DEF Consumed
<1>5. UNCHANGED call \/ (\E d \in Nat : Calling(d)) \/ Consumed
  <2>1. CASE AskBootID
    BY <1>0, <2>1 DEF AskBootID, PollDeadline
  <2>2. CASE SleepOn \/ RebootTimedOut
    BY <2>2 DEF SleepOn, RebootTimedOut
  <2>3. CASE GotFirstID \/ GotSecondID \/ GotPlugin
    BY <2>3 DEF GotFirstID, GotSecondID, GotPlugin
  <2>4. CASE AskDocker \/ AskPlugin
    BY <1>0, <2>4 DEF AskDocker, AskPlugin
  <2> QED
    BY <2>1, <2>2, <2>3, <2>4 DEF Wait
<1> QED
  BY <1>2, <1>3, <1>4, <1>5

(* The guest, the clock and the other callers.                             *)
LEMMA AroundKeeps ==
  ASSUME IInv, SshdStops \/ SshdBack \/ Tick \/ \E c \in Others : OtherCalls(c)
  PROVE  IInv'
<1>1. CASE SshdStops \/ SshdBack
  BY <1>1 DEF SshdStops, SshdBack, waiting, IInv, Shaped, Once, Lone
<1>2. CASE Tick
  <2>1. UNCHANGED <<boot, down, call, end>> /\ now' = now + 1
    BY <1>2 DEF Tick, guest, waiting
  <2>2. ASSUME NEW c \in Callers PROVE Once(call[c])' /\ Lone(call[c])'
    <3>1. call[c] \in Calls /\ Once(call[c]) /\ Lone(call[c]) /\ now \in Nat
      BY DEF IInv, Shaped
    <3> QED
      BY <2>1, <3>1 DEF Once, Lone, Calls
  <2> QED
    BY <2>1, <2>2 DEF IInv, Shaped
<1>3. CASE \E c \in Others : OtherCalls(c)
  <2>1. PICK c \in Others, d \in {Never, now + 1} : call' = [call EXCEPT ![c] = Run(d)]
    BY <1>3 DEF OtherCalls
  <2>2. UNCHANGED <<now, boot, end, down>>
    BY <1>3 DEF OtherCalls, guest, waiting
  <2>3. c \in Callers /\ d \in Nat
    BY TimesAssumption DEF Callers, Never, IInv, Shaped
  <2> QED
    BY <2>1, <2>2, <2>3, BeginKeeps
<1> QED
  BY <1>1, <1>2, <1>3

LEMMA InitHonest == Init => IInv
<1>1. NoID \in Nat
  BY TimesAssumption DEF NoID
<1>2. Idle \in Calls /\ Idle.at = "idle" /\ Idle.answer = "none" /\ Idle.starts = 0 /\ Idle.known = FALSE
  BY <1>1 DEF Idle, Calls, Answers
<1> QED
  BY <1>2, TimesAssumption DEF Init, IInv, Shaped, Once, Lone

THEOREM RunIsHonest == Spec => []IInv
<1>2. IInv /\ [Next]_vars => IInv'
  <2> SUFFICES ASSUME IInv, [Next]_vars PROVE IInv'
    OBVIOUS
  <2>1. CASE UNCHANGED vars
    BY <2>1 DEF vars, guest, waiting, IInv, Shaped, Once, Lone
  <2> QED
    BY <2>1, RunnerKeeps, WaitKeeps, AroundKeeps DEF Next
<1> QED
  BY <1>2, InitHonest, PTL DEF Spec

(* One Run never starts its command twice, and one that answers a refused  *)
(* connection before its caller's deadline has not started it.             *)
THEOREM StartedOnceHolds == Spec => []StartedOnce
<1>1. IInv => StartedOnce
  BY DEF IInv, StartedOnce, Once, Ended
<1> QED
  BY <1>1, RunIsHonest, PTL

(* A Run that begins while the guest is known to be down makes one attempt. *)
THEOREM DeadGuestOnceHolds == Spec => []DeadGuestOnce
<1>1. IInv => DeadGuestOnce
  BY DEF IInv, DeadGuestOnce, Lone
<1> QED
  BY <1>1, RunIsHonest, PTL

-----------------------------------------------------------------------------
(* The wait on top of Run.  WaitBounded and WaitTellsTrue speak of the end   *)
(* of a poll or of the wait; these say what holds while a poll is under way  *)
(* and until its answer is taken over, which is at once: WaitDue stops the   *)
(* clock.                                                                    *)

Polling == phase \in {"new", "settle"}
InRun == My.at # "idle"
Told(a) == My.at = "idle" /\ My.answer = a

(* A poll begins behind its pause, before the bound, and is cut there.     *)
TimeInv ==
  /\ now <= MaxTime /\ wake \in Nat
  /\ ~Polling /\ InRun => My.deadline = Never
  /\ Polling => /\ wake <= end + Poll
                /\ now <= end \/ now <= wake
                /\ InRun => My.deadline = end
                /\ InRun \/ My.answer # "none" => wake <= now /\ now <= end

Agree == lastErr = "connect" <=> heard = "refused"

(* What the wait knows of its last attempt that came to an end.            *)
TellInv ==
  /\ phase = "over" => Told("none")
  /\ result # "none" => phase = "over"
  /\ My.at = "pause" => My.refused
  /\ InRun /\ My.refused => heard = "refused"
  /\ InRun /\ ~My.refused /\ Polling => Agree
  /\ Told("none") /\ Polling => Agree
  /\ Told("connect") => heard = "refused"
  /\ Told("ok") => heard = "answered"
  /\ Told("other") => IF Polling /\ now >= end THEN Agree ELSE heard = "answered"
  /\ result = "unreachable" => heard = "refused"
  /\ result = "fail" => heard # "refused"

(* A reading the wait has not looked at yet.                               *)
Unread(x) == Told("ok") /\ x = <<My.id, now>>

Sighted == \E a, b \in seen : /\ a[1] = b[1] /\ a[1] # 0 /\ b[2] - a[2] >= Settling
                              /\ \A x \in seen : x[1] \in {0, a[1]}

(* Which boots the wait has seen.                                          *)
SeenInv ==
  /\ seen \subseteq Nat \X Nat /\ first \in Nat
  /\ kind = "reboot" => phase \notin {"enabled", "socket"}
  /\ Polling /\ Told("ok") => <<My.id, now>> \in seen
  /\ phase = "new" => \A x \in seen : x[1] = 0 \/ Unread(x)
  /\ phase = "settle" => /\ newID # 0 /\ <<newID, first>> \in seen
                         /\ \A x \in seen : x[1] \in {0, newID} \/ Unread(x)
                         /\ InRun \/ My.answer # "none" => now - first >= Settling
  /\ phase = "docker" => Sighted
  /\ result = "back" /\ kind = "reboot" => Sighted

WaitInv == TimeInv /\ TellInv /\ SeenInv

USE DEF My

LEMMA MyCall ==
  ASSUME IInv
  PROVE  /\ "wait" \in Callers /\ My \in Calls /\ Once(My) /\ now \in Nat /\ end \in Nat /\ boot \in Nat
         /\ Never \in Nat /\ Poll \in Nat \ {0} /\ Settling \in Nat /\ Idle.at = "idle" /\ Idle.answer = "none"
<1>1. "wait" \in Callers /\ Never \in Nat
  BY TimesAssumption DEF Callers, Never
<1>2. Idle.at = "idle" /\ Idle.answer = "none"
  BY DEF Idle
<1> QED
  BY <1>1, <1>2, TimesAssumption DEF IInv, Shaped

\* What a failed attempt of the wait makes of its call.
LEMMA MyFailure ==
  ASSUME IInv, NEW err \in {"connect", "other"}, AttemptFailed("wait", err)
  PROVE  /\ My'.deadline = My.deadline
         /\ \/ My'.at = "idle" /\ My'.answer = AnswerOf("wait", err)
            \/ My'.at = "idle" /\ My'.answer = "connect" /\ err = "connect"
            \/ My'.at = "pause" /\ My'.refused /\ err = "connect"
<1>0. "wait" \in Callers /\ My \in Calls
  BY MyCall
<1> DEFINE pause == [My EXCEPT !.at = "pause", !.since = now, !.refused = TRUE]
<1>1. \A a : Answered("wait", a).at = "idle" /\ Answered("wait", a).answer = a
             /\ Answered("wait", a).deadline = My.deadline
  BY <1>0 DEF Answered, Calls
<1>2. pause.at = "pause" /\ pause.refused /\ pause.deadline = My.deadline
  BY <1>0 DEF Calls
<1>3. ASSUME NEW r, call' = [call EXCEPT !["wait"] = r] PROVE My' = r
  BY <1>0, <1>3 DEF IInv, Shaped
<1>4. \/ call' = [call EXCEPT !["wait"] = Answered("wait", AnswerOf("wait", err))]
      \/ err = "connect" /\ call' = [call EXCEPT !["wait"] = Answered("wait", "connect")]
      \/ err = "connect" /\ call' = [call EXCEPT !["wait"] = pause]
  BY DEF AttemptFailed, MayRetry
<1> HIDE DEF pause
<1> QED
  BY <1>1, <1>2, <1>3, <1>4

\* The wait's own calls; the others' disturb only what it knows of the guest.
LEMMA OtherRuns ==
  ASSUME IInv, NEW c \in Callers, c # "wait",
         Runner(c) \/ OtherCalls(c)
  PROVE  /\ UNCHANGED <<now, waiting, heard, seen>>
         /\ My'.at = My.at /\ My'.deadline = My.deadline /\ My'.answer = My.answer
         /\ My'.id = My.id /\ My'.refused = My.refused
<1>0. "wait" \in Callers /\ My \in Calls /\ call \in [Callers -> Calls]
  BY MyCall DEF IInv, Shaped
<1>1. CASE Reply(c)
  <2>1. My' = [My EXCEPT !.known = FALSE]
    BY <1>0, <1>1 DEF Reply
  <2>2. UNCHANGED <<now, waiting, heard, seen>>
    BY <1>1 DEF Reply, Heard
  <2> QED
    BY <1>0, <2>1, <2>2 DEF Calls
<1>2. CASE Dial(c) \/ Refused(c) \/ Dropped(c) \/ Cut(c) \/ Resume(c) \/ OtherCalls(c)
  <2>1. \E r : call' = [call EXCEPT ![c] = r]
    BY <1>2 DEF Dial, Refused, Dropped, Cut, Resume, OtherCalls, AttemptFailed
  <2>2. UNCHANGED <<now, waiting, heard, seen>>
    BY <1>2 DEF Dial, Refused, Dropped, Cut, Resume, OtherCalls, Heard
  <2>3. My' = My
    BY <1>0, <2>1
  <2> QED
    BY <2>2, <2>3
<1> QED
  BY <1>1, <1>2 DEF Runner

LEMMA WaitUntouched ==
  ASSUME WaitInv, UNCHANGED <<now, waiting, heard, seen>>,
         My'.at = My.at, My'.deadline = My.deadline, My'.answer = My.answer,
         My'.id = My.id, My'.refused = My.refused
  PROVE  WaitInv'
<1>1. TimeInv'
  BY DEF WaitInv, TimeInv, waiting, Polling, InRun
<1>2. TellInv'
  BY DEF WaitInv, TellInv, waiting, Polling, InRun, Told, Agree
<1>3. SeenInv'
  <2>1. \A x : Unread(x)' <=> Unread(x)
    BY DEF Unread, Told
  <2>2. Sighted' <=> Sighted
    BY DEF Sighted
  <2>3. UNCHANGED <<seen, first, kind, phase, newID, result, now>>
    BY DEF waiting
  <2>4. (Polling /\ Told("ok"))' = (Polling /\ Told("ok")) /\ (InRun \/ My.answer # "none")' = (InRun \/ My.answer # "none")
    BY <2>3 DEF Polling, Told, InRun
  <2> HIDE DEF Unread, Sighted
  <2> QED
    BY <2>1, <2>2, <2>3, <2>4 DEF WaitInv, SeenInv, Polling, Told, InRun
<1> QED
  BY <1>1, <1>2, <1>3 DEF WaitInv

\* One step of the wait's own Run.
LEMMA RunKeepsTime ==
  ASSUME IInv, TimeInv, Runner("wait")
  PROVE  TimeInv' /\ UNCHANGED <<now, waiting>> /\ InRun /\ My'.deadline = My.deadline
<1>0. "wait" \in Callers /\ My \in Calls /\ call \in [Callers -> Calls]
  BY MyCall DEF IInv, Shaped
<1>1. UNCHANGED <<now, waiting>> /\ InRun
  BY DEF Runner, Dial, Reply, Refused, Dropped, Cut, Resume, Trying, InRun
<1>2. My'.deadline = My.deadline
  <2>1. CASE Dial("wait")
    BY <1>0, <2>1 DEF Dial, Calls
  <2>2. CASE Reply("wait")
    BY <1>0, <2>2 DEF Reply, Answered, Calls
  <2>3. CASE Refused("wait") \/ Dropped("wait") \/ Cut("wait")
    BY <2>3, MyFailure DEF Refused, Dropped, Cut
  <2>4. CASE Resume("wait")
    <3>1. CASE call' = [call EXCEPT !["wait"] = Answered("wait", "connect")]
      BY <1>0, <3>1 DEF Answered, Calls
    <3>2. CASE call' = [call EXCEPT !["wait"].at = "dial", !["wait"].since = now, !["wait"].tries = @ + 1]
      BY <1>0, <3>2 DEF Calls
    <3> QED
      BY <2>4, <3>1, <3>2 DEF Resume
  <2> QED
    BY <2>1, <2>2, <2>3, <2>4 DEF Runner
<1>3. TimeInv'
  BY <1>1, <1>2 DEF TimeInv, waiting, Polling, InRun
<1> QED
  BY <1>1, <1>2, <1>3

LEMMA RunKeepsTell ==
  ASSUME IInv, TimeInv, TellInv, Runner("wait")
  PROVE  TellInv'
<1>0. "wait" \in Callers /\ My \in Calls /\ call \in [Callers -> Calls] /\ Once(My) /\ now \in Nat /\ end \in Nat
  BY MyCall DEF IInv, Shaped
<1>1. UNCHANGED <<now, waiting>> /\ InRun /\ My'.deadline = My.deadline
  BY RunKeepsTime
<1>2. phase # "over" /\ result = "none"
  BY <1>1 DEF TellInv, InRun, Told
<1>3. Ended("wait") => Polling /\ now >= end
  BY <1>0, <1>1, TimesAssumption DEF TimeInv, Ended, Never, Calls
<1>4. Polling /\ now >= end => Ended("wait")
  BY <1>0, <1>1 DEF TimeInv, Ended
<1>a. phase' = phase /\ result' = result /\ lastErr' = lastErr /\ now' = now /\ end' = end
  BY <1>1 DEF waiting
<1>b. (Polling' <=> Polling) /\ (Polling' /\ now' >= end' <=> Polling /\ now >= end)
  BY <1>a DEF Polling
<1> USE <1>a, <1>b DEF TellInv, InRun, Told, Agree
<1>5. CASE Dial("wait")
  <2>1. My'.at = "sent" /\ My'.refused = My.refused /\ heard' = heard
    BY <1>0, <1>5 DEF Dial, Calls
  <2> QED
    BY <1>1, <1>2, <2>1
<1>6. CASE Reply("wait")
  <2>1. My'.at = "idle" /\ My'.answer = "ok" /\ heard' = "answered"
    BY <1>0, <1>6 DEF Reply, Answered, Calls, Heard
  <2> QED
    BY <1>1, <1>2, <2>1
<1>7. CASE Refused("wait")
  <2>1. heard' = "refused"
    BY <1>7 DEF Refused, Heard
  <2>2. AnswerOf("wait", "connect") = "connect"
    BY DEF AnswerOf
  <2>3. (My'.at = "idle" /\ My'.answer = "connect") \/ (My'.at = "pause" /\ My'.refused)
    BY <1>7, <2>2, MyFailure DEF Refused
  <2> QED
    BY <1>1, <1>2, <2>1, <2>3
<1>8. CASE Dropped("wait") \/ Cut("wait")
  <2>1. My'.at = "idle" /\ My'.answer = AnswerOf("wait", "other")
    BY <1>8, MyFailure DEF Dropped, Cut
  <2>2. CASE Ended("wait")
    <3>1. heard' = heard
      BY <1>8, <2>2 DEF Dropped, Cut
    <3>2. CASE My.refused
      <4>1. My'.answer = "connect"
        BY <2>1, <2>2, <3>2 DEF AnswerOf
      <4> QED
        BY <1>1, <1>2, <2>1, <3>1, <3>2, <4>1
    <3>3. CASE ~My.refused
      <4>1. My'.answer = "other"
        BY <2>1, <3>3 DEF AnswerOf
      <4> QED
        BY <1>1, <1>2, <1>3, <2>1, <2>2, <3>1, <3>3, <4>1
    <3> QED
      BY <3>2, <3>3
  <2>3. CASE ~Ended("wait")
    <3>1. heard' = "answered"
      BY <1>8, <2>3 DEF Dropped, Cut, Heard
    <3>2. My'.answer = "other"
      BY <2>1, <2>3 DEF AnswerOf
    <3> QED
      BY <1>1, <1>2, <1>4, <2>1, <2>3, <3>1, <3>2
  <2> QED
    BY <2>2, <2>3
<1>9. CASE Resume("wait")
  <2>1. heard' = heard /\ My.at = "pause" /\ My.answer = "none"
    BY <1>0, <1>9 DEF Resume, Once
  <2>2. CASE call' = [call EXCEPT !["wait"] = Answered("wait", "connect")]
    <3>1. My' = Answered("wait", "connect")
      BY <1>0, <2>2
    <3>2. My'.at = "idle" /\ My'.answer = "connect"
      BY <1>0, <3>1 DEF Answered, Calls
    <3>3. My.refused
      BY <2>1
    <3> QED
      BY <1>1, <1>2, <2>1, <3>2, <3>3
  <2>3. CASE call' = [call EXCEPT !["wait"].at = "dial", !["wait"].since = now, !["wait"].tries = @ + 1]
    <3>1. My'.at = "dial" /\ My'.refused = My.refused
      BY <1>0, <2>3 DEF Calls
    <3> QED
      BY <1>1, <1>2, <2>1, <3>1
  <2> QED
    BY <1>9, <2>2, <2>3 DEF Resume
<1> QED
  BY <1>5, <1>6, <1>7, <1>8, <1>9 DEF Runner

LEMMA RunKeepsSeen ==
  ASSUME IInv, WaitInv, Runner("wait")
  PROVE  SeenInv'
<1> USE DEF WaitInv
<1>0. "wait" \in Callers /\ My \in Calls /\ call \in [Callers -> Calls] /\ Once(My) /\ now \in Nat /\ boot \in Nat
  BY MyCall DEF IInv, Shaped
<1>1. UNCHANGED <<now, kind, phase, newID, first, result>> /\ InRun
  BY RunKeepsTime DEF waiting
<1>2. ~Told("ok") /\ \A x : ~Unread(x)
  BY <1>1 DEF Told, Unread, InRun
<1>3. CASE Reply("wait")
  <2>1. My'.at = "idle" /\ My'.answer = "ok" /\ My'.id = boot
    BY <1>0, <1>3 DEF Reply, Answered, Calls
  <2>2. Told("ok")' /\ \A x : Unread(x)' <=> x = <<boot, now>>
    BY <1>1, <2>1 DEF Told, Unread
  <2>3. CASE phase \in {"new", "settle"}
    <3>1. seen' = seen \cup {<<boot, now>>}
      BY <1>3, <2>3 DEF Reply
    <3>2. seen' \subseteq Nat \X Nat
      BY <1>0, <3>1 DEF SeenInv
    <3>3. \A x \in seen' : x \in seen \/ Unread(x)'
      BY <2>2, <3>1
    <3>4. <<My.id, now>>' \in seen'
      BY <1>1, <2>1, <3>1
    <3>5. phase = "new" => \A x \in seen' : x[1] = 0 \/ Unread(x)'
      BY <1>2, <3>3 DEF SeenInv
    <3>6. phase = "settle" => /\ <<newID, first>> \in seen'
                              /\ \A x \in seen' : x[1] \in {0, newID} \/ Unread(x)'
      BY <1>2, <3>1, <3>3 DEF SeenInv
    <3>7. phase = "settle" => now - first >= Settling /\ newID # 0
      BY <1>1 DEF SeenInv
    <3>8. phase # "docker" /\ (kind = "reboot" => phase \notin {"enabled", "socket"}) /\ first \in Nat
          /\ (result = "back" /\ kind = "reboot" => Sighted)
      BY <2>3 DEF SeenInv
    <3>9. result # "back"
      BY <2>3 DEF TellInv
    <3> QED
      BY <1>1, <2>3, <3>2, <3>4, <3>5, <3>6, <3>7, <3>8, <3>9 DEF SeenInv, Polling
  <2>4. CASE phase \notin {"new", "settle"}
    <3>1. seen' = seen
      BY <1>3, <2>4 DEF Reply
    <3>2. Sighted' = Sighted
      BY <3>1 DEF Sighted
    <3> QED
      BY <1>1, <2>4, <3>1, <3>2 DEF SeenInv, Polling
  <2> QED
    BY <2>3, <2>4
<1>4. CASE Dial("wait") \/ Refused("wait") \/ Dropped("wait") \/ Cut("wait") \/ Resume("wait")
  <2>1. My'.at # "idle" \/ My'.answer # "ok"
    <3>1. CASE Dial("wait")
      BY <1>0, <3>1 DEF Dial, Calls
    <3>2. CASE Refused("wait") \/ Dropped("wait") \/ Cut("wait")
      BY <3>2, MyFailure DEF Refused, Dropped, Cut, AnswerOf
    <3>3. CASE call' = [call EXCEPT !["wait"] = Answered("wait", "connect")]
      BY <1>0, <3>3 DEF Answered, Calls
    <3>4. CASE call' = [call EXCEPT !["wait"].at = "dial", !["wait"].since = now, !["wait"].tries = @ + 1]
      BY <1>0, <3>4 DEF Calls
    <3> QED
      BY <1>4, <3>1, <3>2, <3>3, <3>4 DEF Resume
  <2>2. ~(Told("ok")') /\ \A x : ~(Unread(x)')
    BY <2>1 DEF Told, Unread
  <2>3. seen' = seen /\ Sighted' = Sighted
    BY <1>4 DEF Dial, Refused, Dropped, Cut, Resume, Sighted
  <2> QED
    BY <1>1, <1>2, <2>2, <2>3 DEF SeenInv, Polling
<1> QED
  BY <1>3, <1>4 DEF Runner

\* The wait asks, and takes an answer over.
LEMMA Asked ==
  ASSUME IInv, NEW d \in Nat, Calling(d)
  PROVE  My'.at = "dial" /\ My'.deadline = d /\ ~My'.refused /\ My'.answer = "none"
<1>1. "wait" \in Callers /\ call \in [Callers -> Calls]
  BY MyCall DEF IInv, Shaped
<1>2. My' = Run(d)
  BY <1>1 DEF Calling
<1> QED
  BY <1>2 DEF Run, Idle

LEMMA Taken ==
  ASSUME IInv, Consumed
  PROVE  My'.at = "idle" /\ My'.answer = "none"
<1>1. "wait" \in Callers /\ call \in [Callers -> Calls]
  BY MyCall DEF IInv, Shaped
<1>2. My' = Idle
  BY <1>1 DEF Consumed
<1> QED
  BY <1>2, MyCall

LEMMA AskKeeps ==
  ASSUME IInv, WaitInv, NEW d \in Nat, Calling(d), UNCHANGED <<now, waiting, heard, seen>>,
         Free, phase # "over", Polling => d = end /\ now < end, ~Polling => d = Never,
         phase = "settle" => now - first >= Settling
  PROVE  WaitInv'
<1>0. now \in Nat /\ end \in Nat /\ UNCHANGED <<phase, kind, end, wake, newID, first, lastErr, result>>
  BY MyCall DEF waiting
<1>1. My'.at = "dial" /\ My'.deadline = d /\ ~My'.refused /\ My'.answer = "none"
  BY Asked
<1>2. \A a : ~(Told(a)') /\ (a # "none" => ~Told(a))
  BY <1>1 DEF Told, Free
<1>3. TimeInv'
  BY <1>0, <1>1 DEF WaitInv, TimeInv, Free, Polling, InRun
<1>4. TellInv'
  <2>1. Told("none") /\ result = "none"
    BY DEF WaitInv, TellInv, Told, Free
  <2>2. Polling => Agree'
    BY <1>0, <2>1 DEF WaitInv, TellInv, Agree
  <2> QED
    BY <1>0, <1>1, <1>2, <2>1, <2>2 DEF TellInv, Polling
<1>5. SeenInv'
  <2>1. \A x : ~Unread(x) /\ ~(Unread(x)')
    BY <1>2 DEF Unread
  <2>2. Sighted' = Sighted
    BY DEF Sighted
  <2> QED
    BY <1>0, <1>2, <2>1, <2>2 DEF WaitInv, SeenInv, Polling
<1> QED
  BY <1>3, <1>4, <1>5 DEF WaitInv

\* The window is slept through, or the bound is reached.
LEMMA RestKeeps ==
  ASSUME IInv, WaitInv, SleepOn \/ RebootTimedOut
  PROVE  WaitInv'
<1>0. /\ now \in Nat /\ end \in Nat /\ Poll \in Nat /\ wake \in Nat
      /\ UNCHANGED <<now, call, kind, end, newID, first, lastErr, heard, seen>>
      /\ Told("none") /\ Polling /\ result = "none" /\ Agree /\ ~InRun /\ phase # "over"
  BY MyCall DEF SleepOn, RebootTimedOut, Free, WaitInv, TimeInv, TellInv, Told, Polling, InRun
<1>1. \A a : (Told(a)' <=> Told(a)) /\ (a # "none" => ~Told(a))
  BY <1>0 DEF Told
<1>2. (\A x : ~Unread(x) /\ ~(Unread(x)')) /\ Sighted' = Sighted /\ Agree' = Agree
  BY <1>0, <1>1 DEF Unread, Sighted, Agree
<1>3. CASE SleepOn
  <2>1. wake' = now + Poll /\ now < end /\ UNCHANGED <<phase, result>>
    BY <1>3 DEF SleepOn
  <2>2. TimeInv'
    BY <1>0, <1>1, <2>1 DEF WaitInv, TimeInv, Polling, InRun, Told
  <2>3. TellInv'
    BY <1>0, <1>1, <1>2, <2>1 DEF WaitInv, TellInv, Polling, InRun
  <2>4. SeenInv'
    BY <1>0, <1>1, <1>2, <2>1 DEF WaitInv, SeenInv, Polling, InRun, Told
  <2> QED
    BY <2>2, <2>3, <2>4 DEF WaitInv
<1>4. CASE RebootTimedOut
  <2>1. phase' = "over" /\ wake' = wake /\ result' = IF lastErr = "connect" THEN "unreachable" ELSE "fail"
    BY <1>4 DEF RebootTimedOut, TimedOut, Result
  <2>2. TimeInv'
    BY <1>0, <2>1 DEF WaitInv, TimeInv, Polling, InRun
  <2>3. TellInv'
    BY <1>0, <1>1, <2>1 DEF WaitInv, TellInv, Polling, InRun, Agree
  <2>4. SeenInv'
    BY <1>0, <2>1 DEF WaitInv, SeenInv, Polling
  <2> QED
    BY <2>2, <2>3, <2>4 DEF WaitInv
<1> QED
  BY <1>3, <1>4

\* What the wait makes of an answer.
LEMMA TellsTrue ==
  ASSUME IInv, WaitInv, Back, Polling, lastErr' = Tells, heard' = heard
  PROVE  Agree' /\ wake <= now /\ now <= end /\ result = "none"
<1>1. wake <= now /\ now <= end /\ result = "none" /\ now \in Nat /\ end \in Nat
  BY MyCall DEF WaitInv, TimeInv, TellInv, Back, Polling
<1>2. My.answer \in {"ok", "connect", "other"} /\ \A a : Told(a) <=> a = My.answer
  BY MyCall DEF Back, Calls, Answers, Told
<1>3. Agree'
  BY <1>1, <1>2 DEF WaitInv, TellInv, Tells, Agree
<1> QED
  BY <1>1, <1>3

\* Nothing is left to look at.
LEMMA SeenAfter ==
  ASSUME SeenInv, UNCHANGED <<seen, kind>>, My'.at = "idle", My'.answer = "none",
         first' \in Nat, kind = "reboot" => phase' \notin {"enabled", "socket"},
         phase' = "new" => \A x \in seen : x[1] = 0,
         phase' = "settle" => /\ newID' # 0 /\ <<newID', first'>> \in seen
                              /\ \A x \in seen : x[1] \in {0, newID'},
         phase' = "docker" => Sighted,
         result' = "back" /\ kind = "reboot" => Sighted
  PROVE  SeenInv'
<1>1. ~InRun' /\ ~(Told("ok")')
  BY DEF InRun, Told
<1>2. Sighted' = Sighted
  BY DEF Sighted
<1>3. seen' \subseteq Nat \X Nat
  BY DEF SeenInv
<1> QED
  BY <1>1, <1>2, <1>3 DEF SeenInv

LEMMA GotKeeps ==
  ASSUME IInv, WaitInv, GotFirstID \/ GotSecondID
  PROVE  WaitInv'
<1>0. /\ now \in Nat /\ end \in Nat /\ Poll \in Nat /\ My \in Calls
      /\ UNCHANGED <<now, kind, end, heard, seen>>
      /\ Back /\ Polling /\ lastErr' = Tells
  BY MyCall DEF GotFirstID, GotSecondID, Polling
<1>1. My'.at = "idle" /\ My'.answer = "none"
  BY Taken DEF GotFirstID, GotSecondID
<1>2. \A a : Told(a)' <=> a = "none"
  BY <1>1 DEF Told
<1>3. (\A x : ~(Unread(x)')) /\ Sighted' = Sighted
  BY <1>0, <1>2 DEF Unread, Sighted
<1>4. Agree' /\ wake <= now /\ now <= end /\ result = "none"
  BY <1>0, TellsTrue
<1>5. Told("ok") <=> My.answer = "ok"
  BY <1>0 DEF Told, Back
<1>6. \A x : Unread(x) <=> My.answer = "ok" /\ x = <<My.id, now>>
  BY <1>5 DEF Unread
<1>7. CASE GotFirstID
  <2>1. /\ phase = "new" /\ result' = "none"
        /\ \/ NewBoot /\ newID' = My.id /\ first' = now /\ phase' = "settle" /\ wake' = now
           \/ ~NewBoot /\ wake' = now + Poll /\ UNCHANGED <<newID, first, phase>>
    BY <1>4, <1>7 DEF GotFirstID
  <2>2. TimeInv'
    BY <1>0, <1>1, <1>4, <2>1 DEF WaitInv, TimeInv, Polling, InRun
  <2>3. TellInv'
    BY <1>1, <1>2, <1>4, <2>1 DEF TellInv, Polling, InRun
  <2>4. CASE NewBoot
    <3>1. newID' # 0 /\ <<newID', first'>> \in seen /\ \A x \in seen : x[1] \in {0, newID'}
      BY <1>0, <1>5, <1>6, <2>1, <2>4 DEF WaitInv, SeenInv, NewBoot
    <3>3. first' \in Nat /\ SeenInv
      BY <1>0, <2>1, <2>4 DEF WaitInv
    <3> QED
      BY <1>0, <1>1, <2>1, <2>4, <3>1, <3>3, SeenAfter, <2>2, <2>3 DEF WaitInv
  <2>5. CASE ~NewBoot
    <3>1. \A x \in seen : x[1] = 0
      BY <1>6, <2>1, <2>5 DEF WaitInv, SeenInv, NewBoot
    <3>2. first' \in Nat /\ SeenInv
      BY <2>1, <2>5 DEF WaitInv, SeenInv
    <3> QED
      BY <1>0, <1>1, <2>1, <2>5, <3>1, <3>2, SeenAfter, <2>2, <2>3 DEF WaitInv
  <2> QED
    BY <2>2, <2>3, <2>4, <2>5 DEF WaitInv
<1>8. CASE GotSecondID
  <2>1. /\ phase = "settle" /\ UNCHANGED <<newID, first>>
        /\ \/ My.answer = "ok" /\ My.id = newID /\ phase' = "docker" /\ wake' = now /\ result' = "none"
           \/ My.answer = "ok" /\ phase' = "over" /\ result' = "rebooted" /\ wake' = wake
           \/ My.answer # "ok" /\ wake' = now + Poll /\ phase' = "settle" /\ result' = "none"
    BY <1>4, <1>8 DEF GotSecondID, Result
  <2>2. TimeInv'
    <3>1. now <= MaxTime /\ wake \in Nat
      BY DEF WaitInv, TimeInv
    <3>2. wake' \in Nat /\ (Polling' => wake' = now + Poll) /\ ~InRun'
      <4>1. ~InRun'
        BY <1>1 DEF InRun
      <4>2. wake' \in Nat
        BY <1>0, <2>1, <3>1
      <4>3. Polling' => wake' = now + Poll
        BY <2>1 DEF Polling
      <4> QED
        BY <4>1, <4>2, <4>3
    <3> QED
      BY <1>0, <1>1, <1>4, <3>1, <3>2 DEF TimeInv
  <2>3. TellInv'
    BY <1>1, <1>2, <1>4, <2>1 DEF TellInv, Polling, InRun
  <2>10. first' \in Nat /\ SeenInv
    BY <2>1 DEF WaitInv, SeenInv
  <2>4. CASE My.answer = "ok" /\ My.id = newID
    <3>1. /\ <<newID, first>> \in seen /\ <<newID, now>> \in seen /\ now - first >= Settling
          /\ newID # 0
      BY <1>0, <1>5, <2>1, <2>4 DEF WaitInv, SeenInv, Back
    <3>2. \A x \in seen : x[1] \in {0, newID}
      BY <1>6, <2>1, <2>4 DEF WaitInv, SeenInv
    <3>3. Sighted
      BY <3>1, <3>2 DEF Sighted
    <3> QED
      BY <1>0, <1>1, <2>1, <2>4, <2>10, <3>3, SeenAfter, <2>2, <2>3 DEF WaitInv
  <2>5. CASE My.answer = "ok" /\ phase' = "over"
    BY <1>0, <1>1, <2>1, <2>5, <2>10, SeenAfter, <2>2, <2>3 DEF WaitInv
  <2>6. CASE My.answer # "ok"
    <3>1. \A x \in seen : x[1] \in {0, newID}
      BY <1>6, <2>1, <2>6 DEF WaitInv, SeenInv
    <3>2. newID # 0 /\ <<newID, first>> \in seen
      BY <2>1 DEF WaitInv, SeenInv
    <3> QED
      BY <1>0, <1>1, <2>1, <2>6, <2>10, <3>1, <3>2, SeenAfter, <2>2, <2>3 DEF WaitInv
  <2> QED
    BY <2>1, <2>2, <2>3, <2>4, <2>5, <2>6 DEF WaitInv
<1> QED
  BY <1>7, <1>8

\* docker info and the plugin's readings run behind the polls.
LEMMA LateKeeps ==
  ASSUME IInv, WaitInv, AskDocker \/ GotPlugin, Consumed, Back
  PROVE  WaitInv'
<1>0. /\ now \in Nat /\ Poll \in Nat /\ My \in Calls /\ SeenInv /\ wake \in Nat /\ now <= MaxTime
      /\ phase \in {"docker", "enabled", "socket"} /\ ~Polling /\ result = "none"
      /\ UNCHANGED <<now, kind, end, newID, first, heard, seen>> /\ first \in Nat
  BY MyCall DEF AskDocker, GotPlugin, WaitInv, TimeInv, TellInv, SeenInv, Polling
<1>1. My'.at = "idle" /\ My'.answer = "none"
  BY Taken
<1>2. \A a : Told(a)' <=> a = "none"
  BY <1>1 DEF Told
<1>3. My.answer \in {"ok", "connect", "other"} /\ \A a : Told(a) <=> a = My.answer
  BY <1>0 DEF Back, Calls, Answers, Told
<1>4. heard = IF My.answer = "connect" THEN "refused" ELSE "answered"
  BY <1>0, <1>3 DEF WaitInv, TellInv
<1>5. /\ phase' \in {"socket", "enabled", "over"} /\ wake' \in Nat
      /\ result' = "none" \/ phase' = "over"
      /\ result' = "unreachable" => My.answer = "connect"
      /\ result' = "fail" => My.answer # "connect"
      /\ phase' # "over" => phase # "docker"
      /\ result' = "back" => phase # "enabled"
  <2>1. CASE AskDocker
    <3>1. /\ phase' = "over" /\ wake' = wake
          /\ result' = CASE My.answer = "ok" -> "back" [] My.answer = "connect" -> "unreachable"
                         [] OTHER -> "fail"
      BY <2>1 DEF AskDocker, Result, Back, Free
    <3> QED
      BY <1>0, <1>3, <3>1, <2>1 DEF AskDocker
  <2>2. CASE GotPlugin
    BY <1>0, <1>3, <2>2 DEF GotPlugin, PluginNotReady, PluginTells, Result
  <2> QED
    BY <2>1, <2>2
<1>6. TimeInv'
  BY <1>0, <1>1, <1>5 DEF TimeInv, Polling, InRun
<1>7. TellInv'
  BY <1>0, <1>1, <1>2, <1>4, <1>5 DEF TellInv, Polling, InRun
<1>8. SeenInv'
  <2>1. kind = "reboot" => phase = "docker" /\ Sighted
    BY <1>0 DEF SeenInv
  <2> QED
    BY <1>0, <1>1, <1>5, <2>1, SeenAfter
<1> QED
  BY <1>6, <1>7, <1>8 DEF WaitInv

LEMMA WaitKeepsWait ==
  ASSUME IInv, WaitInv, Wait
  PROVE  WaitInv'
<1>0. end \in Nat /\ Never \in Nat /\ now \in Nat
  BY MyCall
<1>1. CASE AskBootID
  <2>1. /\ Calling(end) /\ UNCHANGED <<now, waiting, heard, seen>> /\ Free /\ phase # "over" /\ Polling /\ now < end
        /\ phase = "settle" => now - first >= Settling
    BY <1>1 DEF AskBootID, PollDeadline, Polling
  <2> QED
    BY <1>0, <2>1, AskKeeps
<1>2. CASE SleepOn \/ RebootTimedOut
  BY <1>2, RestKeeps
<1>3. CASE GotFirstID \/ GotSecondID
  BY <1>3, GotKeeps
<1>4. CASE (AskDocker /\ Free) \/ AskPlugin
  <2>1. /\ Calling(Never) /\ UNCHANGED <<now, waiting, heard, seen>> /\ Free /\ phase # "over" /\ ~Polling
        /\ phase # "settle"
    BY <1>4 DEF AskDocker, AskPlugin, Polling, Free, Back, waiting
  <2> QED
    BY <1>0, <2>1, AskKeeps
<1>5. CASE (AskDocker /\ Back) \/ GotPlugin
  <2>1. Consumed /\ Back /\ (AskDocker \/ GotPlugin)
    BY <1>5 DEF AskDocker, GotPlugin, Free, Back
  <2> QED
    BY <2>1, LateKeeps
<1> QED
  BY <1>1, <1>2, <1>3, <1>4, <1>5 DEF Wait, AskDocker

\* Time passes only while the wait's Run has nothing due and no answer lies
\* unread.
LEMMA TickKeeps ==
  ASSUME IInv, WaitInv, Tick
  PROVE  WaitInv'
<1>0. /\ now \in Nat /\ end \in Nat /\ wake \in Nat /\ My \in Calls /\ first \in Nat
      /\ now' = now + 1 /\ now < MaxTime /\ MaxTime \in Nat /\ ~Due("wait") /\ ~WaitDue
  BY MyCall, TimesAssumption DEF Tick, WaitInv, TimeInv, SeenInv
<1>1. UNCHANGED <<call, kind, phase, end, wake, newID, first, lastErr, result, heard, seen>>
  BY DEF Tick, waiting
<1>2. (\A a : Told(a)' = Told(a)) /\ InRun' = InRun /\ Polling' = Polling /\ Agree' = Agree /\ Sighted' = Sighted
  BY <1>1 DEF Told, InRun, Polling, Agree, Sighted
<1>3. Polling /\ ~InRun => now < wake /\ My.answer = "none"
  BY <1>0 DEF WaitDue, Polling, InRun, WaitInv, TimeInv
<1>4. Polling /\ InRun => now < end
  <2>1. Polling /\ InRun => ~Ended("wait")
    BY <1>0 DEF Due, Trying, InRun, Calls
  <2> QED
    BY <1>0, <2>1 DEF Ended, WaitInv, TimeInv
<1>5. TimeInv'
  BY <1>0, <1>1, <1>2, <1>3, <1>4 DEF WaitInv, TimeInv, InRun
<1>6. TellInv'
  <2>1. Polling => ~Told("other")
    BY <1>3 DEF Told, InRun
  <2> QED
    BY <1>1, <1>2, <2>1 DEF WaitInv, TellInv
<1>7. SeenInv'
  <2>1. Polling => ~Told("ok")
    BY <1>3 DEF Told, InRun
  <2>2. Polling => \A x : ~Unread(x) /\ ~(Unread(x)')
    BY <1>2, <2>1 DEF Unread
  <2>3. now - first >= Settling => now' - first >= Settling
    BY <1>0, TimesAssumption
  <2> QED
    BY <1>1, <1>2, <2>1, <2>2, <2>3 DEF WaitInv, SeenInv, Polling
<1> QED
  BY <1>5, <1>6, <1>7 DEF WaitInv

THEOREM WaitInvariant == Spec => [](IInv /\ WaitInv)
<1>1. Init => WaitInv
  <2>1. Init => My.at = "idle" /\ My.answer = "none"
    BY DEF Init, Callers, Idle
  <2>2. Init => TimeInv
    BY <2>1, TimesAssumption DEF Init, TimeInv, Polling, InRun
  <2>3. Init => TellInv
    BY <2>1 DEF Init, TellInv, Told, InRun, Agree
  <2>4. Init => SeenInv
    BY <2>1 DEF Init, SeenInv, Told, Polling
  <2> QED
    BY <2>2, <2>3, <2>4 DEF WaitInv
<1>2. IInv /\ WaitInv /\ [Next]_vars => WaitInv'
  <2> SUFFICES ASSUME IInv, WaitInv, [Next]_vars PROVE WaitInv'
    OBVIOUS
  <2>1. CASE Runner("wait")
    <3>1. TimeInv'
      BY <2>1, RunKeepsTime DEF WaitInv
    <3>2. TellInv'
      BY <2>1, RunKeepsTell DEF WaitInv
    <3>3. SeenInv'
      BY <2>1, RunKeepsSeen
    <3> QED
      BY <3>1, <3>2, <3>3 DEF WaitInv
  <2>2. CASE \E c \in Callers \ {"wait"} : Runner(c) \/ OtherCalls(c)
    BY <2>2, OtherRuns, WaitUntouched
  <2>3. CASE SshdStops \/ SshdBack \/ UNCHANGED vars
    <3>1. UNCHANGED <<now, waiting, heard, seen, call>>
      BY <2>3 DEF SshdStops, SshdBack, vars
    <3> QED
      BY <3>1, WaitUntouched
  <2>4. CASE Tick
    BY <2>4, TickKeeps
  <2>5. CASE Wait
    BY <2>5, WaitKeepsWait
  <2>6. Others \subseteq Callers \ {"wait"}
    BY OthersAssumption DEF Callers
  <2> QED
    BY <2>1, <2>2, <2>3, <2>4, <2>5, <2>6 DEF Next
<1> QED
  BY <1>1, <1>2, RunIsHonest, PTL DEF Spec

(* The reboot wait's polls end within one pause of its bound.              *)
THEOREM WaitBoundedHolds == Spec => []WaitBounded
<1>1. IInv /\ WaitInv => WaitBounded
  BY MyCall DEF WaitInv, TimeInv, Polling, WaitBounded
<1> QED
  BY <1>1, WaitInvariant, PTL

(* A host that is back was sighted twice on one new boot and on no other,  *)
(* and a guest is unreachable exactly when it refused the wait's last      *)
(* attempt that came to an end.                                            *)
THEOREM WaitTellsTrueHolds == Spec => []WaitTellsTrue
<1>1. WaitInv => WaitTellsTrue
  BY DEF WaitInv, TellInv, SeenInv, Sighted, WaitTellsTrue
<1> QED
  BY <1>1, WaitInvariant, PTL

-----------------------------------------------------------------------------
(* The shapes of the other variables.                                      *)

LEMMA RunnerKeepsTypes ==
  ASSUME IInv, TypeOK, NEW c \in Callers, Runner(c)
  PROVE  TypeOK'
<1>1. call' \in [Callers -> Calls] /\ down' \in BOOLEAN
  BY RunnerKeeps DEF IInv, Shaped
<1>2. UNCHANGED <<now, boot, sshd, calls, waiting>>
  BY DEF Runner, Dial, Reply, Refused, Dropped, Cut, Resume, guest
<1>3. troubles' \in Nat
  BY DEF Runner, Dial, Reply, Refused, Dropped, Cut, Resume, guest, TypeOK
<1>4. heard' \in {"none", "answered", "refused"}
  BY DEF Runner, Dial, Reply, Refused, Dropped, Cut, Resume, Heard, TypeOK
<1>5. seen' \subseteq Nat \X Nat
  <2>1. seen' = seen \/ seen' = seen \cup {<<boot, now>>}
    BY DEF Runner, Dial, Reply, Refused, Dropped, Cut, Resume
  <2> QED
    BY <2>1 DEF TypeOK
<1> QED
  BY <1>1, <1>2, <1>3, <1>4, <1>5 DEF TypeOK, waiting

LEMMA WaitKeepsTypes ==
  ASSUME IInv, TypeOK, Wait
  PROVE  TypeOK'
<1>0. now \in Nat /\ Poll \in Nat /\ My \in Calls
  BY MyCall
<1>1. call' \in [Callers -> Calls] /\ UNCHANGED <<now, guest, down, calls, kind, end, heard, seen>>
  BY WaitKeeps DEF IInv, Shaped, Wait, AskBootID, SleepOn, RebootTimedOut, GotFirstID, GotSecondID, AskDocker,
                   AskPlugin, GotPlugin, waiting
<1>2. wake' \in Nat
  <2>1. wake' = wake \/ wake' = now \/ wake' = now + Poll
    BY DEF Wait, AskBootID, SleepOn, RebootTimedOut, GotFirstID, GotSecondID, AskDocker, AskPlugin, GotPlugin,
           PluginNotReady, waiting
  <2> QED
    BY <1>0, <2>1 DEF TypeOK
<1>3. newID' \in Nat /\ first' \in Nat
  <2>1. UNCHANGED <<newID, first>> \/ (newID' = My.id /\ first' = now)
    BY DEF Wait, AskBootID, SleepOn, RebootTimedOut, GotFirstID, GotSecondID, AskDocker, AskPlugin, GotPlugin, waiting
  <2> QED
    BY <1>0, <2>1 DEF TypeOK, Calls
<1>4. lastErr' \in Answers
  <2>1. lastErr' = lastErr \/ lastErr' = My.answer
    BY DEF Wait, AskBootID, SleepOn, RebootTimedOut, GotFirstID, GotSecondID, AskDocker, AskPlugin, GotPlugin,
           PluginNotReady, PluginTells, Tells, waiting
  <2> QED
    BY <1>0, <2>1 DEF TypeOK, Calls
<1>5. phase' \in {"new", "settle", "docker", "enabled", "socket", "over"}
  BY DEF Wait, AskBootID, SleepOn, RebootTimedOut, GotFirstID, GotSecondID, AskDocker, AskPlugin, GotPlugin,
         PluginNotReady, Result, TimedOut, waiting, TypeOK
<1>6. result' \in {"none", "back", "unreachable", "fail", "rebooted"}
  BY DEF Wait, AskBootID, SleepOn, RebootTimedOut, GotFirstID, GotSecondID, AskDocker, AskPlugin, GotPlugin,
         PluginNotReady, Result, TimedOut, waiting, TypeOK
<1> QED
  BY <1>1, <1>2, <1>3, <1>4, <1>5, <1>6 DEF TypeOK, guest

(* Every variable keeps its type.                                          *)
THEOREM AccessTypeCorrect == Spec => []TypeOK
<1>1. Init => TypeOK
  <2>1. Init => IInv
    BY InitHonest
  <2> QED
    BY <2>1, TimesAssumption DEF Init, TypeOK, IInv, Shaped, NoID, Answers
<1>2. IInv /\ TypeOK /\ [Next]_vars => TypeOK'
  <2> SUFFICES ASSUME IInv, TypeOK, [Next]_vars PROVE TypeOK'
    OBVIOUS
  <2>1. CASE \E c \in Callers : Runner(c)
    BY <2>1, RunnerKeepsTypes
  <2>2. CASE Wait
    BY <2>2, WaitKeepsTypes
  <2>3. CASE SshdStops \/ SshdBack \/ Tick \/ \E c \in Others : OtherCalls(c)
    <3>1. call' \in [Callers -> Calls]
      BY <2>3, AroundKeeps DEF IInv, Shaped
    <3>2. /\ UNCHANGED <<down, waiting, heard, seen>> /\ sshd' \in BOOLEAN
          /\ now' \in {now, now + 1} /\ boot' \in {boot, boot + 1}
          /\ troubles' \in {troubles, troubles + 1} /\ calls' \in {calls, calls + 1}
      BY <2>3 DEF SshdStops, SshdBack, Tick, OtherCalls, guest, TypeOK
    <3> QED
      BY <3>1, <3>2 DEF waiting, TypeOK
  <2>4. CASE UNCHANGED vars
    BY <2>4 DEF vars, guest, waiting, TypeOK
  <2> QED
    BY <2>1, <2>2, <2>3, <2>4 DEF Next
<1> QED
  BY <1>1, <1>2, RunIsHonest, PTL DEF Spec
=============================================================================
