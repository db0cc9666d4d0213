---- MODULE HostAccess ----
(***************************************************************************)
(* labctl's connection to one guest: the ssh runner that retries a refused *)
(* connection (RetryRunner), shared by every call to that guest, and on    *)
(* top of it the two waits whose answer decides between a FAIL and a       *)
(* power-cycle: the wait for a rebooted docker host and the wait for the   *)
(* plugin.                                                                 *)
(*                                                                         *)
(* An ssh attempt connects or is refused, then starts the command, then    *)
(* brings its reply; the connection may drop in between and the caller's   *)
(* deadline may cut it anywhere.  Time passes only while nobody has        *)
(* something due.                                                          *)
(***************************************************************************)
EXTENDS Naturals, FiniteSets

CONSTANTS
    Others,     \* callers beside the wait
    Bound,      \* RetryRunner.Bound
    Poll,       \* every poll interval
    Timeout,    \* bound of the wait
    Settling,   \* time between the two sightings of a new boot
    MaxTime,    \* bound: the clock
    MaxCalls,   \* bound: calls of the others
    MaxBoots    \* bound: reboots, outages of sshd and dropped connections

ASSUME TimesAssumption ==
  /\ Bound \in Nat /\ Poll \in Nat \ {0} /\ Timeout \in Nat /\ Settling \in Nat
  /\ MaxTime \in Nat /\ MaxCalls \in Nat /\ MaxBoots \in Nat

ASSUME OthersAssumption == "wait" \notin Others

Callers == Others \cup {"wait"}
Never == MaxTime + 1        \* no deadline

VARIABLES
    now,
    boot, sshd, troubles,   \* the guest: its boot, whether sshd accepts
    down,                   \* RetryRunner.down
    call,                   \* each caller's Run
    calls,                  \* calls the others have made
    kind, phase,            \* the wait and the place in it
    end, wake, newID, first, lastErr,   \* its variables
    result,                 \* what it answered
    heard, seen             \* history: its last finished attempt, its boot ids

guest == <<boot, sshd, troubles>>
waiting == <<kind, phase, end, wake, newID, first, lastErr, result>>
vars == <<now, guest, down, call, calls, waiting, heard, seen>>

NoID == MaxBoots + 1
Answers == {"none", "ok", "connect", "other"}

Calls == [at : {"idle", "dial", "sent", "pause"},
          start : Nat, deadline : Nat, since : Nat,   \* since: this attempt, or this pause
          refused : BOOLEAN,                          \* an earlier attempt was refused (first, last)
          answer : Answers, id : Nat,
          starts : Nat, tries : Nat, known : BOOLEAN] \* history of this call

Idle == [at |-> "idle", start |-> 0, deadline |-> 0, since |-> 0, refused |-> FALSE,
         answer |-> "none", id |-> NoID, starts |-> 0, tries |-> 0, known |-> FALSE]

-----------------------------------------------------------------------------
(* RetryRunner.Run.                                                        *)

Ended(c) == now >= call[c].deadline
Trying(c) == call[c].at \in {"dial", "sent"}

(* A Run that begins; known: the guest is known to be down.                *)
Run(deadline) == [Idle EXCEPT !.at = "dial", !.start = now, !.since = now, !.deadline = deadline,
                              !.tries = 1, !.known = down]

Answered(c, a) == [call[c] EXCEPT !.at = "idle", !.answer = a]

(* The wait's own attempts that the deadline did not cut.                  *)
Heard(c, what) == heard' = IF c = "wait" THEN what ELSE heard

Dial(c) ==
  /\ call[c].at = "dial" /\ sshd
  /\ call' = [call EXCEPT ![c].at = "sent", ![c].since = now, ![c].starts = @ + 1]
  /\ UNCHANGED <<now, guest, down, calls, waiting, heard, seen>>

Reply(c) ==
  /\ call[c].at = "sent" /\ sshd
  /\ down' = FALSE
  /\ call' = [x \in Callers |-> IF x = c THEN [Answered(c, "ok") EXCEPT !.id = boot]
                                         ELSE [call[x] EXCEPT !.known = FALSE]]
  /\ Heard(c, "answered")
  /\ seen' = IF c = "wait" /\ phase \in {"new", "settle"} THEN seen \cup {<<boot, now>>} ELSE seen
  /\ UNCHANGED <<now, guest, calls, waiting>>

(* Mutant: a dropped connection is tried again like a refused one.         *)
SlipMayRetry(c, err) == ~down

(* Mutant: the guest's being down is not looked at.                        *)
SlipMayRetryDown(c, err) == err = "connect"

(* A refused connection is tried again, unless the guest is known down.    *)
MayRetry(c, err) == err = "connect" /\ ~down

(* The deadline cut this attempt: the refusal before it is the answer.     *)
AnswerOf(c, err) == IF call[c].refused /\ Ended(c) THEN "connect" ELSE err

(* What Run does with an attempt's error.                                  *)
AttemptFailed(c, err) ==
  IF (call[c].refused /\ Ended(c)) \/ ~MayRetry(c, err)
  THEN call' = [call EXCEPT ![c] = Answered(c, AnswerOf(c, err))] /\ UNCHANGED down
  ELSE IF now - call[c].start >= Bound
       THEN call' = [call EXCEPT ![c] = Answered(c, "connect")] /\ down' = TRUE
       ELSE call' = [call EXCEPT ![c].at = "pause", ![c].since = now, ![c].refused = TRUE] /\ UNCHANGED down

Refused(c) == /\ call[c].at = "dial" /\ ~sshd
              /\ AttemptFailed(c, "connect")
              /\ Heard(c, "refused")
              /\ UNCHANGED <<now, guest, calls, waiting, seen>>

(* The command answers an error, or its connection drops under it.         *)
Dropped(c) == /\ call[c].at = "sent" /\ troubles < MaxBoots
              /\ troubles' = troubles + 1
              /\ AttemptFailed(c, "other")
              /\ IF Ended(c) THEN UNCHANGED heard ELSE Heard(c, "answered")
              /\ UNCHANGED <<now, boot, sshd, calls, waiting, seen>>

(* exec.CommandContext kills ssh.                                          *)
Cut(c) == /\ Trying(c) /\ Ended(c)
          /\ AttemptFailed(c, "other")
          /\ UNCHANGED <<now, guest, calls, waiting, heard, seen>>

Resume(c) ==
  /\ call[c].at = "pause"
  /\ \/ Ended(c) /\ call' = [call EXCEPT ![c] = Answered(c, "connect")]
     \/ /\ now >= call[c].since + Poll
        /\ call' = [call EXCEPT ![c].at = "dial", ![c].since = now, ![c].tries = @ + 1]
  /\ UNCHANGED <<now, guest, down, calls, waiting, heard, seen>>

Runner(c) == Dial(c) \/ Reply(c) \/ Refused(c) \/ Dropped(c) \/ Cut(c) \/ Resume(c)

(* The other callers: cleanups without a deadline, reads with one.         *)
OtherCalls(c) ==
  /\ call[c].at = "idle" /\ calls < MaxCalls
  /\ calls' = calls + 1
  /\ \E d \in {Never, now + 1} : call' = [call EXCEPT ![c] = Run(d)]
  /\ UNCHANGED <<now, guest, down, waiting, heard, seen>>

-----------------------------------------------------------------------------
(* The guest and the clock.                                                *)

SshdStops == /\ sshd /\ troubles < MaxBoots
             /\ sshd' = FALSE /\ troubles' = troubles + 1
             /\ UNCHANGED <<now, boot, down, call, calls, waiting, heard, seen>>

(* sshd accepts again, on the same boot or on a new one.                   *)
SshdBack == /\ ~sshd
            /\ sshd' = TRUE
            /\ boot' \in {boot, boot + 1} /\ boot' <= MaxBoots
            /\ UNCHANGED <<now, troubles, down, call, calls, waiting, heard, seen>>

(* An attempt to connect ends within ConnectTimeout, a command on a guest  *)
(* that answers soon; one whose guest is gone may hang.                    *)
Due(c) == \/ Trying(c) /\ Ended(c)
          \/ call[c].at = "dial" /\ now > call[c].since
          \/ call[c].at = "sent" /\ sshd /\ now > call[c].since
          \/ call[c].at = "pause" /\ (Ended(c) \/ now >= call[c].since + Poll)

WaitDue == call["wait"].at = "idle" /\ phase # "over" /\ now >= wake

Tick == /\ now < MaxTime
        /\ \A c \in Callers : ~Due(c)
        /\ ~WaitDue
        /\ now' = now + 1
        /\ UNCHANGED <<guest, down, call, calls, waiting, heard, seen>>

-----------------------------------------------------------------------------
(* waitHostRebooted.                                                       *)

My == call["wait"]
Calling(deadline) == call' = [call EXCEPT !["wait"] = Run(deadline)]
Free == My.at = "idle" /\ My.answer = "none" /\ now >= wake
Back == My.at = "idle" /\ My.answer # "none"
Consumed == call' = [call EXCEPT !["wait"] = Idle]

Result(r) == result' = r /\ phase' = "over"

(* Mutant: the polls run under the caller's context.                       *)
SlipPollDeadline == Never

(* Every poll ends at the wait's own bound.                                *)
PollDeadline == end

(* Mutant: a poll the bound itself cut counts like any other.              *)
SlipTells == My.answer

(* What the last poll said of the guest; one the bound cut says nothing.   *)
Tells == IF My.answer \in {"ok", "connect"} \/ now < end THEN My.answer ELSE lastErr

TimedOut == Result(IF lastErr = "connect" THEN "unreachable" ELSE "fail")

AskBootID ==
  /\ phase \in {"new", "settle"} /\ Free /\ now < end
  /\ phase = "settle" => now - first >= Settling
  /\ Calling(PollDeadline)
  /\ UNCHANGED <<now, guest, down, calls, waiting, heard, seen>>

(* The settle window is slept through poll by poll.                        *)
SleepOn ==
  /\ phase = "settle" /\ Free /\ now < end /\ now - first < Settling
  /\ wake' = now + Poll
  /\ UNCHANGED <<now, guest, down, call, calls, kind, phase, end, newID, first, lastErr, result, heard, seen>>

RebootTimedOut ==
  /\ phase \in {"new", "settle"} /\ Free /\ now >= end
  /\ TimedOut
  /\ UNCHANGED <<now, guest, down, call, calls, kind, end, wake, newID, first, lastErr, heard, seen>>

(* The boot id the wait began with is 0.                                   *)
NewBoot == My.answer = "ok" /\ My.id # 0

GotFirstID ==
  /\ phase = "new" /\ Back
  /\ lastErr' = Tells
  /\ IF NewBoot THEN newID' = My.id /\ first' = now /\ phase' = "settle" /\ wake' = now
     ELSE wake' = now + Poll /\ UNCHANGED <<newID, first, phase>>
  /\ Consumed
  /\ UNCHANGED <<now, guest, down, calls, kind, end, result, heard, seen>>

GotSecondID ==
  /\ phase = "settle" /\ Back
  /\ lastErr' = Tells
  /\ \/ My.answer = "ok" /\ My.id = newID /\ phase' = "docker" /\ wake' = now /\ UNCHANGED result
     \/ My.answer = "ok" /\ My.id # newID /\ Result("rebooted") /\ UNCHANGED wake
     \/ My.answer # "ok" /\ wake' = now + Poll /\ UNCHANGED <<phase, result>>
  /\ Consumed
  /\ UNCHANGED <<now, guest, down, calls, kind, end, newID, first, heard, seen>>

(* docker info runs under the caller's context again.                      *)
AskDocker ==
  /\ phase = "docker"
  /\ \/ Free /\ Calling(Never) /\ UNCHANGED <<phase, result>>
     \/ /\ Back /\ Consumed
        /\ Result(CASE My.answer = "ok" -> "back" [] My.answer = "connect" -> "unreachable"
                    [] OTHER -> "fail")
  /\ UNCHANGED <<now, guest, down, calls, kind, end, wake, newID, first, lastErr, heard, seen>>

-----------------------------------------------------------------------------
(* waitPluginReady.                                                        *)

AskPlugin ==
  /\ phase \in {"enabled", "socket"} /\ Free
  /\ Calling(Never)
  /\ UNCHANGED <<now, guest, down, calls, waiting, heard, seen>>

PluginTells == My.answer

(* The poll is over, without an enabled plugin and an answering socket.    *)
PluginNotReady ==
  /\ lastErr' = PluginTells
  /\ IF now >= end
     THEN Result(IF PluginTells = "connect" THEN "unreachable" ELSE "fail") /\ UNCHANGED wake
     ELSE wake' = now + Poll /\ phase' = "enabled" /\ UNCHANGED result

GotPlugin ==
  /\ phase \in {"enabled", "socket"} /\ Back
  /\ \/ /\ My.answer = "ok" /\ UNCHANGED <<wake, lastErr>>
        /\ IF phase = "enabled" THEN phase' = "socket" /\ UNCHANGED result ELSE Result("back")
     \/ PluginNotReady
  /\ Consumed
  /\ UNCHANGED <<now, guest, down, calls, kind, end, newID, first, heard, seen>>

Wait == \/ AskBootID \/ SleepOn \/ RebootTimedOut \/ GotFirstID \/ GotSecondID \/ AskDocker
        \/ AskPlugin \/ GotPlugin

Init ==
  /\ now = 0
  /\ boot = 0 /\ sshd \in BOOLEAN /\ troubles = 0
  /\ down \in BOOLEAN
  /\ call = [c \in Callers |-> Idle] /\ calls = 0
  /\ kind \in {"reboot", "plugin"}
  /\ phase = IF kind = "reboot" THEN "new" ELSE "enabled"
  /\ end = Timeout /\ wake = 0 /\ newID = NoID /\ first = 0 /\ lastErr = "none"
  /\ result = "none" /\ heard = "none" /\ seen = {}

Next == \/ \E c \in Callers : Runner(c)
        \/ \E c \in Others : OtherCalls(c)
        \/ SshdStops \/ SshdBack \/ Tick \/ Wait

Spec == Init /\ [][Next]_vars

-----------------------------------------------------------------------------
(* Every variable keeps its shape.                                         *)
TypeOK ==
  /\ now \in Nat /\ boot \in Nat /\ sshd \in BOOLEAN /\ troubles \in Nat /\ down \in BOOLEAN
  /\ call \in [Callers -> Calls] /\ calls \in Nat
  /\ kind \in {"reboot", "plugin"}
  /\ phase \in {"new", "settle", "docker", "enabled", "socket", "over"}
  /\ end \in Nat /\ wake \in Nat /\ newID \in Nat /\ first \in Nat /\ lastErr \in Answers
  /\ result \in {"none", "back", "unreachable", "fail", "rebooted"}
  /\ heard \in {"none", "answered", "refused"} /\ seen \subseteq Nat \X Nat

(* One Run never starts its command twice, and one that answers a refused  *)
(* connection has not started it, unless the caller's deadline was up.     *)
StartedOnce ==
  \A c \in Callers :
    /\ call[c].starts <= 1
    /\ call[c].answer = "connect" /\ ~Ended(c) => call[c].starts = 0

(* A Run that begins while the guest is known to be down makes one attempt *)
(* until somebody's has succeeded, whoever else is calling.                *)
DeadGuestOnce == \A c \in Callers : call[c].known => call[c].tries <= 1

(* The polls of the reboot wait never reach past its bound by more than    *)
(* one pause, however long the runner under them would go on retrying.     *)
WaitBounded == kind = "reboot" /\ phase \in {"new", "settle"} => now <= end + Poll

(* What a wait says is so: a host that is back answered twice on one new   *)
(* boot, a settle window apart; a guest is unreachable exactly when it     *)
(* refused the last attempt that came to an end.                           *)
WaitTellsTrue ==
  /\ result = "back" /\ kind = "reboot" =>
       \E a, b \in seen : /\ a[1] = b[1] /\ a[1] # 0 /\ b[2] - a[2] >= Settling
                          /\ \A x \in seen : x[2] >= a[2] /\ x[2] <= b[2] => x[1] \in {0, a[1]}
  /\ result = "unreachable" => heard = "refused"
  /\ result = "fail" => heard # "refused"
=============================================================================
