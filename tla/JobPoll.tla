------------------------------- MODULE JobPoll -------------------------------
(***************************************************************************)
(* poll_until_ready (mecmcp-job, lib.rs): one probe after another, with a  *)
(* growing wait between them, under one absolute deadline and a            *)
(* cancellation token that any thread may fire at any moment.  The task    *)
(* runs between two looks at the clock or the token without stopping them, *)
(* so each look is a step.                                                 *)
(***************************************************************************)
EXTENDS Integers

CONSTANTS
    Deadline,       \* PollConfig.deadline, in ticks; polling starts at tick 0
    FirstInterval,  \* PollConfig.first_interval
    MaxInterval,    \* PollConfig.max_interval
    Multiplier,     \* PollConfig.multiplier
    MaxPollTicks    \* bound: how far the clock runs

\* PollConfig::validate.
ASSUME PollAssumption ==
    /\ {Deadline, FirstInterval, MaxInterval, Multiplier, MaxPollTicks} \subseteq Nat \ {0}
    /\ FirstInterval <= MaxInterval

VARIABLES
    pollTicks,  \* the clock
    fired,      \* the token is cancelled
    poll,       \* the poller's step and its local variables
    landed      \* history: token and clock when the last probe's answer came

pollVars == <<pollTicks, fired, poll, landed>>

PollInit ==
    /\ pollTicks = 0
    /\ fired = FALSE
    /\ poll = [step |-> "top", attempts |-> 0, interval |-> FirstInterval, wakeAt |-> 0,
               answer |-> "none", outcome |-> "none"]
    /\ landed = [fired |-> FALSE, at |-> 0]

Expired == pollTicks >= Deadline
NextInterval(current) ==
    IF current * Multiplier <= MaxInterval THEN current * Multiplier ELSE MaxInterval

At(step) == poll.step = step
Go(step) == poll' = [poll EXCEPT !.step = step]
Return(outcome) == poll' = [poll EXCEPT !.step = "done", !.outcome = outcome]
\* The race is over; what it ended with is looked at in the next step.
Landing(answer) ==
    /\ poll' = [poll EXCEPT !.step = "recheck", !.answer = answer]
    /\ landed' = [fired |-> fired, at |-> pollTicks]

\* The two looks at the top of the loop.
LookForCancel ==
    /\ At("top")
    /\ IF fired THEN Return("Cancelled") ELSE Go("budget")
    /\ UNCHANGED <<pollTicks, fired, landed>>

LookAtBudget ==
    /\ At("budget")
    /\ IF Expired THEN Return("DeadlineExceeded")
       ELSE poll' = [poll EXCEPT !.step = "probing", !.attempts = @ + 1]
    /\ UNCHANGED <<pollTicks, fired, landed>>

\* The task is polled: select_cancel_raw asks the token first, and then polls
\* the probe without asking again.
PollToken ==
    /\ At("probing")
    /\ IF fired THEN Landing("cancelled") ELSE Go("inner") /\ UNCHANGED landed
    /\ UNCHANGED <<pollTicks, fired>>

\* timeout_at polls the probe before its timer, so an answer that is there
\* wins over a deadline that has passed; otherwise the task sleeps again.
PollProbe ==
    /\ At("inner")
    /\ \/ \E answer \in {"ready", "failed", "pending"} : Landing(answer)
       \/ Expired /\ Landing("elapsed")
       \/ ~Expired /\ Go("probing") /\ UNCHANGED landed
    /\ UNCHANGED <<pollTicks, fired>>

RecheckTokenSkipped ==  \* mutant
    /\ At("recheck")
    /\ CASE poll.answer = "cancelled" -> Return("Cancelled")
         [] poll.answer = "elapsed" -> Return("DeadlineExceeded")
         [] OTHER -> Go("late")
    /\ UNCHANGED <<pollTicks, fired, landed>>

\* The token may have fired while the probe was polled: it is asked again
\* before anything the race ended with counts.
RecheckToken ==
    /\ At("recheck")
    /\ CASE fired \/ poll.answer = "cancelled" -> Return("Cancelled")
         [] ~fired /\ poll.answer = "elapsed" -> Return("DeadlineExceeded")
         [] OTHER -> Go("late")
    /\ UNCHANGED <<pollTicks, fired, landed>>

\* An answer past the deadline does not count either.
TakeAnswer ==
    /\ At("late")
    /\ CASE Expired -> Return("DeadlineExceeded")
         [] ~Expired /\ poll.answer = "failed" -> Return("Probe")
         [] ~Expired /\ poll.answer = "ready" -> Return("Ready")
         [] OTHER -> Go("pace")
    /\ UNCHANGED <<pollTicks, fired, landed>>

\* The wait ends at the deadline at the latest.
Pace ==
    /\ At("pace")
    /\ IF Expired THEN Return("DeadlineExceeded")
       ELSE poll' = [poll EXCEPT !.step = "waiting",
                        !.wakeAt = IF pollTicks + poll.interval <= Deadline
                                   THEN pollTicks + poll.interval ELSE Deadline]
    /\ UNCHANGED <<pollTicks, fired, landed>>

\* The sleep's own race with the token; a token that fires as the sleep ends
\* is seen at the top of the loop.
WaitEnds ==
    /\ At("waiting")
    /\ \/ fired /\ Return("Cancelled")
       \/ /\ pollTicks >= poll.wakeAt
          /\ poll' = [poll EXCEPT !.step = "top", !.interval = NextInterval(@)]
    /\ UNCHANGED <<pollTicks, fired, landed>>

Fire ==
    /\ ~fired
    /\ fired' = TRUE
    /\ UNCHANGED <<pollTicks, poll, landed>>

PollTick ==
    /\ pollTicks < MaxPollTicks
    /\ pollTicks' = pollTicks + 1
    /\ UNCHANGED <<fired, poll, landed>>

PollNext ==
    \/ LookForCancel \/ LookAtBudget \/ PollToken \/ PollProbe \/ RecheckToken
    \/ TakeAnswer \/ Pace \/ WaitEnds
    \/ Fire \/ PollTick

PollSpec == PollInit /\ [][PollNext]_pollVars

----------------------------------------------------------------------------
\* A value or a probe's error is returned only for an answer that came before
\* the token fired and before the deadline; a deadline is reported only once
\* it has passed, and no wait is planned past it (poll_until_ready: the checks
\* repeated after the select and after the timeout).
PollOutcome ==
    /\ poll.outcome \in {"Ready", "Probe"} => ~landed.fired /\ landed.at < Deadline
    /\ poll.outcome = "DeadlineExceeded" => Expired
    /\ poll.outcome = "Cancelled" => fired
    /\ poll.wakeAt <= Deadline
=============================================================================
