----------------------------- MODULE WorkerPace -----------------------------
(***************************************************************************)
(* How long an embedding worker sleeps (embedding-worker.ts): what a       *)
(* failed provider call says about its cause and about the time to wait    *)
(* (embedding.ts), the backoff that follows, and the timer it is handed    *)
(* to; and how long the rows it gives back stay hidden from every worker.  *)
(* Where in its loop the worker is, and stop(), is module Runtime's.       *)
(***************************************************************************)
EXTENDS Integers, Sequences

CONSTANTS
    Interval,       \* bound: the values of intervalMs
    RetryAfter,     \* bound: what a Retry-After header may ask for
    Longest,        \* MAX_ERROR_BACKOFF_MS (60 s)
    RateLimited,    \* DEFAULT_RATE_LIMIT_BACKOFF_MS
    TimerMax,       \* the longest delay setTimeout keeps (2^31 - 1)
    MaxErrors       \* bound: consecutive errors are counted to here

(* The last says that the bound on the count is none on the backoff, which *)
(* has reached its longest by then.                                        *)
ASSUME PaceAssumptions ==
    /\ Interval \subseteq Nat \ {0} /\ RetryAfter \subseteq Nat
    /\ Longest \in Nat \ {0} /\ RateLimited \in Nat /\ TimerMax \in Nat
    /\ Longest < TimerMax /\ RateLimited < TimerMax
    /\ MaxErrors \in Nat \ {0}
    /\ \A i \in Interval : i * 2 ^ (MaxErrors - 1) >= Longest

None == -1

(* One HTTP answer, or none: its status, and whether it has headers and    *)
(* among them a Retry-After.                                               *)
Attempt ==
    {a \in [status : {429, 500}, headers : BOOLEAN, after : RetryAfter \cup {None}] :
        a.headers \/ a.after = None}

(* What embed and embedMany throw: the attempt itself, or an error around  *)
(* all attempts whose lastError is the last of them.                       *)
ProviderError == {<<a>> : a \in Attempt} \cup {<<a, b>> : a, b \in Attempt}

VARIABLES
    interval,   \* intervalMs
    errors,     \* consecutiveErrors
    pace,       \* "pass" | "asleep"
    why,        \* how the last pass ended
    thrown,     \* what the provider call of that pass threw, if it did
    slept,      \* how long the timer of the last sleep runs
    hidden,     \* releaseEmbedding's backoffMs for the rows of that pass
    backedOff   \* history: the sleep after the last error of this row of errors

paceVars == <<interval, errors, pace, why, thrown, slept, hidden, backedOff>>

PaceTypeOK ==
    /\ interval \in Interval /\ errors \in 0 .. MaxErrors
    /\ pace \in {"pass", "asleep"}
    /\ why \in {"start", "work", "idle", "failed", "limited"}
    /\ thrown \in {<<>>} \cup ProviderError
    /\ slept \in Nat /\ hidden \in Nat /\ backedOff \in Nat

PaceInit ==
    /\ interval \in Interval /\ errors = 0 /\ pace = "pass" /\ why = "start"
    /\ thrown = <<>> /\ slept = 0 /\ hidden = 0 /\ backedOff = 0

-----------------------------------------------------------------------------
last(e) == e[Len(e)]

IsRateLimit(e) == \E i \in DOMAIN e : e[i].status = 429

(* Mutant: the first attempt's headers before the last one's.              *)
FirstHeaders(e) == IF e[1].headers THEN e[1].after ELSE last(e).after

(* responseHeaders: the last attempt's, or else the first ones there are.  *)
Headers(e) ==
    LET having == {i \in DOMAIN e : e[i].headers} IN
    IF last(e).headers THEN last(e).after
    ELSE IF having = {} THEN None
    ELSE e[CHOOSE i \in having : \A j \in having : i <= j].after

RateLimitBackoff(e) == IF Headers(e) > 0 THEN Headers(e) ELSE RateLimited

Shorter(a, b) == IF a < b THEN a ELSE b

Backoff(n) == Shorter(interval * 2 ^ (n - 1), Longest)

(* setTimeout: a delay it cannot hold becomes 1 ms.                        *)
Timer(ms) == IF ms > TimerMax \/ ms < 1 THEN 1 ELSE ms

Sleep(ms) == pace' = "asleep" /\ slept' = Timer(ms)

(* Rows were claimed or cancelled, or the provider failed them as rows:    *)
(* the next pass follows at once.                                          *)
Works ==
    /\ pace = "pass" /\ why' = "work" /\ errors' = 0 /\ backedOff' = 0
    /\ thrown' = <<>> /\ hidden' = 0 /\ slept' = 0
    /\ UNCHANGED <<interval, pace>>

Idles ==
    /\ pace = "pass" /\ why' = "idle" /\ errors' = 0 /\ backedOff' = 0
    /\ thrown' = <<>> /\ hidden' = 0 /\ Sleep(interval)
    /\ UNCHANGED interval

(* The batch size, a statement, or a vector's dimension fails the pass.    *)
Fails ==
    /\ pace = "pass" /\ why' = "failed" /\ errors' = Shorter(errors + 1, MaxErrors)
    /\ thrown' = <<>> /\ hidden' = 0 /\ Sleep(Backoff(errors + 1))
    /\ backedOff' = slept'
    /\ UNCHANGED interval

(* Mutant: a rate limit ends the row of errors. *)
LimitForgetsErrors(e) ==
    /\ IsRateLimit(e)
    /\ pace = "pass" /\ why' = "limited" /\ thrown' = e /\ errors' = 0
    /\ hidden' = RateLimitBackoff(e) /\ Sleep(RateLimitBackoff(e))
    /\ UNCHANGED <<interval, backedOff>>

(* A 429 among the attempts: the rows are released for the time it asks    *)
(* for, and the worker sleeps as long.                                     *)
Limited(e) ==
    /\ IsRateLimit(e)
    /\ pace = "pass" /\ why' = "limited" /\ thrown' = e
    /\ hidden' = RateLimitBackoff(e) /\ Sleep(RateLimitBackoff(e))
    /\ UNCHANGED <<interval, errors, backedOff>>

Wakes ==
    /\ pace = "asleep" /\ pace' = "pass"
    /\ UNCHANGED <<interval, errors, why, thrown, slept, hidden, backedOff>>

PaceNext ==
    \/ Works \/ Idles \/ Fails \/ Wakes
    \/ \E e \in ProviderError : Limited(e)

PaceSpec == PaceInit /\ [][PaceNext]_paceVars

-----------------------------------------------------------------------------
(* "so a persistent failure ... doesn't hot-loop" (embedding-worker.ts:    *)
(* 407): after an error the worker rests, twice as long as after the error *)
(* before, also when rate limits came between them, up to the longest      *)
(* backoff.                                                                *)
ErrorsSlowDown ==
    [][why' = "failed" /\ pace = "pass" /\ pace' = "asleep" =>
        /\ slept' >= Shorter(interval, Longest) /\ slept' <= Longest
        /\ slept' >= Shorter(2 * backedOff, Longest)]_paceVars

(* The rows of a throttled call are not offered again before the provider's*)
(* last answer allows it, and this worker leaves the provider alone for as *)
(* long, unless no timer can be set that far.                              *)
ThrottleIsKept ==
    why = "limited" /\ last(thrown).status = 429 =>
        /\ hidden >= last(thrown).after
        /\ slept >= last(thrown).after \/ last(thrown).after > TimerMax

(* The delay is never lost: errors slow the worker down, and so do rate    *)
(* limits.                                                                 *)
PaceIsHeld == ErrorsSlowDown /\ []ThrottleIsKept
=============================================================================
