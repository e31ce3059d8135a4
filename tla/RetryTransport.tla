--------------------------- MODULE RetryTransport ---------------------------
(***************************************************************************)
(* One RoundTrip through the default HTTP transport: the retrying          *)
(* transport repeats a request over a wrapped transport, waits between the *)
(* attempts and gives up when its caller does; the decompressing transport *)
(* around it puts a decoder over the body of the answer.                   *)
(*                                                                         *)
(* The wrapped transport, the caller's context, the clock and GetBody are  *)
(* the environment.  A duration is a signed number of Width bits, so that  *)
(* what overflows in the code overflows here.                              *)
(***************************************************************************)
EXTENDS Integers, Sequences, FiniteSets

CONSTANTS
  Width,        \* bits of a time.Duration
  Unit,         \* a second, as a duration
  Seconds,      \* what the header Retry-After may ask for, in seconds: ints of
                \* Width bits too, a number that is none counts as no header
  Configs,      \* the RetryConfigs considered
  Defaults,     \* what withDefaults puts for what is not positive
  Encodings,    \* of responses, a subset of Codings
  NoHeader      \* there is no header Retry-After

MaxDuration == 2^(Width - 1) - 1
MinDuration == -(2^(Width - 1))
Durations == MinDuration..MaxDuration
Codings == {"plain", "packed", "corrupt"}

ConfigSet == [maxAttempts : Int, baseWait : Durations, maxWait : Durations,
              maxRetryAfter : Durations, jitter : BOOLEAN, nonIdempotent : BOOLEAN]
RequestSet == [idempotent : BOOLEAN, body : BOOLEAN, getBody : BOOLEAN]

ASSUME WidthAssumption == Width \in Nat \ {0, 1} /\ Unit \in Nat \ {0}
ASSUME SecondsAssumption == Seconds \subseteq Durations /\ NoHeader \notin Int
ASSUME ConfigsAssumption ==
  /\ Configs \subseteq ConfigSet
  /\ Defaults \in ConfigSet
  /\ Defaults.maxAttempts > 0 /\ Defaults.baseWait > 0
  /\ Defaults.maxWait > 0 /\ Defaults.maxRetryAfter > 0
ASSUME EncodingsAssumption == Encodings \subseteq Codings

Responses == [kind : {"done", "transient"}, after : Seconds \cup {NoHeader},
              encoding : Encodings]
Errors == {"context", "network", "permanent"}
ErrorAnswers == [kind : {"error"}, error : Errors \cup {"GetBody", "decoder"}]
Nothing == [kind |-> "nothing"]

VARIABLES
  req,      \* the request
  cfg,      \* the configuration, with its defaults
  pc,       \* "start", "open", "send", "judge", "sleep", "decode", "returned", "closed"
  attempt,  \* the loop's counter
  ctx,      \* the caller's context: "live" or "cancelled"
  outcome,  \* what the last wrapped.RoundTrip gave
  lastErr,  \* the error of the attempt before, or "nil"
  answer,   \* what RoundTrip returns
  open,     \* attempts whose response has its body open
  unread,   \* the body of the attempt's request has not been read yet
  wait,     \* the last wait between two attempts
  torn,     \* history: an attempt was sent with a body already read
  late      \* history: attempts that began after the cancellation

vars == <<req, cfg, pc, attempt, ctx, outcome, lastErr, answer, open, unread,
          wait, torn, late>>
history == <<torn, late>>

-----------------------------------------------------------------------------
(* Durations.                                                              *)

Wrap(n) == ((n - MinDuration) % 2^Width) + MinDuration

(* Faulty variant: only the upper bound is applied. *)
ClampDuration_Upper(v, min, max) == IF max > 0 /\ v > max THEN max ELSE v

ClampDuration(v, min, max) ==
  IF max > 0 /\ v > max THEN max ELSE IF v < min THEN min ELSE v

(* A float that does not fit becomes the least duration on amd64 and the   *)
(* greatest on arm64.                                                      *)
FromFloat(n) == IF n \in Durations THEN {n} ELSE {MinDuration, MaxDuration}

(* The exponential wait after attempt n, one for each value of the clock   *)
(* the jitter is taken from.                                               *)
Backoffs(c, n) ==
  LET extra(w) == IF c.jitter /\ w > 0 THEN 0..(w \div 4) ELSE {0} IN
  UNION { {ClampDuration(Wrap(w + j), c.baseWait, c.maxWait) : j \in extra(w)} :
          w \in FromFloat(c.baseWait * 2^n) }

(* Retry-After as seconds: negative ones are none, others are multiplied   *)
(* in 64 bits.                                                             *)
ParseRetryAfter(seconds) == IF seconds < 0 THEN 0 ELSE Wrap(seconds * Unit)

RetryAfters(c, seconds) ==
  {ClampDuration(ParseRetryAfter(seconds), 0, c.maxRetryAfter)}

RetryWaits(c, n, result) ==
  IF result.kind = "transient" /\ result.after # NoHeader
    THEN RetryAfters(c, result.after) ELSE Backoffs(c, n)

WithDefaults(c) ==
  LET or(v, default) == IF v <= 0 THEN default ELSE v IN
  [c EXCEPT !.maxAttempts = or(@, Defaults.maxAttempts),
            !.baseWait = or(@, Defaults.baseWait),
            !.maxWait = or(@, Defaults.maxWait),
            !.maxRetryAfter = or(@, Defaults.maxRetryAfter)]

-----------------------------------------------------------------------------
(* A body that can be opened again, and leave to send the request twice.   *)
CanReplay(r) ==
  IF r.idempotent THEN ~r.body \/ r.getBody ELSE cfg.nonIdempotent /\ r.getBody

Init ==
  /\ req \in {r \in RequestSet : r.getBody => r.body}
  /\ cfg \in {WithDefaults(c) : c \in Configs}
  /\ pc = "start"
  /\ attempt = 0
  /\ ctx = "live"
  /\ outcome = Nothing
  /\ lastErr = "nil"
  /\ answer = Nothing
  /\ open = {}
  /\ unread = TRUE
  /\ wait = 0
  /\ torn = FALSE
  /\ late = 0

Cancel ==
  /\ ctx = "live"
  /\ ctx' = "cancelled"
  /\ UNCHANGED <<req, cfg, pc, attempt, outcome, lastErr, answer, open, unread,
                 wait, history>>

(* A request that cannot be replayed goes through as it is. *)
Start ==
  /\ pc = "start"
  /\ pc' = IF CanReplay(req) THEN "open" ELSE "send"
  /\ UNCHANGED <<req, cfg, attempt, ctx, outcome, lastErr, answer, open, unread,
                 wait, history>>

(* requestForAttempt: from the second attempt on a clone, its body opened  *)
(* anew if there is one.                                                   *)
OpenBody ==
  /\ pc = "open"
  /\ pc' = "send"
  /\ unread' = TRUE
  /\ UNCHANGED <<req, cfg, attempt, ctx, outcome, lastErr, answer, open, wait, history>>

OpenBodyFails ==
  /\ pc = "open"
  /\ attempt > 0 /\ req.body
  /\ pc' = "returned"
  /\ answer' = [kind |-> "error", error |-> "GetBody"]
  /\ UNCHANGED <<req, cfg, attempt, ctx, outcome, lastErr, open, unread, wait, history>>

(* wrapped.RoundTrip: it reads and closes the request's body, and answers  *)
(* with a response whose body is open, or with an error; a context that    *)
(* has ended is one of the errors, not the only one.                       *)
Send ==
  /\ pc = "send"
  /\ pc' = "judge"
  /\ torn' = (torn \/ (req.body /\ ~unread))
  /\ late' = IF ctx = "cancelled" THEN late + 1 ELSE late
  /\ unread' = FALSE
  /\ \/ outcome' \in Responses /\ open' = open \cup {attempt}
     \/ outcome' \in [kind : {"error"}, error : Errors] /\ UNCHANGED open
  /\ UNCHANGED <<req, cfg, attempt, ctx, lastErr, answer, wait>>

(* Faulty variant: the context is not looked at. *)
ShouldRetry_Blind ==
  outcome.kind = "transient" \/ (outcome.kind = "error" /\ outcome.error = "network")

(* Status 408, 409, 425, 429, 5xx; end of file, time-outs of the network. *)
ShouldRetry ==
  /\ ctx = "live"
  /\ outcome.kind = "transient" \/ (outcome.kind = "error" /\ outcome.error = "network")

Final == ~CanReplay(req) \/ ~ShouldRetry \/ attempt = cfg.maxAttempts - 1

(* The answer of the last attempt is the answer. *)
GiveAnswer ==
  /\ pc = "judge"
  /\ Final
  /\ answer' = outcome
  /\ pc' = IF outcome.kind = "error" THEN "returned" ELSE "decode"
  /\ UNCHANGED <<req, cfg, attempt, ctx, outcome, lastErr, open, unread, wait, history>>

(* Faulty variants: the body is not closed; an older error is kept. *)
Discard_Open ==
  /\ pc = "judge"
  /\ ~Final
  /\ pc' = "sleep"
  /\ lastErr' = IF outcome.kind = "error" THEN outcome.error ELSE "nil"
  /\ wait' \in RetryWaits(cfg, attempt, outcome)
  /\ UNCHANGED <<req, cfg, attempt, ctx, outcome, answer, open, unread, torn, late>>

Discard_OldError ==
  /\ pc = "judge"
  /\ ~Final
  /\ pc' = "sleep"
  /\ lastErr' = IF outcome.kind = "error" THEN outcome.error ELSE lastErr
  /\ open' = open \ {attempt}
  /\ wait' \in RetryWaits(cfg, attempt, outcome)
  /\ UNCHANGED <<req, cfg, attempt, ctx, outcome, answer, unread, torn, late>>

(* The wait is computed, the response closed, and the sleep begins. *)
Discard ==
  /\ pc = "judge"
  /\ ~Final
  /\ pc' = "sleep"
  /\ lastErr' = IF outcome.kind = "error" THEN outcome.error ELSE "nil"
  /\ open' = open \ {attempt}
  /\ wait' \in RetryWaits(cfg, attempt, outcome)
  /\ UNCHANGED <<req, cfg, attempt, ctx, outcome, answer, unread, torn, late>>

(* Faulty variant: the attempt is not counted. *)
Wake_Uncounted ==
  /\ pc = "sleep"
  /\ pc' = "open"
  /\ UNCHANGED <<req, cfg, attempt, ctx, outcome, lastErr, answer, open, unread,
                 wait, history>>

(* sleepContext: the timer, or no wait at all; with the context ended as   *)
(* well, either.                                                           *)
Wake ==
  /\ pc = "sleep"
  /\ pc' = "open"
  /\ attempt' = attempt + 1
  /\ UNCHANGED <<req, cfg, ctx, outcome, lastErr, answer, open, unread, wait, history>>

SleepEnds ==
  /\ pc = "sleep"
  /\ ctx = "cancelled"
  /\ wait > 0
  /\ pc' = "returned"
  /\ answer' = [kind |-> "error", error |-> IF lastErr = "nil" THEN "context" ELSE lastErr]
  /\ UNCHANGED <<req, cfg, attempt, ctx, outcome, lastErr, open, unread, wait, history>>

(* The decompressing transport: br and deflate make their decoder at the   *)
(* first Read, zstd and gzip at once, which fails if the body does not     *)
(* begin with their header.                                                *)
Decode ==
  /\ pc = "decode"
  /\ pc' = "returned"
  /\ IF answer.encoding = "corrupt"
       THEN /\ answer' = [kind |-> "error", error |-> "decoder"]
            /\ open' = open \ {attempt}
       ELSE UNCHANGED <<answer, open>>
  /\ UNCHANGED <<req, cfg, attempt, ctx, outcome, lastErr, unread, wait, history>>

(* The caller closes the body of the answer: the decoder, and the body     *)
(* underneath.                                                             *)
CloseBody ==
  /\ pc = "returned"
  /\ answer.kind # "error"
  /\ pc' = "closed"
  /\ open' = open \ {attempt}
  /\ UNCHANGED <<req, cfg, attempt, ctx, outcome, lastErr, answer, unread, wait, history>>

Step == \/ Start \/ OpenBody \/ OpenBodyFails \/ Send \/ GiveAnswer \/ Discard
        \/ Wake \/ SleepEnds \/ Decode

Next == Step \/ Cancel \/ CloseBody

Spec == Init /\ [][Next]_vars

(* The wrapped transport answers and timers fire. *)
FairSpec == Spec /\ WF_vars(Step)

-----------------------------------------------------------------------------
TypeOK ==
  /\ req \in RequestSet
  /\ cfg \in ConfigSet
  /\ pc \in {"start", "open", "send", "judge", "sleep", "decode", "returned", "closed"}
  /\ attempt \in 0..(cfg.maxAttempts - 1)
  /\ ctx \in {"live", "cancelled"}
  /\ outcome \in Responses \cup ErrorAnswers \cup {Nothing}
  /\ lastErr \in {"nil", "network"}
  /\ answer \in Responses \cup ErrorAnswers \cup {Nothing}
  /\ open \subseteq Nat
  /\ unread \in BOOLEAN
  /\ wait \in Durations
  /\ torn \in BOOLEAN
  /\ late \in Nat

(* Over any number of attempts, failures and cancellations no response is  *)
(* left open but the one that is about to be judged or was answered, and   *)
(* an answer that is an error leaves none.                                 *)
OneBodyOpen ==
  /\ TypeOK
  /\ open = IF \/ pc = "judge" /\ outcome.kind # "error"
               \/ pc = "decode"
               \/ pc = "returned" /\ answer.kind # "error"
              THEN {attempt} ELSE {}

(* An attempt never sends the rest of a body, a request is repeated only   *)
(* if its method or its configuration allows that, and once the caller's   *)
(* context has ended at most one more attempt begins, the one that the     *)
(* look at the context came too early for.                                 *)
AttemptsAreWhole ==
  /\ ~torn
  /\ attempt > 0 => /\ req.body => req.getBody
                    /\ req.idempotent \/ cfg.nonIdempotent
  /\ late <= 1

(* What RoundTrip returns is what the last attempt gave, or the end of the *)
(* context that ended the wait after a response; never an older error.     *)
AnswerIsLatest ==
  (pc = "returned" /\ answer.kind = "error") =>
    \/ answer.error \in {"GetBody", "decoder"}
    \/ answer = outcome
    \/ outcome.kind # "error" /\ answer.error = "context" /\ ctx = "cancelled"

(* What Retry-After asks for; what two's complement leaves of it, nothing  *)
(* if that is negative; and whether a wait gives what is due: that long,   *)
(* or the greatest wait for it where that is less.                         *)
Advised == outcome.kind = "transient" /\ outcome.after # NoHeader
Asked == IF outcome.after < 0 THEN 0 ELSE outcome.after * Unit
Left == IF Asked % 2^Width > MaxDuration THEN 0 ELSE Asked % 2^Width
Gives(w, due) == w = due \/ (w = cfg.maxRetryAfter /\ w < due)

(* Every wait lies between its bounds, whatever overflows on the way.  As  *)
(* long as the exponential wait fits a duration, a server that gives no    *)
(* advice is left alone twice as long after every attempt, up to the       *)
(* greatest wait and a quarter of jitter.  A server that gives advice is   *)
(* left alone that long, up to the greatest wait for it, as long as its    *)
(* advice fits a duration, and else only for what is left of its advice    *)
(* after the overflow: it is asked again early, or at once.                *)
Largest(set) == CHOOSE n \in set : \A m \in set : m <= n
Doubled == cfg.baseWait * 2^attempt
WaitsAreRight ==
  [][ (pc = "judge" /\ pc' = "sleep") =>
        /\ wait' \in 0..Largest({cfg.baseWait, cfg.maxWait, cfg.maxRetryAfter})
        /\ IF Advised
             THEN Gives(wait', IF Asked <= MaxDuration THEN Asked ELSE Left)
             ELSE Doubled + Doubled \div 4 <= MaxDuration =>
                    \/ wait' = cfg.maxWait
                    \/ wait' \in Doubled..(Doubled + Doubled \div 4) ]_vars

(* RoundTrip comes back.                                                   *)
RoundTripReturns == pc = "start" ~> pc \in {"returned", "closed"}

=============================================================================
