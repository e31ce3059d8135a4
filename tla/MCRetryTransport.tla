-------------------------- MODULE MCRetryTransport --------------------------
(* Instances of RetryTransport for TLC: durations of eight bits, a second  *)
(* of ten units, waits of which the fourth no longer fits.                 *)
EXTENDS RetryTransport

Config(attempts, base, most, after, withJitter, nonIdempotentToo) ==
  [maxAttempts |-> attempts, baseWait |-> base, maxWait |-> most,
   maxRetryAfter |-> after, jitter |-> withJitter, nonIdempotent |-> nonIdempotentToo]

Usual == Config(3, 10, 50, 100, TRUE, TRUE)

(* Nothing set; many attempts with a wait that overflows; a base above the *)
(* greatest wait.                                                          *)
Settings == {Config(0, 0, 0, 0, FALSE, FALSE), Config(5, 20, 90, 60, TRUE, TRUE),
             Config(2, 70, 40, 120, TRUE, FALSE)}

(* A minute ago, at once, soon, late; 130 units, which wrap to a negative  *)
(* number, and 270, of which 14 are left.                                  *)
Advice == {-6, 0, 2, 11, 13, 27}
=============================================================================
