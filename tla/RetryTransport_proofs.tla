------------------------ MODULE RetryTransport_proofs ------------------------
(***************************************************************************)
(* Theorems about RetryTransport for every width of a duration, every      *)
(* configuration and number of attempts, and every advice of a server.     *)
(*                                                                         *)
(* The loop keeps what it needs in a few variables that it sets at one     *)
(* point and uses at another: Points says what each of them holds while    *)
(* the loop is at a point, Configured what withDefaults made of the        *)
(* configuration, Cancelled where the loop can be once an attempt has      *)
(* begun too late.                                                         *)
(***************************************************************************)
EXTENDS RetryTransport, FiniteSetTheorems, FunctionTheorems, TLAPS

Configured ==
  /\ cfg.maxAttempts > 0 /\ cfg.baseWait > 0 /\ cfg.maxWait > 0 /\ cfg.maxRetryAfter > 0
  /\ req.getBody => req.body

(* What the loop discards before it sleeps: a transient response, whose    *)
(* wait leaves no error behind, or an error of the network, which it       *)
(* keeps.                                                                  *)
Discarded ==
  \/ outcome \in Responses /\ lastErr = "nil"
  \/ outcome = [kind |-> "error", error |-> "network"] /\ lastErr = "network"

Points ==
  /\ pc = "start" => attempt = 0
  /\ pc \in {"start", "send"} => unread
  /\ pc \in {"open", "sleep"} \/ attempt > 0 => CanReplay(req)
  /\ pc = "judge" => outcome # Nothing
  /\ pc = "sleep" => Discarded /\ attempt < cfg.maxAttempts - 1
  /\ pc = "decode" => answer = outcome /\ answer \in Responses
  /\ pc = "returned" => answer # Nothing

Cancelled ==
  /\ late \in {0, 1}
  /\ late = 1 => ctx = "cancelled" /\ pc \in {"judge", "decode", "returned", "closed"}

Inv == OneBodyOpen /\ Configured /\ Points /\ Cancelled /\ ~torn /\ AnswerIsLatest

-----------------------------------------------------------------------------
(* The wait after attempt n is counted in powers of two.  They are the      *)
(* numbers of subsets, of which the library knows how they grow.           *)
LEMMA PowerIsPositive ==
  ASSUME NEW n \in Nat
  PROVE  2^n \in Nat /\ 2^n >= 1
<1>1. IsFiniteSet(1..n) /\ Cardinality(1..n) = n
  BY FS_Interval
<1>2. IsFiniteSet(SUBSET (1..n)) /\ Cardinality(SUBSET (1..n)) = 2^n
  BY <1>1, FS_SUBSET
<1>3. 2^n \in Nat
  BY <1>2, FS_CardinalityType
<1>4. 2^n # 0
  BY <1>2, FS_EmptySet
<1> QED BY <1>3, <1>4

LEMMA PowerDoubles ==
  ASSUME NEW n \in Nat
  PROVE  2^(n + 1) = 2 * 2^n
<1> DEFINE A == SUBSET (1..n)
           B == {s \cup {n + 1} : s \in A}
           f == [s \in A |-> s \cup {n + 1}]
<1>1. IsFiniteSet(A) /\ Cardinality(A) = 2^n
  <2>1. IsFiniteSet(1..n) /\ Cardinality(1..n) = n
    BY FS_Interval
  <2> QED BY <2>1, FS_SUBSET
<1>2. Cardinality(SUBSET (1..(n + 1))) = 2^(n + 1)
  <2>1. IsFiniteSet(1..(n + 1)) /\ Cardinality(1..(n + 1)) = n + 1
    BY FS_Interval
  <2> QED BY <2>1, FS_SUBSET
<1>3. SUBSET (1..(n + 1)) = A \cup B
  <2>1. ASSUME NEW s \in SUBSET (1..(n + 1)) PROVE s \in A \cup B
    <3>1. CASE n + 1 \in s
      <4>1. s \ {n + 1} \in A /\ s = (s \ {n + 1}) \cup {n + 1}
        BY <3>1
      <4> QED BY <4>1
    <3>2. CASE n + 1 \notin s
      BY <3>2
    <3> QED BY <3>1, <3>2
  <2>2. ASSUME NEW s \in A PROVE s \in SUBSET (1..(n + 1)) /\ s \cup {n + 1} \in SUBSET (1..(n + 1))
    OBVIOUS
  <2>3. A \subseteq SUBSET (1..(n + 1)) /\ B \subseteq SUBSET (1..(n + 1))
    <3>1. A \subseteq SUBSET (1..(n + 1))
      BY <2>2
    <3>2. ASSUME NEW b \in B PROVE b \in SUBSET (1..(n + 1))
      <4>1. PICK s \in A : b = s \cup {n + 1}
        OBVIOUS
      <4> QED BY <2>2, <4>1
    <3> QED BY <3>1, <3>2
  <2>4. SUBSET (1..(n + 1)) \subseteq A \cup B
    BY <2>1
  <2> QED BY <2>3, <2>4
<1>4. A \cap B = {}
  <2>1. \A s \in B : n + 1 \in s
    OBVIOUS
  <2>2. \A s \in A : n + 1 \notin s
    OBVIOUS
  <2> QED BY <2>1, <2>2
<1>5. f \in Bijection(A, B)
  <2>1. f \in [A -> B]
    OBVIOUS
  <2>2. ASSUME NEW s \in A, NEW t \in A, f[s] = f[t] PROVE s = t
    <3>1. s \cup {n + 1} = t \cup {n + 1}
       BY <2>2
    <3>2. n + 1 \notin s /\ n + 1 \notin t
       OBVIOUS
    <3> QED BY <3>1, <3>2
  <2>3. \A b \in B : \E a \in A : f[a] = b
    OBVIOUS
  <2> HIDE DEF f, B, A
  <2> QED BY <2>1, <2>2, <2>3, Fun_IsBij
<1> HIDE DEF f, B, A
<1>6. IsFiniteSet(B) /\ Cardinality(B) = 2^n
  <2>1. ExistsBijection(A, B)
    BY <1>5 DEF ExistsBijection
  <2> QED BY <1>1, <2>1, FS_Bijection
<1>7. Cardinality(A \cup B) = 2^n + 2^n - Cardinality({})
  <2>1. Cardinality(A \cup B) = Cardinality(A) + Cardinality(B) - Cardinality(A \cap B)
    BY <1>1, <1>6, FS_Union
  <2> QED BY <1>1, <1>4, <1>6, <2>1
<1>8. 2^n \in Int
  OBVIOUS
<1>9. Cardinality({}) = 0
  BY FS_EmptySet
<1>10. 2^(n + 1) = 2^n + 2^n - 0
  BY <1>2, <1>3, <1>7, <1>9
<1>11. ASSUME NEW m \in Int PROVE m + m - 0 = 2 * m
  OBVIOUS
<1> QED BY <1>8, <1>10, <1>11

LEMMA DurationBounds ==
  /\ MaxDuration \in Nat \ {0} /\ MinDuration \in Int
  /\ MinDuration = -MaxDuration - 1
  /\ 2^Width = MaxDuration - MinDuration + 1
<1> DEFINE w == Width - 1
<1>1. w \in Nat /\ w >= 1 /\ w + 1 = Width
  BY WidthAssumption
<1>2. 2^w \in Nat /\ 2^w >= 1
  BY <1>1, PowerIsPositive
<1>3. 2^(w + 1) = 2 * 2^w
  BY <1>1, PowerDoubles
<1>4. 2^w >= 2
  <2>1. w - 1 \in Nat /\ (w - 1) + 1 = w
    BY <1>1
  <2>2. 2^(w - 1) \in Nat /\ 2^(w - 1) >= 1
    BY <2>1, PowerIsPositive
  <2>3. 2^((w - 1) + 1) = 2 * 2^(w - 1)
    BY <2>1, PowerDoubles
  <2>4. 2^w = 2 * 2^(w - 1)
    BY <2>1, <2>3
  <2> HIDE DEF w
  <2> QED BY <2>2, <2>4
<1>5. MaxDuration = 2^w - 1 /\ MinDuration = -(2^w)
  BY DEF MaxDuration, MinDuration
<1>6. 2^Width = 2 * 2^w
  BY <1>1, <1>3
<1> HIDE DEF w
<1> QED BY <1>2, <1>4, <1>5, <1>6

(* A number that fits is what it is; any other is some duration. *)
LEMMA WrapFits ==
  ASSUME NEW n \in Int
  PROVE  /\ Wrap(n) \in Durations
         /\ n \in Durations => Wrap(n) = n
<1> DEFINE m == MaxDuration - MinDuration + 1
<1>1. m \in Nat /\ m > 0
  BY DurationBounds
<1>2. (n - MinDuration) % m \in 0..(m - 1)
  BY <1>1, DurationBounds
<1>3. ASSUME NEW k \in Int, k >= 0, k < m PROVE k % m = k
  <2> HIDE DEF m
  <2> QED BY <1>1, <1>3
<1>4. Wrap(n) = ((n - MinDuration) % m) + MinDuration
  BY DurationBounds DEF Wrap
<1>5. n \in Durations => Wrap(n) = n
  <2> SUFFICES ASSUME n \in Durations PROVE Wrap(n) = n
    OBVIOUS
  <2>1. n - MinDuration \in Int /\ n - MinDuration >= 0 /\ n - MinDuration < m
    BY DurationBounds DEF Durations
  <2>2. (n - MinDuration) % m = n - MinDuration
    BY <2>1, <1>3
  <2> QED BY <2>2, <1>4, DurationBounds
<1>6. Wrap(n) \in Durations
  BY <1>2, <1>4, DurationBounds DEF Durations
<1> QED BY <1>5, <1>6

(* What is left of a number that does not fit: its remainder, or the       *)
(* negative number with that remainder.                                    *)
LEMMA RemainderIsUnique ==
  ASSUME NEW m \in Nat \ {0}, NEW x \in Int, NEW y \in Int, NEW q \in Int,
         x = y + q * m
  PROVE  x % m = y % m
<1> DEFINE a == x % m
           b == y % m
           c == x \div m
           d == (y \div m) + q
<1>1. /\ a \in 0..(m - 1) /\ b \in 0..(m - 1) /\ c \in Int /\ d \in Int
      /\ x = m * c + a /\ y = m * (y \div m) + b /\ y \div m \in Int
  OBVIOUS
<1>2. x = m * d + b
  BY <1>1
<1> HIDE DEF a, b, c, d
<1>3. m * (c - d) = b - a /\ b - a < m /\ b - a > -m
  BY <1>1, <1>2
<1>4. c - d \in Int /\ c - d < 1 /\ c - d > -1
  <2>1. ASSUME NEW k \in Int, k >= 1 PROVE m * k >= m
    BY <2>1
  <2>2. ASSUME NEW k \in Int, k <= -1 PROVE m * k <= -m
    BY <2>2
  <2>3. c - d \in Int
    BY <1>1
  <2>4. ~(c - d >= 1)
    BY <1>1, <1>3, <2>1, <2>3
  <2>5. ~(c - d <= -1)
    BY <1>1, <1>3, <2>2, <2>3
  <2> QED BY <2>3, <2>4, <2>5
<1>5. c = d
  BY <1>1, <1>4
<1>6. a = b
  BY <1>1, <1>2, <1>5
<1> QED BY <1>6 DEF a, b

LEMMA WrapLeaves ==
  ASSUME NEW n \in Nat
  PROVE  /\ n % 2^Width \in Nat
         /\ n % 2^Width <= MaxDuration => Wrap(n) = n % 2^Width
         /\ n % 2^Width > MaxDuration => Wrap(n) < 0
<1> DEFINE m == MaxDuration - MinDuration + 1
           r == n % m
           q == n \div m
<1>1. m \in Nat \ {0} /\ m = 2^Width
  BY DurationBounds
<1>2. r \in 0..(m - 1) /\ q \in Int /\ n = r + q * m
  BY <1>1
<1>3. Wrap(n) = ((n - MinDuration) % m) + MinDuration
  BY <1>1 DEF Wrap
<1>4. ASSUME NEW k \in 0..(m - 1) PROVE k % m = k
  BY <1>1, <1>4
<1>7. n % 2^Width = r
  BY <1>1
<1>8. ASSUME NEW x \in Int, NEW y \in 0..(m - 1), NEW p \in Int, x = y + p * m
      PROVE  x % m = y
  <2> HIDE DEF m
  <2> QED BY <1>1, <1>4, <1>8, RemainderIsUnique
<1> HIDE DEF r, q
<1>5. ASSUME r <= MaxDuration PROVE Wrap(n) = r
  <2> DEFINE y == r - MinDuration
             x == n - MinDuration
  <2>1. x \in Int /\ y \in 0..(m - 1) /\ x = y + q * m
    BY <1>1, <1>2, <1>5, DurationBounds
  <2>2. x % m = y
    <3> HIDE DEF x, y, m
    <3> QED BY <1>2, <1>8, <2>1
  <2>3. Wrap(n) = y + MinDuration
    BY <1>3, <2>2
  <2> QED BY <1>2, <2>3, DurationBounds
<1>6. ASSUME r > MaxDuration PROVE Wrap(n) < 0
  <2> DEFINE y == r - MinDuration - m
             x == n - MinDuration
  <2>1. x \in Int /\ y \in 0..(m - 1) /\ y + MinDuration < 0
    BY <1>1, <1>2, <1>6, DurationBounds
  <2>2. x = y + (q + 1) * m /\ q + 1 \in Int
    BY <1>1, <1>2, DurationBounds
  <2>3. x % m = y
    <3> HIDE DEF x, y, m
    <3> QED BY <1>8, <2>1, <2>2
  <2>4. Wrap(n) = y + MinDuration
    BY <1>3, <2>3
  <2> QED BY <2>1, <2>4
<1>9. r \in Nat
  BY <1>1, <1>2
<1> QED BY <1>5, <1>6, <1>7, <1>9

(* clampDuration keeps a wait between its bounds, the upper one above all. *)
LEMMA ClampBounds ==
  ASSUME NEW v \in Int, NEW min \in Int, NEW max \in Int, max > 0
  PROVE  /\ ClampDuration(v, min, max) \in Int
         /\ ClampDuration(v, min, max) <= max \/ ClampDuration(v, min, max) = min
         /\ ClampDuration(v, min, max) >= min \/ ClampDuration(v, min, max) = max
         /\ v >= min => ClampDuration(v, min, max) = v \/ ClampDuration(v, min, max) = max
         /\ (v >= min /\ ClampDuration(v, min, max) # v) => max < v
BY DEF ClampDuration

LEMMA LargestOfThree ==
  ASSUME NEW a \in Int, NEW b \in Int, NEW c \in Int
  PROVE  /\ Largest({a, b, c}) \in Int
         /\ a <= Largest({a, b, c}) /\ b <= Largest({a, b, c}) /\ c <= Largest({a, b, c})
<1>1. \E n \in {a, b, c} : \A m \in {a, b, c} : m <= n
  <2>1. CASE b <= a /\ c <= a
    BY <2>1
  <2>2. CASE a <= b /\ c <= b
    BY <2>2
  <2>3. CASE a <= c /\ b <= c
    BY <2>3
  <2> QED BY <2>1, <2>2, <2>3
<1> DEFINE top == CHOOSE n \in {a, b, c} : \A m \in {a, b, c} : m <= n
<1>2. top \in {a, b, c} /\ \A m \in {a, b, c} : m <= top
  BY <1>1
<1> HIDE DEF top
<1>3. Largest({a, b, c}) = top
  BY DEF Largest, top
<1> QED BY <1>2, <1>3

-----------------------------------------------------------------------------
(* The exponential wait: between the least and the greatest wait, or the   *)
(* greatest where it is below the least; and doubled every time, with a    *)
(* quarter of jitter at most, as long as that fits a duration.             *)
LEMMA BackoffBounds ==
  ASSUME NEW c \in ConfigSet, c.baseWait > 0, c.maxWait > 0, NEW n \in Nat,
         NEW v \in Backoffs(c, n)
  PROVE  /\ v \in Int /\ v > 0 /\ (v <= c.baseWait \/ v <= c.maxWait)
         /\ LET d == c.baseWait * 2^n IN
            d + d \div 4 <= MaxDuration => v = c.maxWait \/ v \in d..(d + d \div 4)
<1> DEFINE d == c.baseWait * 2^n
           jitter(w) == IF c.jitter /\ w > 0 THEN 0..(w \div 4) ELSE {0}
<1>1. c.baseWait \in Int /\ c.maxWait \in Int
  BY DurationBounds DEF ConfigSet, Durations
<1>2. PICK w \in FromFloat(d) :
           \E j \in jitter(w) : v = ClampDuration(Wrap(w + j), c.baseWait, c.maxWait)
  BY DEF Backoffs
<1>10. PICK j \in jitter(w) : v = ClampDuration(Wrap(w + j), c.baseWait, c.maxWait)
  BY <1>2
<1>3. 2^n \in Nat /\ 2^n >= 1
  BY PowerIsPositive
<1>4. d \in Int /\ d >= c.baseWait
  <2>1. ASSUME NEW p \in Nat, p >= 1, NEW b \in Nat PROVE b * p \in Int /\ b * p >= b
    <3>1. b * p = b * (p - 1) + b /\ b * (p - 1) >= 0
      BY <2>1
    <3> QED BY <2>1, <3>1
  <2> QED BY <1>1, <1>3, <2>1
<1> HIDE DEF d
<1>5. w \in Int
  BY <1>2, <1>4, DurationBounds DEF FromFloat
<1>6. j \in Int /\ j >= 0 /\ (w >= 0 => j <= w \div 4)
  BY <1>10, <1>5
<1>7. Wrap(w + j) \in Int
  BY <1>5, <1>6, WrapFits, DurationBounds DEF Durations
<1>8. /\ v \in Int
      /\ v <= c.maxWait \/ v = c.baseWait
      /\ v >= c.baseWait \/ v = c.maxWait
      /\ Wrap(w + j) >= c.baseWait => v = Wrap(w + j) \/ v = c.maxWait
  <2> DEFINE x == Wrap(w + j)
             lo == c.baseWait
             hi == c.maxWait
  <2>1. v = ClampDuration(x, lo, hi) /\ x \in Int /\ lo \in Int /\ hi \in Int /\ hi > 0
    BY <1>1, <1>7, <1>10
  <2> HIDE DEF x, lo, hi
  <2>2. /\ v \in Int
        /\ v <= hi \/ v = lo
        /\ v >= lo \/ v = hi
        /\ x >= lo => v = x \/ v = hi
    BY <2>1 DEF ClampDuration
  <2> QED BY <2>2 DEF x, lo, hi
<1>9. ASSUME d + d \div 4 <= MaxDuration PROVE v = c.maxWait \/ v \in d..(d + d \div 4)
  <2>1. d > 0 /\ d \div 4 \in Int /\ d \div 4 >= 0
    BY <1>1, <1>4
  <2>2. d \in Durations
    BY <1>4, <1>9, <2>1, DurationBounds DEF Durations
  <2>3. w = d
    BY <1>2, <2>2 DEF FromFloat
  <2>4. w + j \in d..(d + d \div 4)
    BY <1>4, <1>6, <2>1, <2>3
  <2>5. w + j \in Durations
    BY <1>4, <1>9, <2>1, <2>4, DurationBounds DEF Durations
  <2>6. Wrap(w + j) = w + j /\ w + j >= c.baseWait
    BY <1>1, <1>4, <1>5, <1>6, <2>4, <2>5, WrapFits
  <2> QED BY <1>8, <2>4, <2>6
<1> QED BY <1>1, <1>8, <1>9 DEF d

(* The wait a server asked for, or what is left of it: never less, but for *)
(* the greatest one.                                                       *)
LEMMA RetryAfterBounds ==
  ASSUME NEW c \in ConfigSet, c.maxRetryAfter > 0, NEW s \in Int,
         NEW v \in RetryAfters(c, s)
  PROVE  /\ v \in Int /\ v >= 0 /\ v <= c.maxRetryAfter
         /\ LET asked == IF s < 0 THEN 0 ELSE s * Unit
                rest == asked % 2^Width
                due == IF asked <= MaxDuration THEN asked
                       ELSE IF rest > MaxDuration THEN 0 ELSE rest IN
            v = due \/ (v = c.maxRetryAfter /\ v < due)
<1> DEFINE asked == IF s < 0 THEN 0 ELSE s * Unit
           rest == asked % 2^Width
<1>1. c.maxRetryAfter \in Int
  BY DurationBounds DEF ConfigSet, Durations
<1>2. asked \in Int /\ asked >= 0
  BY WidthAssumption
<1>3. ParseRetryAfter(s) \in Int
  BY WrapFits, WidthAssumption, DurationBounds DEF ParseRetryAfter, Durations
<1>4. v = ClampDuration(ParseRetryAfter(s), 0, c.maxRetryAfter)
  BY DEF RetryAfters
<1>5. /\ v \in Int
      /\ v <= c.maxRetryAfter \/ v = 0
      /\ v >= 0 \/ v = c.maxRetryAfter
      /\ ParseRetryAfter(s) >= 0 => v = ParseRetryAfter(s) \/ v = c.maxRetryAfter
      /\ ParseRetryAfter(s) >= 0 /\ v # ParseRetryAfter(s) => c.maxRetryAfter < ParseRetryAfter(s)
      /\ ParseRetryAfter(s) < 0 => v = 0
  <2> DEFINE p == ParseRetryAfter(s)
  <2>1. p \in Int /\ v = ClampDuration(p, 0, c.maxRetryAfter)
    BY <1>3, <1>4
  <2> HIDE DEF p
  <2>2. /\ v \in Int
        /\ v <= c.maxRetryAfter \/ v = 0
        /\ v >= 0 \/ v = c.maxRetryAfter
        /\ p >= 0 => v = p \/ v = c.maxRetryAfter
        /\ p >= 0 /\ v # p => c.maxRetryAfter < p
        /\ p < 0 => v = 0
    BY <1>1, <2>1 DEF ClampDuration
  <2> QED BY <2>2 DEF p
<1>6. ASSUME asked <= MaxDuration PROVE ParseRetryAfter(s) = asked
  <2>1. CASE s < 0
    BY <2>1 DEF ParseRetryAfter
  <2>2. CASE ~(s < 0)
    <3>1. asked = s * Unit /\ ParseRetryAfter(s) = Wrap(asked)
      BY <2>2 DEF ParseRetryAfter
    <3>2. asked \in Durations
      BY <1>2, <1>6, DurationBounds DEF Durations
    <3> HIDE DEF asked
    <3> QED BY <1>2, <3>1, <3>2, WrapFits
  <2> QED BY <2>1, <2>2
<1>7. ASSUME asked > MaxDuration
      PROVE  /\ rest \in Nat
             /\ rest <= MaxDuration => ParseRetryAfter(s) = rest
             /\ rest > MaxDuration => ParseRetryAfter(s) < 0
  <2>1. ~(s < 0)
    BY <1>7, DurationBounds
  <2>2. asked = s * Unit /\ ParseRetryAfter(s) = Wrap(asked)
    BY <2>1 DEF ParseRetryAfter
  <2>3. asked \in Nat
    BY <1>2
  <2> HIDE DEF asked
  <2> QED BY <2>2, <2>3, WrapLeaves
<1> HIDE DEF asked, rest
<1> DEFINE due == IF asked <= MaxDuration THEN asked ELSE IF rest > MaxDuration THEN 0 ELSE rest
<1>8. v = due \/ (v = c.maxRetryAfter /\ v < due)
  <2>1. CASE asked <= MaxDuration
    BY <1>1, <1>2, <1>5, <1>6, <2>1
  <2>2. CASE asked > MaxDuration /\ rest <= MaxDuration
    BY <1>1, <1>2, <1>5, <1>7, <2>2, DurationBounds
  <2>3. CASE asked > MaxDuration /\ rest > MaxDuration
    BY <1>2, <1>5, <1>7, <2>3, DurationBounds
  <2> QED BY <1>2, <1>7, <2>1, <2>2, <2>3, DurationBounds
<1>9. v \in Int /\ v >= 0 /\ v <= c.maxRetryAfter
  BY <1>1, <1>5
<1> QED BY <1>8, <1>9 DEF due, asked, rest

LEMMA SecondsAreInts == Seconds \subseteq Int /\ NoHeader \notin Int
BY SecondsAssumption, DurationBounds DEF Durations

LEMMA WaitBounds ==
  ASSUME TypeOK, Configured, NEW v \in RetryWaits(cfg, attempt, outcome)
  PROVE  v \in 0..Largest({cfg.baseWait, cfg.maxWait, cfg.maxRetryAfter}) /\ v \in Durations
<1>1. /\ cfg \in ConfigSet /\ attempt \in Nat
      /\ cfg.baseWait \in Durations /\ cfg.maxWait \in Durations /\ cfg.maxRetryAfter \in Durations
      /\ outcome.kind = "transient" /\ outcome.after # NoHeader => outcome.after \in Int
  <2>1. cfg \in ConfigSet /\ attempt \in Nat
    BY DEF TypeOK, Configured, ConfigSet
  <2>2. outcome \in Responses \cup ErrorAnswers \cup {Nothing}
    BY DEF TypeOK
  <2>3. outcome.kind = "transient" => outcome \in Responses
    BY <2>2 DEF ErrorAnswers, Nothing
  <2> QED BY <2>1, <2>3, SecondsAreInts DEF ConfigSet, Responses
<1>2. cfg.baseWait \in Int /\ cfg.maxWait \in Int /\ cfg.maxRetryAfter \in Int
  BY <1>1, DurationBounds DEF Durations
<1>3. /\ v \in Int /\ v >= 0
      /\ v <= cfg.baseWait \/ v <= cfg.maxWait \/ v <= cfg.maxRetryAfter
  <2>1. CASE outcome.kind = "transient" /\ outcome.after # NoHeader
    <3>1. v \in RetryAfters(cfg, outcome.after) /\ outcome.after \in Int
      BY <1>1, <2>1 DEF RetryWaits
    <3>2. v \in Int /\ v >= 0 /\ v <= cfg.maxRetryAfter
      BY <1>1, <3>1, RetryAfterBounds DEF Configured
    <3> QED BY <3>2
  <2>2. CASE ~(outcome.kind = "transient" /\ outcome.after # NoHeader)
    <3>1. v \in Backoffs(cfg, attempt)
      BY <2>2 DEF RetryWaits
    <3>2. v \in Int /\ v > 0 /\ (v <= cfg.baseWait \/ v <= cfg.maxWait)
      BY <1>1, <3>1, BackoffBounds DEF Configured
    <3> QED BY <3>2
  <2> QED BY <2>1, <2>2
<1>4. v \in 0..Largest({cfg.baseWait, cfg.maxWait, cfg.maxRetryAfter})
  <2> DEFINE top == Largest({cfg.baseWait, cfg.maxWait, cfg.maxRetryAfter})
  <2>1. /\ top \in Int
        /\ cfg.baseWait <= top /\ cfg.maxWait <= top /\ cfg.maxRetryAfter <= top
    BY <1>2, LargestOfThree
  <2> HIDE DEF top
  <2>2. v \in 0..top
    BY <1>2, <1>3, <2>1
  <2> QED BY <2>2 DEF top
<1> QED BY <1>1, <1>2, <1>3, <1>4, DurationBounds DEF Durations

-----------------------------------------------------------------------------
LEMMA KindTells ==
  ASSUME NEW a \in Responses \cup ErrorAnswers \cup {Nothing}
  PROVE  /\ a \in Responses <=> a.kind \in {"done", "transient"}
         /\ a \in ErrorAnswers <=> a.kind = "error"
         /\ a = Nothing <=> a.kind = "nothing"
BY DEF Responses, ErrorAnswers, Nothing

LEMMA InvInit == Init => Inv
<1> SUFFICES ASSUME Init PROVE Inv
  OBVIOUS
<1>1. PICK c \in Configs : cfg = WithDefaults(c)
  BY DEF Init
<1>2. c \in ConfigSet
  BY <1>1, ConfigsAssumption
<1>3. cfg \in ConfigSet /\ Configured
  <2> DEFINE or(v, default) == IF v <= 0 THEN default ELSE v
  <2>1. cfg = [c EXCEPT !.maxAttempts = or(@, Defaults.maxAttempts),
                        !.baseWait = or(@, Defaults.baseWait),
                        !.maxWait = or(@, Defaults.maxWait),
                        !.maxRetryAfter = or(@, Defaults.maxRetryAfter)]
    BY <1>1 DEF WithDefaults
  <2>2. /\ cfg.maxAttempts = or(c.maxAttempts, Defaults.maxAttempts)
        /\ cfg.baseWait = or(c.baseWait, Defaults.baseWait)
        /\ cfg.maxWait = or(c.maxWait, Defaults.maxWait)
        /\ cfg.maxRetryAfter = or(c.maxRetryAfter, Defaults.maxRetryAfter)
    BY <1>2, <2>1 DEF ConfigSet
  <2>3. /\ Defaults \in ConfigSet
        /\ Defaults.maxAttempts > 0 /\ Defaults.baseWait > 0
        /\ Defaults.maxWait > 0 /\ Defaults.maxRetryAfter > 0
    BY ConfigsAssumption
  <2>4. /\ c.maxAttempts \in Int /\ c.baseWait \in Int /\ c.maxWait \in Int /\ c.maxRetryAfter \in Int
        /\ Defaults.maxAttempts \in Int
    BY <1>2, <2>3, DurationBounds DEF ConfigSet, Durations
  <2>5. cfg.maxAttempts > 0 /\ cfg.baseWait > 0 /\ cfg.maxWait > 0 /\ cfg.maxRetryAfter > 0
    BY <2>2, <2>3, <2>4
  <2>6. cfg \in ConfigSet
    BY <1>2, <2>1, <2>3 DEF ConfigSet
  <2> QED BY <2>5, <2>6 DEF Configured, Init
<1>4. 0 \in 0..(cfg.maxAttempts - 1) /\ 0 \in Durations
  BY <1>3, DurationBounds DEF Configured, ConfigSet, Durations
<1>5. OneBodyOpen
  BY <1>3, <1>4 DEF OneBodyOpen, TypeOK, Init, Nothing
<1>6. Points /\ Cancelled /\ AnswerIsLatest /\ ~torn
  BY DEF Points, Cancelled, AnswerIsLatest, Init, Nothing
<1> QED BY <1>3, <1>5, <1>6 DEF Inv

(* What an action leaves alone. *)
LEMMA SetUpStays == [Next]_vars => req' = req /\ cfg' = cfg
BY DEF Next, Step, vars, Cancel, CloseBody, Start, OpenBody, OpenBodyFails, Send, GiveAnswer, Discard, Wake,
       SleepEnds, Decode

LEMMA TypeStep ==
  ASSUME Inv, [Next]_vars
  PROVE  TypeOK'
<1> USE DEF Inv, OneBodyOpen
<1>0. req' = req /\ cfg' = cfg
  BY SetUpStays
<1>1. TypeOK /\ cfg.maxAttempts \in Nat /\ attempt \in Nat
  BY DEF TypeOK, Configured, ConfigSet
<1>2. CASE Cancel
  BY <1>0, <1>1, <1>2 DEF Cancel, TypeOK, history
<1>3. CASE Start
  BY <1>0, <1>1, <1>3 DEF Start, TypeOK, history
<1>4. CASE OpenBody
  BY <1>0, <1>1, <1>4 DEF OpenBody, TypeOK, history
<1>5. CASE OpenBodyFails
  <2>1. answer' \in ErrorAnswers
    BY <1>5 DEF OpenBodyFails, ErrorAnswers
  <2> QED BY <1>0, <1>1, <1>5, <2>1 DEF OpenBodyFails, TypeOK, history
<1>6. CASE Send
  <2>1. outcome' \in Responses \cup ErrorAnswers
    BY <1>6 DEF Send, ErrorAnswers
  <2>2. open' \subseteq Nat /\ late' \in Nat /\ torn' \in BOOLEAN
    BY <1>1, <1>6 DEF Send, TypeOK
  <2> QED BY <1>0, <1>1, <1>6, <2>1, <2>2 DEF Send, TypeOK
<1>7. CASE GiveAnswer
  BY <1>0, <1>1, <1>7 DEF GiveAnswer, TypeOK, history
<1>8. CASE Discard
  <2>1. outcome.kind = "error" => outcome.error = "network"
    BY <1>8 DEF Discard, Final, ShouldRetry
  <2>2. wait' \in Durations
    BY <1>1, <1>8, WaitBounds DEF Discard
  <2> QED BY <1>0, <1>1, <1>8, <2>1, <2>2 DEF Discard, TypeOK
<1>9. CASE Wake
  <2>1. attempt' \in 0..(cfg.maxAttempts - 1)
    BY <1>1, <1>9 DEF Wake, Points
  <2> QED BY <1>0, <1>1, <1>9, <2>1 DEF Wake, TypeOK, history
<1>10. CASE SleepEnds
  <2>1. answer' \in ErrorAnswers
    BY <1>1, <1>10 DEF SleepEnds, ErrorAnswers, TypeOK, Errors
  <2> QED BY <1>0, <1>1, <1>10, <2>1 DEF SleepEnds, TypeOK, history
<1>11. CASE Decode
  <2>1. answer' \in ErrorAnswers \cup {answer} /\ open' \subseteq open
    BY <1>1, <1>11 DEF Decode, ErrorAnswers
  <2> QED BY <1>0, <1>1, <1>11, <2>1 DEF Decode, TypeOK, history
<1>12. CASE CloseBody
  BY <1>0, <1>1, <1>12 DEF CloseBody, TypeOK, history
<1>13. CASE UNCHANGED vars
  BY <1>1, <1>13 DEF vars, TypeOK
<1> QED
  BY <1>2, <1>3, <1>4, <1>5, <1>6, <1>7, <1>8, <1>9, <1>10, <1>11, <1>12, <1>13 DEF Next, Step

(* A body is opened by Send and closed by whoever takes the loop away from  *)
(* the response.                                                           *)
LEMMA BodyStep ==
  ASSUME Inv, [Next]_vars
  PROVE  OneBodyOpen'
<1> DEFINE Held == \/ pc = "judge" /\ outcome.kind # "error"
                   \/ pc = "decode"
                   \/ pc = "returned" /\ answer.kind # "error"
<1>0. TypeOK /\ TypeOK' /\ open = IF Held THEN {attempt} ELSE {}
  BY TypeStep DEF Inv, OneBodyOpen
<1>1. SUFFICES open' = IF Held' THEN {attempt'} ELSE {}
  BY <1>0 DEF OneBodyOpen
<1>2. CASE Cancel
  BY <1>0, <1>1, <1>2 DEF Cancel, Inv, Points
<1>3. CASE Start
  BY <1>0, <1>1, <1>3 DEF Start, Inv, Points
<1>4. CASE OpenBody
  BY <1>0, <1>1, <1>4 DEF OpenBody, Inv, Points
<1>5. CASE OpenBodyFails
  BY <1>0, <1>1, <1>5 DEF OpenBodyFails, Inv, Points
<1>6. CASE Send
  <2>1. outcome' \in Responses => outcome'.kind # "error"
    BY DEF Responses
  <2> QED BY <1>0, <1>6, <2>1 DEF Send
<1>7. CASE GiveAnswer
  <2>1. outcome.kind # "nothing"
    BY <1>0, <1>7, KindTells DEF GiveAnswer, Inv, Points, TypeOK
  <2> QED BY <1>0, <1>7, <2>1 DEF GiveAnswer
<1>8. CASE Discard
  BY <1>0, <1>1, <1>8 DEF Discard, Inv, Points
<1>9. CASE Wake
  BY <1>0, <1>1, <1>9 DEF Wake, Inv, Points
<1>10. CASE SleepEnds
  BY <1>0, <1>1, <1>10 DEF SleepEnds, Inv, Points
<1>11. CASE Decode
  <2>1. answer.kind # "error"
    BY <1>11, KindTells DEF Decode, Inv, Points, Responses
  <2> QED BY <1>0, <1>11, <2>1 DEF Decode
<1>12. CASE CloseBody
  BY <1>0, <1>1, <1>12 DEF CloseBody, Inv, Points
<1>13. CASE UNCHANGED vars
  BY <1>0, <1>1, <1>13 DEF vars, Inv, Points
<1> QED
  BY <1>2, <1>3, <1>4, <1>5, <1>6, <1>7, <1>8, <1>9, <1>10, <1>11, <1>12, <1>13 DEF Next, Step

(* Every point of the loop is entered with what it needs. *)
LEMMA PointsStep ==
  ASSUME Inv, [Next]_vars
  PROVE  Points'
<1>0. TypeOK /\ Configured /\ Points /\ cfg.maxAttempts \in Nat /\ attempt \in Nat
  BY DEF Inv, OneBodyOpen, TypeOK, Configured, ConfigSet
<1>1. CanReplay(req)' = CanReplay(req) /\ cfg' = cfg
  BY SetUpStays DEF CanReplay
<1>2. CASE Cancel
  BY <1>0, <1>1, <1>2 DEF Cancel, Points, Discarded
<1>3. CASE Start
  BY <1>0, <1>1, <1>3 DEF Start, Points, Discarded
<1>4. CASE OpenBody
  BY <1>0, <1>1, <1>4 DEF OpenBody, Points, Discarded
<1>5. CASE OpenBodyFails
  BY <1>0, <1>1, <1>5 DEF OpenBodyFails, Points, Nothing
<1>6. CASE Send
  <2>1. outcome' # Nothing
    BY <1>6 DEF Send, Responses, Nothing
  <2> QED BY <1>0, <1>1, <1>6, <2>1 DEF Send, Points
<1>7. CASE GiveAnswer
  <2>1. outcome # Nothing /\ outcome \in Responses \cup ErrorAnswers
    BY <1>0, <1>7 DEF GiveAnswer, Points, TypeOK
  <2>2. outcome.kind # "error" => outcome \in Responses
    BY <2>1 DEF ErrorAnswers
  <2> QED BY <1>0, <1>1, <1>7, <2>1, <2>2 DEF GiveAnswer, Points
<1>8. CASE Discard
  <2>1. CanReplay(req) /\ ShouldRetry /\ attempt # cfg.maxAttempts - 1
    BY <1>8 DEF Discard, Final
  <2>2. attempt < cfg.maxAttempts - 1
    BY <1>0, <2>1 DEF TypeOK
  <2>3. outcome \in Responses \cup ErrorAnswers \cup {Nothing}
    BY <1>0 DEF TypeOK
  <2>4. CASE outcome.kind = "transient"
    <3>1. outcome \in Responses /\ outcome.kind # "error"
      BY <2>3, <2>4, KindTells
    <3> QED BY <1>0, <1>1, <1>8, <2>1, <2>2, <3>1 DEF Discard, Points, Discarded
  <2>5. CASE outcome.kind = "error" /\ outcome.error = "network"
    <3>1. outcome = [kind |-> "error", error |-> "network"]
      BY <2>3, <2>5, KindTells DEF ErrorAnswers
    <3> QED BY <1>0, <1>1, <1>8, <2>1, <2>2, <2>5, <3>1 DEF Discard, Points, Discarded
  <2> QED BY <2>1, <2>4, <2>5 DEF ShouldRetry
<1>9. CASE Wake
  BY <1>0, <1>1, <1>9 DEF Wake, Points, Discarded
<1>10. CASE SleepEnds
  BY <1>0, <1>1, <1>10 DEF SleepEnds, Points, Nothing
<1>11. CASE Decode
  BY <1>0, <1>1, <1>11 DEF Decode, Points, Nothing, Responses
<1>12. CASE CloseBody
  BY <1>0, <1>1, <1>12 DEF CloseBody, Points, Discarded
<1>13. CASE UNCHANGED vars
  BY <1>0, <1>1, <1>13 DEF vars, Points, Discarded
<1> QED
  BY <1>2, <1>3, <1>4, <1>5, <1>6, <1>7, <1>8, <1>9, <1>10, <1>11, <1>12, <1>13 DEF Next, Step

(* An attempt that begins under an ended context is the last one, and none *)
(* begins with a body that has been read.                                  *)
LEMMA SendsStep ==
  ASSUME Inv, [Next]_vars
  PROVE  Cancelled' /\ ~torn'
<1>0. TypeOK /\ Points /\ Cancelled /\ ~torn
  BY DEF Inv, OneBodyOpen
<1>1. ctx = "cancelled" => ctx' = "cancelled"
  BY DEF Next, Step, vars, Cancel, CloseBody, Start, OpenBody, OpenBodyFails, Send, GiveAnswer, Discard,
         Wake, SleepEnds, Decode
<1>2. CASE Cancel
  BY <1>0, <1>1, <1>2 DEF Cancel, Cancelled, history
<1>3. CASE Start
  BY <1>0, <1>1, <1>3 DEF Start, Cancelled, history
<1>4. CASE OpenBody
  BY <1>0, <1>1, <1>4 DEF OpenBody, Cancelled, history
<1>5. CASE OpenBodyFails
  BY <1>0, <1>1, <1>5 DEF OpenBodyFails, Cancelled, history
<1>6. CASE Send
  BY <1>0, <1>1, <1>6 DEF Send, Cancelled, Points, TypeOK
<1>7. CASE GiveAnswer
  BY <1>0, <1>1, <1>7 DEF GiveAnswer, Cancelled, history
<1>8. CASE Discard
  BY <1>0, <1>1, <1>8 DEF Discard, Cancelled, Final, ShouldRetry
<1>9. CASE Wake
  BY <1>0, <1>1, <1>9 DEF Wake, Cancelled, history
<1>10. CASE SleepEnds
  BY <1>0, <1>1, <1>10 DEF SleepEnds, Cancelled, history
<1>11. CASE Decode
  BY <1>0, <1>1, <1>11 DEF Decode, Cancelled, history
<1>12. CASE CloseBody
  BY <1>0, <1>1, <1>12 DEF CloseBody, Cancelled, history
<1>13. CASE UNCHANGED vars
  BY <1>0, <1>1, <1>13 DEF vars, Cancelled, history
<1> QED
  BY <1>2, <1>3, <1>4, <1>5, <1>6, <1>7, <1>8, <1>9, <1>10, <1>11, <1>12, <1>13 DEF Next, Step

(* An answer that is an error was given last, or ended the wait.           *)
LEMMA AnswerStep ==
  ASSUME Inv, [Next]_vars
  PROVE  AnswerIsLatest'
<1>0. TypeOK /\ Points /\ AnswerIsLatest
  BY DEF Inv, OneBodyOpen
<1>1. ctx = "cancelled" => ctx' = "cancelled"
  BY DEF Next, Step, vars, Cancel, CloseBody, Start, OpenBody, OpenBodyFails, Send, GiveAnswer, Discard,
         Wake, SleepEnds, Decode
<1>2. CASE Cancel
  BY <1>0, <1>1, <1>2 DEF Cancel, AnswerIsLatest
<1>3. CASE Start
  BY <1>0, <1>1, <1>3 DEF Start, AnswerIsLatest
<1>4. CASE OpenBody
  BY <1>0, <1>1, <1>4 DEF OpenBody, AnswerIsLatest
<1>5. CASE OpenBodyFails
  BY <1>0, <1>1, <1>5 DEF OpenBodyFails, AnswerIsLatest
<1>6. CASE Send
  BY <1>0, <1>1, <1>6 DEF Send, AnswerIsLatest
<1>7. CASE GiveAnswer
  BY <1>0, <1>1, <1>7 DEF GiveAnswer, AnswerIsLatest
<1>8. CASE Discard
  BY <1>0, <1>1, <1>8 DEF Discard, AnswerIsLatest
<1>9. CASE Wake
  BY <1>0, <1>1, <1>9 DEF Wake, AnswerIsLatest
<1>10. CASE SleepEnds
  <2>1. CASE outcome \in Responses /\ lastErr = "nil"
    BY <1>10, <2>1, KindTells DEF SleepEnds, AnswerIsLatest, Responses
  <2>2. CASE outcome = [kind |-> "error", error |-> "network"] /\ lastErr = "network"
    BY <1>10, <2>2 DEF SleepEnds, AnswerIsLatest
  <2> QED BY <1>0, <1>10, <2>1, <2>2 DEF SleepEnds, Points, Discarded
<1>11. CASE Decode
  <2>1. answer.kind # "error"
    BY <1>0, <1>11 DEF Decode, Points, Responses
  <2> QED BY <1>0, <1>1, <1>11, <2>1 DEF Decode, AnswerIsLatest
<1>12. CASE CloseBody
  BY <1>0, <1>1, <1>12 DEF CloseBody, AnswerIsLatest
<1>13. CASE UNCHANGED vars
  BY <1>0, <1>1, <1>13 DEF vars, AnswerIsLatest
<1> QED
  BY <1>2, <1>3, <1>4, <1>5, <1>6, <1>7, <1>8, <1>9, <1>10, <1>11, <1>12, <1>13 DEF Next, Step

LEMMA InvAlways == Spec => []Inv
<1>1. Inv /\ [Next]_vars => Inv'
  <2> SUFFICES ASSUME Inv, [Next]_vars PROVE Inv'
    OBVIOUS
  <2>1. Configured'
    BY SetUpStays DEF Inv, Configured
  <2> QED BY <2>1, BodyStep, PointsStep, SendsStep, AnswerStep DEF Inv
<1> QED BY <1>1, InvInit, PTL DEF Spec

(* Over any number of attempts, failures and cancellations a response is   *)
(* closed before the next attempt, and none is left open behind an error.  *)
THEOREM NoBodyLeaks == Spec => []OneBodyOpen
<1>1. Inv => OneBodyOpen
  BY DEF Inv
<1> QED BY <1>1, InvAlways, PTL

(* A request is repeated whole, only where that is allowed, and at most    *)
(* once after its caller has gone.                                         *)
THEOREM RepeatsAreWhole == Spec => []AttemptsAreWhole
<1>1. Inv => AttemptsAreWhole
  <2> SUFFICES ASSUME Inv PROVE AttemptsAreWhole
    OBVIOUS
  <2>1. attempt > 0 => (req.body => req.getBody) /\ (req.idempotent \/ cfg.nonIdempotent)
    BY DEF Inv, Points, CanReplay
  <2>2. late <= 1
    BY DEF Inv, Cancelled
  <2> QED BY <2>1, <2>2 DEF Inv, AttemptsAreWhole
<1> QED BY <1>1, InvAlways, PTL

(* No error of an earlier attempt is ever returned for the last one.       *)
THEOREM LastAnswerWins == Spec => []AnswerIsLatest
<1>1. Inv => AnswerIsLatest
  BY DEF Inv
<1> QED BY <1>1, InvAlways, PTL

(* Every wait is within its bounds, whatever overflows, for every width of *)
(* a duration.  It is the one the server asked for, up to the greatest,    *)
(* only if that fits a duration (of one that does not, what is left after  *)
(* the overflow), and twice the one before only if that does.              *)
THEOREM WaitsWithinBounds == Spec => WaitsAreRight
<1> DEFINE
      Right ==
        (pc = "judge" /\ pc' = "sleep") =>
          /\ wait' \in 0..Largest({cfg.baseWait, cfg.maxWait, cfg.maxRetryAfter})
          /\ IF Advised
               THEN Gives(wait', IF Asked <= MaxDuration THEN Asked ELSE Left)
               ELSE Doubled + Doubled \div 4 <= MaxDuration =>
                      \/ wait' = cfg.maxWait
                      \/ wait' \in Doubled..(Doubled + Doubled \div 4)
<1>1. Inv /\ [Next]_vars => Right
  <2> SUFFICES ASSUME Inv, [Next]_vars, pc = "judge", pc' = "sleep" PROVE Right
    OBVIOUS
  <2>1. Discard
    BY DEF Next, Step, vars, Cancel, CloseBody, Start, OpenBody, OpenBodyFails, Send, GiveAnswer, Wake,
           SleepEnds, Decode
  <2>2. TypeOK /\ Configured /\ wait' \in RetryWaits(cfg, attempt, outcome)
    BY <2>1 DEF Inv, OneBodyOpen, Discard
  <2>3. wait' \in 0..Largest({cfg.baseWait, cfg.maxWait, cfg.maxRetryAfter})
    BY <2>2, WaitBounds
  <2>4. cfg \in ConfigSet /\ attempt \in Nat /\ cfg.maxRetryAfter > 0 /\ cfg.baseWait > 0 /\ cfg.maxWait > 0
    BY <2>2 DEF TypeOK, Configured, ConfigSet
  <2>5. ASSUME Advised
        PROVE  Gives(wait', IF Asked <= MaxDuration THEN Asked ELSE Left)
    <3>1. outcome \in Responses
      BY <2>2, <2>5, KindTells DEF Advised, TypeOK
    <3>2. outcome.after \in Int
      BY <2>5, <3>1, SecondsAreInts DEF Advised, Responses
    <3>3. wait' \in RetryAfters(cfg, outcome.after)
      BY <2>2, <2>5 DEF RetryWaits, Advised
    <3> QED BY <2>4, <3>2, <3>3, RetryAfterBounds DEF Asked, Left, Gives
  <2>6. ASSUME ~Advised, Doubled + Doubled \div 4 <= MaxDuration
        PROVE  wait' = cfg.maxWait \/ wait' \in Doubled..(Doubled + Doubled \div 4)
    <3>1. wait' \in Backoffs(cfg, attempt)
      BY <2>2, <2>6 DEF RetryWaits, Advised
    <3> QED BY <2>4, <2>6, <3>1, BackoffBounds DEF Doubled
  <2> QED BY <2>3, <2>5, <2>6
<1>2. Inv /\ [Next]_vars => [Right]_vars
  BY <1>1
<1> QED BY <1>2, InvAlways, PTL DEF Spec, WaitsAreRight

=============================================================================
