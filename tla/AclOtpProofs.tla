---------------------------- MODULE AclOtpProofs ----------------------------
(***************************************************************************)
(* The properties of one time passwords, proved for every size of a byte,  *)
(* window, interval and length of a run, and every hash that tells the     *)
(* counters apart.                                                         *)
(***************************************************************************)
EXTENDS AclOtp, TLAPS

-----------------------------------------------------------------------------
(* Division *)

LEMMA Quotient ==
  ASSUME NEW a \in Nat, NEW d \in Nat \ {0}
  PROVE  /\ a \div d \in Nat /\ a % d \in 0 .. d - 1
         /\ a = d * (a \div d) + (a % d)
<1>1. a % d \in 0 .. d - 1
  OBVIOUS
<1>2. a = d * (a \div d) + (a % d)
  OBVIOUS
<1>3. a \div d \in Nat
  OBVIOUS
<1> QED BY <1>1, <1>2, <1>3

(* A quotient is the only number of its kind. *)
LEMMA QuotientBounds ==
  ASSUME NEW q \in Int, NEW p \in Int, NEW r \in Int, NEW d \in Nat \ {0},
         r < d, d * p <= d * q + r
  PROVE  p <= q
<1>1. SUFFICES ASSUME q + 1 <= p PROVE FALSE
  OBVIOUS
<1>2. d * (q + 1) <= d * p
  BY <1>1
<1>3. d * (q + 1) = d * q + d
  OBVIOUS
<1> QED BY <1>2, <1>3

(* The number of the interval grows with the time, by as many intervals as *)
(* have gone by at most.                                                   *)
LEMMA QuotientGrows ==
  ASSUME NEW a \in Nat, NEW b \in Nat, NEW k \in Nat, NEW d \in Nat \ {0},
         a <= b, b <= a + k * d
  PROVE  a \div d <= b \div d /\ b \div d <= a \div d + k
<1> DEFINE p == a \div d
           q == b \div d
<1>1. /\ p \in Nat /\ a % d \in 0 .. d - 1 /\ a = d * p + (a % d)
      /\ q \in Nat /\ b % d \in 0 .. d - 1 /\ b = d * q + (b % d)
  BY Quotient
<1>2. d * p \in Nat /\ d * q \in Nat /\ k * d \in Nat
  BY <1>1
<1> HIDE DEF p, q
<1>3. d * p <= d * q + (b % d)
  BY <1>1, <1>2
<1>4. p <= q
  BY <1>1, <1>3, QuotientBounds
<1>5. d * q <= d * (p + k) + (a % d)
  <2>1. d * (p + k) = d * p + k * d
    BY <1>1
  <2> QED BY <1>1, <1>2, <2>1
<1>6. q <= p + k
  BY <1>1, <1>5, QuotientBounds
<1> QED BY <1>4, <1>6 DEF p, q

-----------------------------------------------------------------------------
(* The word of the record *)

LEMMA WordType == Word \in Nat \ {0}
<1>1. ByteSize \in Nat \ {0}
  BY OtpAssumption
<1>2. ByteSize * ByteSize > 0 /\ ByteSize * ByteSize \in Nat
  BY <1>1
<1> QED BY <1>2 DEF Word

(* A torn word is a word. *)
LEMMA TornWord ==
  ASSUME NEW old \in 0 .. Word - 1, NEW new \in 0 .. Word - 1
  PROVE  Torn(old, new) \subseteq 0 .. Word - 1
<1>1. ByteSize \in Nat \ {0} /\ Word = ByteSize * ByteSize /\ Word \in Nat
  BY OtpAssumption, WordType DEF Word
<1>2. ASSUME NEW a \in 0 .. Word - 1, NEW b \in 0 .. Word - 1
      PROVE  (a \div ByteSize) * ByteSize + (b % ByteSize) \in 0 .. Word - 1
  <2> DEFINE q == a \div ByteSize
             r == b % ByteSize
  <2>0. a \in Nat /\ b \in Nat
    BY <1>1
  <2>1. /\ a \in Nat /\ q \in Nat /\ a % ByteSize \in 0 .. ByteSize - 1
        /\ a = ByteSize * q + (a % ByteSize) /\ r \in 0 .. ByteSize - 1
    BY <1>1, <2>0, Quotient
  <2> HIDE DEF q, r
  <2>2. q + 1 <= ByteSize
    <3>1. SUFFICES ASSUME ByteSize <= q PROVE FALSE
      BY <1>1, <2>1
    <3>2. ByteSize * ByteSize <= ByteSize * q
      BY <1>1, <2>1, <3>1
    <3> QED BY <1>1, <1>2, <2>1, <3>2
  <2>3. (q + 1) * ByteSize <= ByteSize * ByteSize
    BY <1>1, <2>1, <2>2
  <2>4. (q + 1) * ByteSize = q * ByteSize + ByteSize /\ q * ByteSize \in Nat
    BY <1>1, <2>1
  <2>5. q * ByteSize + r \in 0 .. Word - 1
    BY <1>1, <2>1, <2>3, <2>4
  <2> QED BY <2>5 DEF q, r
<1> QED BY <1>2 DEF Torn

-----------------------------------------------------------------------------
(* The inductive invariant: the configuration is one of those there are,   *)
(* the counter is behind what is used up and not past the token, and the   *)
(* password of the clock was read before now.                              *)
IInv ==
  /\ TypeOK
  /\ type \in {"hotp", "totp"} /\ follow \in Followings
  /\ type = "totp" => value \in Intervals
  /\ issued <= now
  /\ type = "hotp" /\ trusted => spent < value /\ value <= token

(* What is accepted of a counter: the password of a counter in the window, *)
(* and that counter is the one that is found.                              *)
LEMMA OnlyTheCounter ==
  ASSUME IInv, type = "hotp", NEW n \in 0 .. LastCounter
  PROVE  Matches(Hotp(n)) = {n} \cap (value .. value + follow)
<1>1. /\ value \in Nat /\ follow \in Nat /\ LastCounter \in Nat /\ Word \in Nat
      /\ value < Word /\ previous = 0 /\ Word + follow <= LastCounter
  BY OtpAssumption, WordType DEF IInv, TypeOK
<1>2. Window \cap Nat = value .. value + follow
  BY <1>1 DEF Window, CurrentCounter
<1>3. \A m \in value .. value + follow : m \in 0 .. LastCounter
  BY <1>1
<1>4. \A m \in value .. value + follow : Hotp(m) = Hotp(n) => m = n
  BY <1>3, HotpDiffers
<1> QED BY <1>2, <1>4, Zenon DEF Matches

LEMMA FoundIsIt ==
  ASSUME IInv, type = "hotp", NEW n \in 0 .. LastCounter, Matches(Hotp(n)) # {}
  PROVE  /\ Found(Hotp(n)) = n
         /\ n \in value .. value + follow
<1>1. Matches(Hotp(n)) = {n} /\ n \in value .. value + follow
  BY OnlyTheCounter
<1>2. n \in Nat /\ value \in Nat
  BY OtpAssumption DEF IInv, TypeOK
<1>3. Found(Hotp(n)) \in {n}
  <2>1. \A m \in {n} : IF n >= CurrentCounter THEN m < CurrentCounter \/ n <= m ELSE m <= n
    BY <1>2
  <2> QED BY <1>1, <2>1 DEF Found
<1> QED BY <1>1, <1>3

-----------------------------------------------------------------------------
LEMMA InitIInv == OtpInit => IInv
<1> SUFFICES ASSUME OtpInit PROVE IInv
  OBVIOUS
<1>1. Word \in Nat \ {0} /\ Followings \subseteq Nat /\ Previous \subseteq Nat
      /\ Intervals \subseteq Nat
  BY WordType, OtpAssumption
<1> QED BY <1>1 DEF OtpInit, IInv, TypeOK

(* The three steps that move the counter. *)
LEMMA OpensIInv ==
  ASSUME IInv, NEW n \in 0 .. MaxCount - 1, Opens(n)
  PROVE  IInv'
<1>1. type = "hotp" /\ n \in 0 .. LastCounter /\ n < token
  BY OtpAssumption DEF Opens, IInv, TypeOK
<1>2. Found(Hotp(n)) = n /\ n \in value .. value + follow
  BY <1>1, FoundIsIt DEF Opens
<1>3. Word \in Nat \ {0} /\ n \in Nat
  BY WordType, OtpAssumption
<1>4. /\ value' = (n + 1) % Word /\ trusted' = (trusted /\ n + 1 < Word)
      /\ spent' = IF n > spent THEN n ELSE spent
      /\ UNCHANGED <<config, token, now, issued>>
  BY <1>2 DEF Opens
<1>5. value' \in Nat /\ value' < Word /\ (n + 1 < Word => value' = n + 1)
  BY <1>3, <1>4
<1>6. spent' \in Int /\ trusted' \in BOOLEAN
  <2>1. spent' \in Int
    BY <1>3, <1>4 DEF IInv, TypeOK
  <2>2. trusted \in BOOLEAN
    BY DEF IInv, TypeOK
  <2> QED BY <1>4, <2>1, <2>2, Zenon
<1>7. TypeOK'
  BY <1>4, <1>5, <1>6 DEF IInv, TypeOK, config
<1>8. trusted' => spent' < value' /\ value' <= token'
  <2> SUFFICES ASSUME trusted, n + 1 < Word PROVE spent' < value' /\ value' <= token'
    BY <1>4
  <2>1. spent < value /\ value <= n /\ spent \in Int /\ value \in Nat /\ token \in Nat
    BY <1>1, <1>2 DEF IInv, TypeOK
  <2> QED BY <1>1, <1>3, <1>4, <1>5, <2>1
<1> QED BY <1>1, <1>4, <1>7, <1>8 DEF IInv, config

LEMMA PowerFailsIInv ==
  ASSUME IInv, NEW n \in 0 .. MaxCount - 1, PowerFails(n)
  PROVE  IInv'
<1>1. type = "hotp" /\ n \in 0 .. LastCounter /\ n < token /\ token \in Nat
  BY OtpAssumption DEF PowerFails, IInv, TypeOK
<1>2. Found(Hotp(n)) = n
  BY <1>1, FoundIsIt DEF PowerFails
<1>3. Word \in Nat \ {0} /\ n \in Nat
  BY WordType, OtpAssumption
<1> DEFINE next == (n + 1) % Word
<1>4. next \in 0 .. Word - 1 /\ next <= n + 1
  <2>1. n + 1 < Word \/ (n + 1 >= Word /\ next < Word)
    BY <1>3
  <2> QED BY <1>3, <2>1
<1>5. /\ value' \in Torn(value, next)
      /\ trusted' = (trusted /\ value' \in {value, next} /\ value <= value')
      /\ UNCHANGED <<config, token, now, issued, spent>>
  BY <1>2 DEF PowerFails
<1> HIDE DEF next
<1>6. value \in 0 .. Word - 1 /\ value' \in 0 .. Word - 1
  <2>1. value \in 0 .. Word - 1
    BY <1>1, <1>3 DEF IInv, TypeOK
  <2> QED BY <1>4, <1>5, <2>1, TornWord
<1>7. trusted' \in BOOLEAN
  BY <1>5, Zenon DEF IInv, TypeOK
<1>8. TypeOK'
  BY <1>3, <1>5, <1>6, <1>7 DEF IInv, TypeOK, config
<1>9. trusted' => spent' < value' /\ value' <= token'
  <2> SUFFICES ASSUME trusted, value' \in {value, next}, value <= value'
               PROVE  spent' < value' /\ value' <= token'
    BY <1>5
  <2>1. spent < value /\ value <= token /\ spent \in Int
    BY <1>1 DEF IInv, TypeOK
  <2> QED BY <1>1, <1>3, <1>4, <1>5, <1>6, <2>1
<1> QED BY <1>1, <1>5, <1>8, <1>9 DEF IInv, config

LEMMA SetAccessIInv ==
  ASSUME IInv, NEW c \in 0 .. Word - 1, SetAccess(c)
  PROVE  IInv'
<1>1. Word \in Nat \ {0} /\ c \in Nat /\ c < Word /\ type = "hotp"
  BY WordType DEF SetAccess
<1>2. /\ value' = c /\ spent' = c - 1 /\ trusted' = (c <= token)
      /\ UNCHANGED <<config, token, now, issued>>
  BY DEF SetAccess
<1>3. trusted' \in BOOLEAN /\ (trusted' => c <= token)
  <2>1. CASE c <= token
    BY <1>2, <2>1, Zenon
  <2>2. CASE ~(c <= token)
    <3>1. (c <= token) = FALSE
      BY <2>2
    <3>2. trusted' = FALSE
      BY <1>2, <3>1, Zenon
    <3> QED BY <3>2
  <2> QED BY <2>1, <2>2
<1>4. TypeOK'
  BY <1>1, <1>2, <1>3 DEF IInv, TypeOK, config
<1> QED BY <1>1, <1>2, <1>3, <1>4 DEF IInv, config

LEMMA NextIInv == IInv /\ [OtpNext]_otpVars => IInv'
<1> SUFFICES ASSUME IInv, [OtpNext]_otpVars PROVE IInv'
  OBVIOUS
<1>1. CASE Press
  BY <1>1 DEF Press, IInv, TypeOK, config
<1>2. CASE ReadClock
  BY <1>2 DEF ReadClock, IInv, TypeOK, config
<1>3. CASE Tick
  BY <1>3 DEF Tick, IInv, TypeOK, config
<1>4. CASE \E n \in 0 .. MaxCount - 1 : Opens(n)
  BY <1>4, OpensIInv
<1>5. CASE \E n \in 0 .. MaxCount - 1 : PowerFails(n)
  BY <1>5, PowerFailsIInv
<1>6. CASE \E c \in 0 .. Word - 1 : SetAccess(c)
  BY <1>6, SetAccessIInv
<1>7. CASE UNCHANGED otpVars
  BY <1>7 DEF otpVars, config, IInv, TypeOK
<1> QED BY <1>1, <1>2, <1>3, <1>4, <1>5, <1>6, <1>7 DEF OtpNext

(* The invariant holds in every reachable state. *)
THEOREM Invariance == OtpSpec => []IInv
  BY InitIInv, NextIInv, PTL DEF OtpSpec

-----------------------------------------------------------------------------
(* The counter is a word, and only a clock looks back (struct              *)
(* access_record_hotp).                                                    *)
THEOREM TypeCorrect == OtpSpec => []TypeOK
<1>1. IInv => TypeOK
  BY DEF IInv
<1> QED BY <1>1, Invariance, PTL

(* A password that opened the door does not open it again, nor does one    *)
(* that was passed over (acl_check_otp_pin, acl_used).                     *)
THEOREM NoReplay == OtpSpec => []SpentIsRefused
<1>1. IInv => SpentIsRefused
  <2> SUFFICES ASSUME IInv, type = "hotp", trusted, NEW n \in 0 .. spent
               PROVE  Matches(Hotp(n)) = {}
    BY DEF SpentIsRefused
  <2>1. /\ spent < value /\ spent \in Int /\ value \in Nat /\ value < Word
        /\ follow \in Followings
    BY DEF IInv, TypeOK
  <2>2. n < value /\ n \in 0 .. LastCounter
    <3>1. follow \in Nat /\ Word + follow <= LastCounter /\ Word \in Nat /\ LastCounter \in Nat
      BY <2>1, OtpAssumption, WordType
    <3> QED BY <2>1, <3>1
  <2> QED BY <2>1, <2>2, OnlyTheCounter
<1> QED BY <1>1, Invariance, PTL

(* The counter never passes the token (acl_check_otp_pin).                 *)
THEOREM TokenNotPassed == OtpSpec => []NotPastToken
<1>1. IInv => NotPastToken
  BY DEF IInv, NotPastToken
<1> QED BY <1>1, Invariance, PTL

(* A password of the clock opens the door for as many intervals as are     *)
(* allowed to be over, for every length of the interval that fits into a   *)
(* word (acl_check_otp_pin).                                               *)
THEOREM FreshPinOpens == OtpSpec => []FreshPinLasts
<1>1. IInv => FreshPinLasts
  <2> SUFFICES ASSUME IInv, type = "totp", ~LostBits, issued >= 0,
                      now - issued <= previous * Seconds(value)
               PROVE  Matches(Hotp(issued \div Seconds(value))) # {}
    BY DEF FreshPinLasts
  <2> DEFINE s == Seconds(value)
             n == issued \div s
  <2>1. /\ value \in Nat /\ previous \in Nat /\ follow \in Nat
        /\ now \in Nat /\ issued \in Nat /\ issued <= now
    BY DEF IInv, TypeOK
  <2>2. /\ Word \in Nat \ {0} /\ Minute \in Nat \ {0} /\ HalfMinute \in Nat \ {0}
        /\ value = 0 \/ (value * Minute) % Word # 0
    BY <2>1, WordType, OtpAssumption DEF IInv
  <2>3. s \in Nat \ {0} /\ Length = s
    <3>1. CASE value = 0
      BY <2>2, <3>1 DEF Seconds, Length
    <3>2. CASE value # 0
      <4>1. s = value * Minute /\ s < Word /\ s \in Nat
        <5>1. value * Minute \in Nat
          BY <2>1, <2>2
        <5> QED BY <2>2, <3>2, <5>1 DEF Seconds, LostBits
      <4>2. Length = s % Word
        BY <3>2, <4>1 DEF Length
      <4>3. s % Word = s
        BY <2>2, <4>1
      <4> QED BY <2>2, <3>2, <4>1, <4>2, <4>3
    <3> QED BY <3>1, <3>2
  <2>4. previous * s \in Nat /\ now <= issued + previous * s
    <3>1. now - issued <= previous * s
      OBVIOUS
    <3> HIDE DEF s
    <3>2. previous * s \in Nat
      BY <2>1, <2>3
    <3> QED BY <2>1, <3>1, <3>2
  <2> HIDE DEF s
  <2>5. n <= now \div s /\ now \div s <= n + previous
    BY <2>1, <2>3, <2>4, QuotientGrows
  <2>6. n \in Nat /\ now \div s \in Nat
    BY <2>1, <2>3, Quotient
  <2>7. Window = (now \div s) - previous .. (now \div s) + follow
    BY <2>3 DEF Window, CurrentCounter
  <2> HIDE DEF n
  <2>8. n \in Window \cap Nat
    BY <2>1, <2>5, <2>6, <2>7
  <2>9. n \in Matches(Hotp(n))
    BY <2>8, Zenon DEF Matches
  <2> QED BY <2>9 DEF n, s
<1> QED BY <1>1, Invariance, PTL

=============================================================================
