------------------------------- MODULE AclOtp -------------------------------
(***************************************************************************)
(* One time passwords (acl_otp.c, hotp.c): the record of one right in the  *)
(* EEPROM of the controller and the token of its holder, which count on    *)
(* their own.  A counter of the token is a number, the one of the record   *)
(* is a word of two bytes that wraps and that a power failure tears.       *)
(* Hotp stands for the truncated hash of a counter under the key of the    *)
(* record, cut to its digits.                                              *)
(***************************************************************************)
EXTENDS Integers

CONSTANTS
  Hotp(_),
  ByteSize,        \* 256: the values of one byte
  Minute,      \* 60: the seconds of a minute
  HalfMinute,  \* 30: the length of an interval when none is configured
  Followings,  \* the values of resync_limit and allow_followings
  Previous,    \* the values of allow_previous
  Intervals,   \* the values of interval, in minutes
  MaxCount,    \* bound: how often the token is used
  MaxTime,     \* bound: seconds
  LastCounter  \* bound: no counter is beyond

Word == ByteSize * ByteSize

ASSUME OtpAssumption ==
  /\ ByteSize \in Nat \ {0} /\ Minute \in Nat \ {0} /\ HalfMinute \in Nat \ {0}
  /\ Followings \subseteq Nat /\ Previous \subseteq Nat /\ Intervals \subseteq Nat
  /\ \A i \in Intervals \ {0} : (i * Minute) % Word # 0
  /\ MaxCount \in Nat /\ MaxTime \in Nat /\ LastCounter \in Nat
  /\ MaxCount <= LastCounter
  /\ \A f \in Followings : Word + f <= LastCounter /\ MaxTime + f <= LastCounter

(* Two passwords of one right differ: with six digits and a window of at   *)
(* most sixteen this fails once in sixty thousand guesses.                 *)
ASSUME HotpDiffers ==
  \A m, n \in 0 .. LastCounter : Hotp(m) = Hotp(n) => m = n

VARIABLES
  type,     \* "hotp" or "totp"
  follow,   \* resync_limit or allow_followings
  previous, \* allow_previous, 0 for a counter
  value,    \* c or interval
  token,    \* the next counter the token shows
  now,      \* the time in seconds
  issued,   \* when the holder read the password of the clock, or -1
  spent,    \* history: the last counter that is used up
  trusted   \* history: since it was set the counter did not wrap and was
            \* not torn across a carry, and it was not set past the token

config == <<type, follow, previous>>
otpVars == <<config, value, token, now, issued, spent, trusted>>

OtpInit ==
  /\ type \in {"hotp", "totp"} /\ follow \in Followings
  /\ previous \in IF type = "hotp" THEN {0} ELSE Previous
  /\ value \in IF type = "hotp" THEN 0 .. Word - 1 ELSE Intervals
  /\ token = IF type = "hotp" THEN value ELSE 0
  /\ now = 0 /\ issued = -1 /\ spent = value - 1 /\ trusted = TRUE

-----------------------------------------------------------------------------
(* The length of an interval as the controller computes it: the product is *)
(* a word, and the token does not lose its high bits.                      *)
Seconds(minutes) == IF minutes = 0 THEN HalfMinute ELSE minutes * Minute
LostBits == type = "totp" /\ Seconds(value) >= Word
Length == IF value = 0 THEN HalfMinute ELSE (value * Minute) % Word

(* acl_check_otp_pin: where the controller stands, and the counters whose  *)
(* password it accepts.                                                    *)
CurrentCounter == IF type = "hotp" THEN value ELSE now \div Length
(* Mutant: the oldest of the previous passwords is left out.               *)
Window_PreviousShort == CurrentCounter - (IF previous > 0 THEN previous - 1 ELSE 0) .. CurrentCounter + follow

Window == CurrentCounter - previous .. CurrentCounter + follow

Matches(pin) == {n \in Window \cap Nat : Hotp(n) = pin}

(* The first that is tried: the current one, the following, the previous.  *)
Found(pin) ==
  CHOOSE n \in Matches(pin) :
    \A m \in Matches(pin) : IF n >= CurrentCounter THEN m < CurrentCounter \/ n <= m ELSE m <= n

-----------------------------------------------------------------------------
(* The holder presses the button of the token, or reads the clock's.       *)
Press ==
  /\ type = "hotp" /\ token < MaxCount
  /\ token' = token + 1
  /\ UNCHANGED <<config, value, now, issued, spent, trusted>>

ReadClock ==
  /\ type = "totp"
  /\ issued' = now
  /\ UNCHANGED <<config, value, token, now, spent, trusted>>

Tick ==
  /\ type = "totp" /\ now < MaxTime
  /\ now' = now + 1
  /\ UNCHANGED <<config, value, token, issued, spent, trusted>>

(* Mutant: the counter is not cut to its two bytes.                        *)
Opens_Unwrapped(n) ==
  /\ type = "hotp" /\ n \in 0 .. token - 1
  /\ Matches(Hotp(n)) # {}
  /\ LET next == Found(Hotp(n)) + 1
     IN /\ value' = next
        /\ trusted' = (trusted /\ next < Word)
  /\ spent' = IF n > spent THEN n ELSE spent
  /\ UNCHANGED <<config, token, now, issued>>

(* Mutant: the counter of the password is stored, not the one behind it.   *)
Opens_NotAdvanced(n) ==
  /\ type = "hotp" /\ n \in 0 .. token - 1
  /\ Matches(Hotp(n)) # {}
  /\ LET next == Found(Hotp(n))
     IN /\ value' = next % Word
        /\ trusted' = (trusted /\ next < Word)
  /\ spent' = IF n > spent THEN n ELSE spent
  /\ UNCHANGED <<config, token, now, issued>>

(* Mutant: the counter is advanced when it is checked and when it is used. *)
Opens_AdvancedTwice(n) ==
  /\ type = "hotp" /\ n \in 0 .. token - 1
  /\ Matches(Hotp(n)) # {}
  /\ LET next == Found(Hotp(n)) + 2
     IN /\ value' = next % Word
        /\ trusted' = (trusted /\ next < Word)
  /\ spent' = IF n > spent THEN n ELSE spent
  /\ UNCHANGED <<config, token, now, issued>>

(* acl_check_access with acl_used: a password that was shown once opens    *)
(* the door and the record is written with the counter behind it.          *)
Opens(n) ==
  /\ type = "hotp" /\ n \in 0 .. token - 1
  /\ Matches(Hotp(n)) # {}
  /\ LET next == Found(Hotp(n)) + 1
     IN /\ value' = next % Word
        /\ trusted' = (trusted /\ next < Word)
  /\ spent' = IF n > spent THEN n ELSE spent
  /\ UNCHANGED <<config, token, now, issued>>

(* The power fails while the two bytes are written, before the door moves. *)
Torn(old, new) ==
  {(old \div ByteSize) * ByteSize + (new % ByteSize), (new \div ByteSize) * ByteSize + (old % ByteSize)}

PowerFails(n) ==
  /\ type = "hotp" /\ n \in 0 .. token - 1
  /\ Matches(Hotp(n)) # {}
  /\ LET next == (Found(Hotp(n)) + 1) % Word
     IN /\ value' \in Torn(value, next)
        /\ trusted' = (trusted /\ value' \in {value, next} /\ value <= value')
  /\ UNCHANGED <<config, token, now, issued, spent>>

(* The administrator saves the right again, with a counter of his choice:  *)
(* the passwords from there on are good, those before are used up.         *)
SetAccess(c) ==
  /\ type = "hotp"
  /\ value' = c /\ spent' = c - 1
  /\ trusted' = (c <= token)
  /\ UNCHANGED <<config, token, now, issued>>

OtpNext ==
  \/ Press \/ ReadClock \/ Tick
  \/ \E n \in 0 .. MaxCount - 1 : Opens(n) \/ PowerFails(n)
  \/ \E c \in 0 .. Word - 1 : SetAccess(c)

OtpSpec == OtpInit /\ [][OtpNext]_otpVars

-----------------------------------------------------------------------------
TypeOK ==
  /\ type \in {"hotp", "totp"} /\ follow \in Nat /\ previous \in Nat
  /\ value \in Nat /\ token \in Nat /\ now \in Nat /\ issued \in Int
  /\ spent \in Int /\ trusted \in BOOLEAN
  /\ type = "hotp" => value < Word /\ previous = 0

(* A password that opened the door does not open it again, nor does one    *)
(* that was passed over by a resynchronisation, through power failures and *)
(* changes of the right (acl_check_otp_pin, acl_used).                     *)
SpentIsRefused ==
  type = "hotp" /\ trusted => \A n \in 0 .. spent : Matches(Hotp(n)) = {}

(* The controller never passes the token: what the token shows next is not *)
(* refused for good.                                                       *)
NotPastToken == type = "hotp" /\ trusted => value <= token

(* eeprom-types.h on allow_previous: with intervals of 8 hours and 3 valid *)
(* passwords "a freshly issued PIN will always be valid for at least 16h". *)
(* This holds unless the length of the interval does not fit into a word.  *)
FreshPinLasts ==
  (/\ type = "totp" /\ ~LostBits /\ issued >= 0
   /\ now - issued <= previous * Seconds(value))
    => Matches(Hotp(issued \div Seconds(value))) # {}

=============================================================================
