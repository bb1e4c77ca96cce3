------------------------------ MODULE Numbers ------------------------------
(***************************************************************************)
(* parse_size() and parse_number(): the number is accumulated in a 64-bit  *)
(* integer, character by character, and an overflow is looked for only by  *)
(* comparing each new value with the one before.  That does not notice     *)
(* every value that has wrapped around.                                    *)
(***************************************************************************)
EXTENDS Integers

CONSTANTS
    Width,   \* 2^64: the values that the integer has
    Base,    \* 10
    Units,   \* the multiplier of each of the suffixes of a size
    Limits   \* the callers' [min, max, sized]: sized if suffixes are known

ASSUME WidthAssumption ==
    /\ Width \in Nat \ {0}
    /\ Base \in Nat \ {0}
    /\ \A u \in DOMAIN Units : Units[u] \in Nat \ {0}

\* The greatest size, 16 GB, times the greatest unit is just 2^64.
ASSUME LimitsAssumption ==
    /\ Limits \subseteq [min : Nat, max : Nat \ {0}, sized : BOOLEAN]
    /\ \A limit \in Limits :
           /\ limit.max * Base + Base <= Width
           /\ \A u \in DOMAIN Units : limit.max * Units[u] <= Width

VARIABLES
    scan,      \* where the parser is: idle, digits, accepted or rejected
    limits,    \* what the caller allows
    res,       \* the number so far
    some,      \* s > begin
    exact,     \* history: the number that the text read so far says
    malformed  \* history: the text is not a number

numberVars == <<scan, limits, res, some, exact, malformed>>

NoLimits == [min |-> 0, max |-> 1, sized |-> FALSE]

NumberInit ==
    /\ scan = "idle"
    /\ limits = NoLimits
    /\ res = 0
    /\ some = FALSE
    /\ exact = 0
    /\ malformed = FALSE

BeginNumber(limit) ==
    /\ scan = "idle"
    /\ scan' = "digits"
    /\ limits' = limit
    /\ UNCHANGED <<res, some, exact, malformed>>

\* The result is the caller's, the parser's variables are gone.
EndNumber ==
    /\ scan \in {"accepted", "rejected"}
    /\ scan' = "idle"
    /\ limits' = NoLimits
    /\ res' = 0
    /\ some' = FALSE
    /\ exact' = 0
    /\ malformed' = FALSE

Allowed(n) == n \in limits.min .. limits.max

\* Mutant: no test for overflow.
DigitWraps(d) ==
    /\ scan = "digits"
    /\ res' = (res * Base + d) % Width
    /\ exact' = exact * Base + d
    /\ some' = TRUE
    /\ UNCHANGED <<scan, limits, malformed>>

Digit(d) ==
    LET tmp == (res * Base + d) % Width
    IN  /\ scan = "digits"
        /\ exact' = exact * Base + d
        /\ IF tmp >= res
           THEN res' = tmp /\ some' = TRUE /\ UNCHANGED scan
           ELSE scan' = "rejected" /\ UNCHANGED <<res, some>>
        /\ UNCHANGED <<limits, malformed>>

\* A suffix, which must be the last character.
Unit(u, last) ==
    LET tmp == (res * Units[u]) % Width
    IN  /\ scan = "digits"
        /\ limits.sized
        /\ exact' = exact * Units[u]
        /\ malformed' = (~some \/ ~last)
        /\ IF some /\ tmp >= res /\ last /\ Allowed(tmp)
           THEN scan' = "accepted" /\ res' = tmp
           ELSE scan' = "rejected" /\ UNCHANGED res
        /\ UNCHANGED <<limits, some>>

\* Any other character; parse_number() does not know the suffixes.
OtherCharacter ==
    /\ scan = "digits"
    /\ scan' = "rejected"
    /\ malformed' = TRUE
    /\ UNCHANGED <<limits, res, some, exact>>

EndOfText ==
    /\ scan = "digits"
    /\ malformed' = ~some
    /\ scan' = IF some /\ Allowed(res) THEN "accepted" ELSE "rejected"
    /\ UNCHANGED <<limits, res, some, exact>>

NumberStep ==
    \/ \E d \in 0 .. Base - 1 : Digit(d)
    \/ \E u \in DOMAIN Units, last \in BOOLEAN : Unit(u, last)
    \/ OtherCharacter
    \/ EndOfText

NumberNext == (\E limit \in Limits : BeginNumber(limit)) \/ NumberStep \/ EndNumber

NumberSpec == NumberInit /\ [][NumberNext]_numberVars

-----------------------------------------------------------------------------

\* The parser accepts exactly the numbers that the caller allows, also where
\* the integer has wrapped around unnoticed: what is accepted is the number
\* that the text says, and only what is no number, or not an allowed one, is
\* rejected.  (A text is rejected before its end only when no end could make
\* it an allowed number.)
NumberExact ==
    /\ scan = "accepted" => ~malformed /\ res = exact /\ Allowed(exact)
    /\ scan = "rejected" => malformed \/ ~Allowed(exact)
=============================================================================
