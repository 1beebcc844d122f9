------------------------------ MODULE WireTime ------------------------------
(***************************************************************************)
(* shared/types.py: the time field of a message between memory, where it   *)
(* is a UTC datetime, and the wire, where it is an integer number of       *)
(* milliseconds.  The field is built from any value, dumped, and read back *)
(* from what was dumped, once per hop.                                     *)
(*                                                                         *)
(* An instant is the sign of its distance from the epoch, the distance's   *)
(* whole seconds (below 2^31: until 2038), the milliseconds on top and the *)
(* microseconds on top of these.                                           *)
(***************************************************************************)
EXTENDS Integers

CONSTANTS
    Value,    \* what a field may be built from
    MaxHops,  \* bound: dumps followed from one construction
    Beyond,   \* an instant outside the years 1 to 9999
    None

LastSecond == 2147483647

Instant == [sign : {-1, 1}, sec : 0 .. LastSecond, ms : 0 .. 999, us : 0 .. 999]

AnyValue ==
    [type : {"datetime", "int", "str", "bool", "None", "float"},
     aware : BOOLEAN, at : Instant \cup {Beyond}]

OnTheMillisecond(x) == x.us = 0

ASSUME WireAssumption ==
    /\ Value \subseteq AnyValue
    /\ MaxHops \in Nat
    /\ {Beyond, None} \cap Instant = {}

VARIABLES
    given,  \* what the field was built from
    field,  \* "timestamp", or "send_at", which may be None
    stamp,  \* the field in memory, None before it is accepted
    wire,   \* the number last dumped, None before
    hops,   \* how often it was read back
    error   \* the exception that refused it

wire_vars == <<given, field, stamp, wire, hops, error>>

-----------------------------------------------------------------------------
(* _to_utc_datetime: what is refused, and with which exception.  Beyond    *)
(* the years 1 to 9999 an int, or a string or datetime whose conversion to *)
(* UTC leaves them, ends in an OverflowError (an int also in an OSError or *)
(* a ValueError).                                                          *)

supported(v) ==
    \/ v.type \in {"datetime", "str"} /\ v.aware
    \/ v.type = "int"

(* Only send_at lets None through to the field.                            *)
absent(v, f) == v.type = "None" /\ f = "send_at"

WireInit ==
    /\ given \in Value
    /\ field \in {"timestamp", "send_at"}
    /\ stamp = None /\ wire = None
    /\ hops = 0
    /\ error = "none"

validate ==
    /\ stamp = None /\ error = "none" /\ ~absent(given, field)
    /\ IF ~supported(given) THEN error' = "ValueError" /\ UNCHANGED stamp
       ELSE IF given.at = Beyond
       THEN /\ error' \in {"OverflowError"}
                  \cup (IF given.type = "int" THEN {"OSError", "ValueError"} ELSE {})
            /\ UNCHANGED stamp
       ELSE stamp' = given.at /\ UNCHANGED error
    /\ UNCHANGED <<given, field, wire, hops>>

-----------------------------------------------------------------------------
(* _datetime_to_ms: int(value.timestamp() * 1000), both in doubles.        *)

Binade ==
    {1, 2, 4, 8, 16, 32, 64, 128, 256, 512, 1024, 2048, 4096, 8192, 16384, 32768,
     65536, 131072, 262144, 524288, 1048576, 2097152, 4194304, 8388608, 16777216,
     33554432, 67108864, 134217728, 268435456, 536870912, 1073741824}

(* Of seconds in [p, 2p): 1000 sec + ms < 1024 p, with small numbers.      *)
BelowDoubling(sec, ms, p) ==
    LET whole == 3 * (p \div 125) + (3 * (p % 125)) \div 125
        part  == (3 * (p % 125)) % 125
    IN  \/ sec - p < whole
        \/ sec - p = whole /\ ms < 8 * part

(* timestamp() rounds sec + ms/1000 to a multiple of p / 2^52; what it     *)
(* drops, in thousandths of that, is the residue of ms 2^52 / p.           *)
Dropped(ms, p) == (ms * 304 * ((1073741824 \div p) % 1000)) % 1000

(* The product by 1000 comes back up to the integer unless more than half  *)
(* of the spacing below it is missing, which a spacing twice as wide never *)
(* lets happen.                                                            *)
Lossy(x) ==
    /\ OnTheMillisecond(x)
    /\ \E p \in Binade :
          /\ p <= x.sec /\ x.sec - p < p
          /\ BelowDoubling(x.sec, x.ms, p)
          /\ Dropped(x.ms, p) \in 257 .. 500

(* One millisecond nearer to the epoch; whole seconds are exact, so that   *)
(* what is lost is never a second's first millisecond.                     *)
Less(x) == [x EXCEPT !.ms = @ - 1]

(* Mutant: the seconds truncated before they are multiplied.               *)
datetime_to_ms_seconds(x) == [x EXCEPT !.ms = 0, !.us = 0]

(* Mutant: the integer not taken.                                          *)
datetime_to_ms_float(x) == x

(* Mutant: rounded instead (a carry into the seconds left out).            *)
datetime_to_ms_rounded(x) ==
    [x EXCEPT !.us = 0, !.ms = IF x.us >= 500 /\ x.ms < 999 THEN @ + 1 ELSE @]

(* Mutant: half a millisecond taken off instead of added.                  *)
datetime_to_ms_half(x) ==
    [x EXCEPT !.us = 0, !.ms = IF x.us < 500 /\ x.ms > 0 THEN @ - 1 ELSE @]

(* int() truncates towards the epoch.                                      *)
datetime_to_ms(x) == IF Lossy(x) THEN Less(x) ELSE [x EXCEPT !.us = 0]

dump ==
    /\ stamp # None
    /\ wire = None
    /\ hops < MaxHops
    /\ wire' = datetime_to_ms(stamp)
    /\ UNCHANGED <<given, field, stamp, hops, error>>

(* Of an int below 2^31 seconds, fromtimestamp(value / 1000) is exact.     *)
read ==
    /\ wire # None
    /\ stamp' = wire
    /\ wire' = None
    /\ hops' = hops + 1
    /\ UNCHANGED <<given, field, error>>

Settled ==
    \/ error # "none" \/ absent(given, field)
    \/ hops = MaxHops /\ wire = None

WireNext == validate \/ dump \/ read \/ (Settled /\ UNCHANGED wire_vars)

WireSpec == WireInit /\ [][WireNext]_wire_vars

-----------------------------------------------------------------------------
(* Properties.                                                             *)

(* A field and its number on the wire are instants, and a refused value    *)
(* never becomes a field.                                                  *)
WireTypeOK ==
    /\ given \in AnyValue /\ field \in {"timestamp", "send_at"}
    /\ stamp \in Instant \cup {None}
    /\ wire \in Instant \cup {None}
    /\ wire # None => OnTheMillisecond(wire) /\ stamp # None
    /\ hops \in 0 .. MaxHops
    /\ error \in {"none", "ValueError", "OverflowError", "OSError"}
    /\ error # "none" => stamp = None

(* From 1.024 * 2^30 seconds on (3 November 2004) until 2038 a stamp keeps *)
(* its milliseconds over any number of hops.                               *)
EraBegins == 1099511628

InEra(x) == x.sign = 1 /\ x.sec >= EraBegins

ExactInEra ==
    stamp # None /\ InEra(given.at) =>
        stamp = IF hops = 0 THEN given.at ELSE [given.at EXCEPT !.us = 0]

(* Earlier stamps drift by a millisecond per hop, towards the epoch and    *)
(* never away from it, five at the most and never out of their second.     *)
DriftIsBounded ==
    stamp # None =>
        /\ stamp.sign = given.at.sign
        /\ stamp.sec = given.at.sec
        /\ given.at.ms - stamp.ms \in 0 .. 5

(* The drift comes to rest: after six hops, one that cuts off what is      *)
(* below the millisecond and five that lose one, a stamp is carried over   *)
(* every further hop as it is.                                             *)
DriftSettles == [][hops >= 6 => UNCHANGED stamp]_wire_vars

(* types.py: "datetimes serialize to integer milliseconds since the Unix   *)
(* epoch": of an instant after it, that is how many whole ones have passed.*)
WireCountsMilliseconds ==
    wire # None /\ stamp.sign = 1 => wire = [stamp EXCEPT !.us = 0]
=============================================================================
