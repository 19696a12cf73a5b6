-------------------------- MODULE RegiondoDateTime --------------------------
(***************************************************************************)
(* Regiondo writes dates as wall clocks of Berlin, without an offset.  The *)
(* import reads one as an instant; what is sent back, or compared with     *)
(* what Regiondo has, is written from the instant again.  The language can *)
(* only tell what an instant reads like in Berlin, so an instant is        *)
(* guessed and corrected.  An instant and a wall clock are numbers here,   *)
(* one from the other by the offset there is at the instant.               *)
(***************************************************************************)
EXTENDS Integers

CONSTANTS
  Winter, Summer,       \* the offsets of Berlin
  ToSummer, ToWinter,   \* the instants of a year's two changes
  Times,                \* what a text may hold
  Unread, NoDate

DateTimeAssumption ==
  /\ {Winter, Summer, ToSummer, ToWinter} \subseteq Int
  /\ 0 < Winter /\ Winter < Summer /\ Summer <= 2 * Winter
  /\ ToWinter - ToSummer >= 2 * Summer
  /\ Times \subseteq Int
  /\ {Unread, NoDate} \cap Int = {} /\ Unread # NoDate

VARIABLES
  text,   \* what Regiondo has: [zoned, proper, at]
  date,   \* the instant that was read, Unread or NoDate
  given   \* history: the text that Regiondo had first

vars == <<text, date, given>>

\* An impossible date, such as 31 February, counts on into the next month.
\* A zoned text has an offset of its own, and is at an instant.
Texts ==
  {x \in [zoned : BOOLEAN, proper : BOOLEAN, at : Times] : x.zoned => x.proper}

Naive(clock) == [zoned |-> FALSE, proper |-> TRUE, at |-> clock]

\* getBerlinOffsetMs
Offset(instant) == IF ToSummer <= instant /\ instant < ToWinter THEN Summer ELSE Winter

\* readBerlinDateTimeParts
Clock(instant) == instant + Offset(instant)

\* Mutant: the offset at the guess is taken for the offset at the instant.
parseUncorrected(x) ==
  LET candidate == x.at - Offset(x.at) IN
  IF x.zoned THEN x.at
  ELSE IF x.proper /\ Clock(candidate) = x.at THEN candidate ELSE NoDate

\* The fields as if they were UTC, less the offset there; then less the offset
\* at the instant this gives; if that is not what it reads like, there is none.
parseRegiondoDateTime(x) ==
  LET guess == x.at - Offset(x.at)
      candidate == x.at - Offset(guess) IN
  IF x.zoned THEN x.at
  ELSE IF x.proper /\ Clock(candidate) = x.at THEN candidate ELSE NoDate

formatRegiondoDateTime(instant) == Naive(Clock(instant))

-----------------------------------------------------------------------------

Init == text \in Texts /\ given = text /\ date = Unread

\* Regiondo has another date.
Receive ==
  /\ text' \in Texts /\ given' = text' /\ date' = Unread

\* The import reads it.
Parse ==
  /\ date = Unread
  /\ date' = parseRegiondoDateTime(text)
  /\ UNCHANGED <<text, given>>

\* The dashboard sends it back.
Format ==
  /\ date \notin {Unread, NoDate}
  /\ text' = formatRegiondoDateTime(date)
  /\ date' = Unread
  /\ UNCHANGED given

Next == Receive \/ Parse \/ Format

Spec == Init /\ [][Next]_vars

-----------------------------------------------------------------------------

\* The instants that read like a wall clock: none in the hour that is left out,
\* two in the hour that comes twice.
Instants(clock) == {t \in {clock - Winter, clock - Summer} : Clock(t) = clock}

\* However often a date goes to and fro, it stays what Regiondo had: a wall
\* clock that Berlin had on that day stays that wall clock, and is stored as an
\* instant that reads like it; any other is refused; an instant stays that
\* instant, outside the hour that comes twice.
DatesKeepTheirClock ==
  IF given.zoned
  THEN Instants(Clock(given.at)) = {given.at} => date \in {Unread, given.at}
  ELSE IF given.proper /\ Instants(given.at) # {}
       THEN text = given /\ date \in {Unread} \cup Instants(given.at)
       ELSE date \in {Unread, NoDate}
=============================================================================
