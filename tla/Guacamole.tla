-------------------------------- MODULE Guacamole --------------------------------
(* How the Remote plugin reads one Guacamole instruction from guacd while it   *)
(* negotiates: readInstruction, readWindow, consume and parseGuacInstruction   *)
(* of plugins/remote/backend/plugin.go.  It peeks ever longer prefixes of what *)
(* has arrived until an instruction is complete and only then takes its bytes  *)
(* out of the stream, for what follows belongs to the browser that attaches to *)
(* the stream next.  An element is written as its length, a dot and its text,  *)
(* so the text may hold dots, commas and semicolons.                           *)
EXTENDS Naturals, SequencesExt

CONSTANTS
  Texts,      \* texts of elements, as sequences of characters
  Trailers,   \* what guacd sends after the instruction
  MaxWords,   \* bound: elements of an instruction
  Window,     \* guacReadWindow: bytes peeked at a time
  Limit       \* maxGuacInstruction: bytes of an instruction

VARIABLES
  sent,       \* the elements guacd sent
  wire,       \* the bytes of the stream that were not taken out yet
  arrived,    \* how many of them have arrived
  peeked,     \* the bytes the plugin has seen
  reading,    \* "peek", "take", "done" or "failed"
  untaken,    \* bytes of the instruction that remain to be taken out
  words       \* the elements read

guacVars == <<sent, wire, arrived, peeked, reading, untaken, words>>

Digit == [c \in {"0", "1", "2", "3", "4", "5", "6", "7", "8", "9"} |->
  CHOOSE n \in 0..9 : ToString(n) = c]
Digits == DOMAIN Digit

\* writeInstruction.
Written(text) == <<ToString(Len(text)), ".">> \o text
Encoded(elements) ==
  FoldLeft(LAMBDA all, text : all \o <<",">> \o Written(text), Written(Head(elements)), Tail(elements))
    \o <<";">>

-----------------------------------------------------------------------------
(* parseGuacInstruction: the instruction at the start of data, if it is        *)
(* complete.  What is collected never exceeds Limit, so a larger element or    *)
(* total is one that never completes.                                          *)

More == [is |-> "more", words |-> << >>, length |-> 0]
Bad == [is |-> "bad", words |-> << >>, length |-> 0]

\* The digits from an offset on, and the number they write.
DigitsAt(data, o) ==
  LET ends == {n \in 0..(Len(data) - o) : \A i \in 1..n : data[o + i] \in Digits} IN
  CHOOSE n \in ends : \A m \in ends : m <= n
Number(digits) == FoldLeft(LAMBDA n, c : 10 * n + Digit[c], 0, digits)

\* The separator behind a text of so many bytes.  (Variant: the next one.)
SeparatorFirst(data, dot, length) ==
  LET found == {i \in (dot + 1)..Len(data) : data[i] \in {",", ";"}} IN
  IF found = {} THEN Len(data) + 1 ELSE CHOOSE i \in found : \A j \in found : i <= j
Separator(data, dot, length) == dot + length + 1

\* The element that starts at an offset, with those that follow it in `from`.
Led(text, rest) == IF rest.is = "done" THEN [rest EXCEPT !.words = <<text>> \o @] ELSE rest
Element(data, from, o) ==
  LET n == DigitsAt(data, o)
      dot == o + n + 1
      length == Number(SubSeq(data, o + 1, o + n))
      end == Separator(data, dot, length)
      text == SubSeq(data, dot + 1, end - 1) IN
  IF dot > Len(data) THEN More
  ELSE IF n = 0 \/ data[dot] # "." THEN Bad
  ELSE IF end > Len(data) THEN More
  ELSE CASE data[end] = "," -> Led(text, from[end])
    [] data[end] = ";" -> [is |-> "done", words |-> <<text>>, length |-> end]
    [] OTHER -> Bad

\* What the elements from each offset on are.
Elements(data) == LET from[o \in 0..Len(data)] == Element(data, from, o) IN from

\* An instruction whose name is empty is refused.
Parse(data) ==
  LET read == Elements(data)[0] IN
  IF read.is = "done" /\ Len(read.words[1]) = 0 THEN Bad ELSE read

-----------------------------------------------------------------------------
(* The stream and the reader. *)

Init ==
  /\ sent \in UNION {[1..n -> Texts] : n \in 1..MaxWords} /\ sent[1] # << >>
  /\ \E rest \in Trailers : wire = Encoded(sent) \o rest
  /\ arrived = 0 /\ peeked = << >> /\ reading = "peek" /\ untaken = 0 /\ words = << >>

\* guacd's bytes arrive in pieces of any size.
Arrive ==
  /\ arrived' \in (arrived + 1)..Len(wire)
  /\ UNCHANGED <<sent, wire, peeked, reading, untaken, words>>

\* readWindow and the parse of what was seen so far.
Peek ==
  /\ reading = "peek" /\ Len(peeked) < Limit /\ arrived > Len(peeked)
  /\ \E n \in 1..Window :
       LET seen == SubSeq(wire, 1, Len(peeked) + n)
           read == Parse(seen) IN
       /\ Len(peeked) + n <= arrived /\ Len(peeked) + n <= Limit
       /\ peeked' = seen
       /\ reading' = CASE read.is = "more" -> "peek"
                       [] read.is = "bad" -> "failed"
                       [] OTHER -> "take"
       /\ words' = read.words
       /\ untaken' = read.length
  /\ UNCHANGED <<sent, wire, arrived>>

\* An instruction that does not fit, no byte within the time of a read, or the
\* end of the stream.
GiveUp ==
  /\ reading = "peek"
  /\ Len(peeked) >= Limit \/ arrived = Len(peeked)
  /\ reading' = "failed"
  /\ UNCHANGED <<sent, wire, arrived, peeked, untaken, words>>

\* consume: a read may return fewer bytes than were asked for.  (Variant: it
\* takes all that was peeked.)
TakePeeked ==
  /\ reading = "take" /\ untaken' = 0 /\ reading' = "done"
  /\ wire' = SubSeq(wire, Len(peeked) + 1, Len(wire))
  /\ arrived' = arrived - Len(peeked)
  /\ UNCHANGED <<sent, peeked, words>>

Take ==
  /\ reading = "take"
  /\ \E n \in 1..untaken :
       /\ untaken' = untaken - n
       /\ wire' = SubSeq(wire, n + 1, Len(wire))
       /\ arrived' = arrived - n
       /\ reading' = IF n = untaken THEN "done" ELSE "take"
  /\ UNCHANGED <<sent, peeked, words>>

Next == Arrive \/ Peek \/ GiveUp \/ Take

Spec == Init /\ [][Next]_guacVars

-----------------------------------------------------------------------------
(* Properties. *)

\* Every variable holds values of its type.
TypeOK ==
  /\ arrived \in 0..Len(wire) /\ Len(peeked) <= Limit
  /\ reading \in {"peek", "take", "done", "failed"}
  /\ untaken \in 0..Limit

\* Wherever the pieces end and whatever the texts hold, the reader gets exactly
\* the elements that were sent and leaves exactly what followed them in the
\* stream; it fails only for want of bytes or of room.
ReadsOneInstruction ==
  /\ reading = "done" => words = sent /\ wire \in Trailers
  /\ reading = "failed" => Len(Encoded(sent)) > Limit \/ Len(peeked) < Len(Encoded(sent))
=============================================================================
