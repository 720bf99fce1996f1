--------------------------------- MODULE Text ---------------------------------
(***************************************************************************)
(* Strings: their methods (periwinkle/object/string_object.cpp) and the    *)
(* conversion between the UTF-8 of a source and the characters of a string *)
(* (periwinkle/utils.cpp).  A behaviour reads one literal of a program and *)
(* calls methods of the string it makes, each of what the last one gave.   *)
(*                                                                         *)
(* A character is its code point.  Sources are well-formed UTF-8.          *)
(***************************************************************************)
EXTENDS Integers, Sequences, SequencesExt, FiniteSetsExt

CONSTANTS
  Sources,   \* the literals, as characters
  Patterns,  \* the strings that are arguments
  MaxLength  \* bound: no string grows beyond it

VARIABLES
  source,  \* the characters written in the program, until the first method
  text,    \* the string
  ended    \* how the last method ended; "unread", "read" before the first

textVars == <<source, text, ended>>

-----------------------------------------------------------------------------
(* UTF-8. *)

Low(n, bits) == n % 2 ^ bits
Shifted(n, bits) == n * 2 ^ bits

\* getUtf8CharLen
CharLen(byte) ==
  CASE byte <= 127 -> 1
    [] byte >= 192 /\ byte < 224 -> 2
    [] byte >= 224 /\ byte < 240 -> 3
    [] byte >= 240 /\ byte < 248 -> 4
    [] OTHER -> -1

\* 0xff & c << n: the shift binds first.  Mutant: as it reads.
ReadsShifted(c, n) == Shifted(Low(c, 6), n)
MaskedShift(c, n) == Low(Shifted(c, n), 8)

\* char8to32, of the bytes of one character.
Char8to32(b) ==
  CASE Len(b) = 1 -> b[1]
    [] Len(b) = 2 -> Low(Shifted(b[1], 6), 11) + Low(b[2], 6)
    [] Len(b) = 3 -> Low(Shifted(b[1], 12), 16) + MaskedShift(b[2], 6) + Low(b[3], 6)
    [] Len(b) = 4 -> Low(Shifted(b[1], 18), 21) + MaskedShift(b[2], 12)
                       + MaskedShift(b[3], 6) + Low(b[4], 6)

\* char32to8; each byte is one of eight bits.
Char32to8(c) ==
  LET Continuation(k) == 128 + Low(c \div 2 ^ (6 * k), 6)
  IN  IF c < 128 THEN <<c>>
      ELSE IF c < 2048 THEN <<192 + c \div 64, Continuation(0)>>
      ELSE IF c < 65536 THEN <<224 + c \div 4096, Continuation(1), Continuation(0)>>
      ELSE <<240 + c \div 2 ^ 18, Continuation(2), Continuation(1), Continuation(0)>>

RECURSIVE Utf8to32(_)
Utf8to32(bytes) ==
  IF bytes = <<>> THEN <<>>
  ELSE LET n == CharLen(bytes[1])
       IN  <<Char8to32(SubSeq(bytes, 1, n))>> \o Utf8to32(SubSeq(bytes, n + 1, Len(bytes)))
Utf32to8(s) == FoldLeft(LAMBDA acc, c : acc \o Char32to8(c), <<>>, s)

RECURSIVE Utf8Size(_)
Utf8Size(bytes) ==
  IF bytes = <<>> THEN 0 ELSE 1 + Utf8Size(SubSeq(bytes, CharLen(bytes[1]) + 1, Len(bytes)))

-----------------------------------------------------------------------------
(* Search. *)

Nowhere == -1
At(s, what, pos) == SubSeq(s, pos + 1, pos + Len(what)) = what
\* std::u32string::find: the first place from pos, counted from 0.
FindFrom(s, what, pos) ==
  LET places == {p \in pos .. Len(s) - Len(what) : At(s, what, p)}
  IN  IF places = {} THEN Nowhere ELSE Min(places)
\* std::u32string::replace, of a part.
Replaced(s, pos, count, with) ==
  SubSeq(s, 1, pos) \o with \o SubSeq(s, pos + count + 1, Len(s))

StrFind(s, what) == FindFrom(s, what, 0)
StrContains(s, what) == StrFind(s, what) # Nowhere
StrStartsWith(s, what) == s # <<>> /\ IsPrefix(what, s)
StrEndsWith(s, what) == what # <<>> /\ IsSuffix(what, s)
RemovePrefix(s, what) ==
  IF what # <<>> /\ IsPrefix(what, s) THEN SubSeq(s, Len(what) + 1, Len(s)) ELSE s
RemoveEnd(s, what) ==
  IF what # <<>> /\ IsSuffix(what, s) THEN SubSeq(s, 1, Len(s) - Len(what)) ELSE s

\* The loops that look for every place.  An empty string is found again where it
\* was found: the loop does not end.
Endless(what) == what = <<>>

\* Where the search goes on.  Mutant: at the next character.
NextCharacter(pos, what) == pos + 1
Behind(pos, what) == pos + Len(what)

RECURSIVE ReplaceFrom(_, _, _, _)
ReplaceFrom(s, what, with, pos) ==
  LET p == FindFrom(s, what, pos)
  IN  IF p = Nowhere THEN s
      ELSE ReplaceFrom(Replaced(s, p, Len(what), with), what, with, p + Len(with))
StrReplace(s, what, with) == ReplaceFrom(s, what, with, 0)

RECURSIVE CountFrom(_, _, _)
CountFrom(s, what, pos) ==
  LET p == FindFrom(s, what, pos)
  IN  IF p = Nowhere THEN 0 ELSE 1 + CountFrom(s, what, Behind(p, what))
StrCount(s, what) == CountFrom(s, what, 0)

RECURSIVE SplitFrom(_, _, _)
SplitFrom(s, delimiter, start) ==
  LET end == FindFrom(s, delimiter, start)
  IN  IF end = Nowhere THEN <<SubSeq(s, start + 1, Len(s))>>
      ELSE <<SubSeq(s, start + 1, end)>> \o SplitFrom(s, delimiter, Behind(end, delimiter))
StrSplit(s, delimiter) == SplitFrom(s, delimiter, 0)

\* strJoin, std::accumulate: of strings.
StrJoin(separator, items) ==
  IF items = <<>> THEN <<>>
  ELSE FoldLeft(LAMBDA acc, item : acc \o separator \o item, items[1], Tail(items))

-----------------------------------------------------------------------------
(* Parts. *)

\* What a method returns: a string or nothing, with how it ended.  std::string
\* throws out_of_range, which nobody catches: "terminate".
Gives(s) == [error |-> "none", value |-> s]
Fails(e) == [error |-> e, value |-> <<>>]

\* CHECK_INDEX.
InRange(index, s) == index >= 0 /\ index < Len(s)

\* strInsert and strSet ask whether the index is one of the argument.
StrInsert(s, index, what) ==
  IF ~InRange(index, what) THEN Fails("IndexError")
  ELSE IF index > Len(s) THEN Fails("terminate")
  ELSE Gives(Replaced(s, index, 0, what))
StrSet(s, index, what) ==
  IF ~InRange(index, what) THEN Fails("IndexError")
  ELSE IF index > Len(s) THEN Fails("terminate")
  ELSE Gives(Replaced(s, index, 1, what))

StrGet(s, index) ==
  IF InRange(index, s) THEN Gives(<<s[index + 1]>>) ELSE Fails("IndexError")

\* A negative count is a large one.
StrSubstr(s, start, count) ==
  IF ~InRange(start, s) \/ ~InRange(start + count - (IF count = 0 THEN 0 ELSE 1), s)
  THEN Fails("IndexError")
  ELSE Gives(SubSeq(s, start + 1, IF count < 0 THEN Len(s) ELSE start + count))

\* std::isspace has no answer for what is no byte.
Spaces == (9 .. 13) \cup {32}
Byte(c) == c <= 255
IsSpace(c) == IF Byte(c) THEN {(c \in Spaces)} ELSE BOOLEAN

\* The ends of the loops, as lengths: one from the left; those the right one may
\* reach, which asks the first character, not the last, whether it is a byte.
LeftEnd(s) == Len(SelectSeq([i \in DOMAIN s |-> \A j \in 1 .. i : s[j] \in Spaces], LAMBDA b : b))
RightEnds(s, start) ==
  IF start = Len(s) \/ ~Byte(s[start + 1]) THEN {Len(s)}
  ELSE {e \in start .. Len(s) :
          /\ \A i \in e + 1 .. Len(s) : TRUE \in IsSpace(s[i])
          /\ e = start \/ FALSE \in IsSpace(s[e])}

StrTrims(s) == LET start == LeftEnd(s) IN {SubSeq(s, start + 1, e) : e \in RightEnds(s, start)}
StrLeftTrims(s) == {SubSeq(s, LeftEnd(s) + 1, Len(s))}
StrRightTrims(s) == {SubSeq(s, 1, e) : e \in RightEnds(s, 0)}

\* toIntMethod; std::stoll reads the digits after the space there may be.  Bases
\* are those given; the only digit of the sources is 1.
One == 49
Digits(s) ==
  LET t == SubSeq(s, LeftEnd(s) + 1, Len(s))
  IN  Len(SelectSeq([i \in DOMAIN t |-> \A j \in 1 .. i : t[j] = One], LAMBDA b : b))
StrToInt(s, base) ==
  IF base \notin {0} \cup 2 .. 36 \/ Digits(s) = 0 THEN Fails("ValueError")
  ELSE LET b == IF base = 0 THEN 10 ELSE base
       IN  Gives(<<FoldLeft(LAMBDA acc, i : acc * b + 1, 0, [i \in 1 .. Digits(s) |-> i])>>)

-----------------------------------------------------------------------------

TextInitial ==
  /\ source \in Sources
  /\ text = <<>>
  /\ ended = "unread"

\* A literal of the program: its bytes are converted (StringObject::create).
Read ==
  /\ ended = "unread"
  /\ text' = Utf8to32(Utf32to8(source))
  /\ ended' = "read"
  /\ UNCHANGED source

\* A method whose result takes the place of the string, or that fails.
Becomes(outcome) ==
  /\ ended \in {"read", "none", "IndexError", "ValueError"}
  /\ Len(outcome.value) <= MaxLength
  /\ text' = IF outcome.error = "none" THEN outcome.value ELSE text
  /\ ended' = outcome.error
  /\ source' = <<>>
\* One that looks for every place.
Searches(what, s) == Becomes(IF Endless(what) THEN Fails("endless") ELSE Gives(s))

Positions == -1 .. MaxLength

Parts ==
  \/ \E what \in Patterns :
       \/ Becomes(Gives(RemoveEnd(text, what)))
       \/ Becomes(Gives(RemovePrefix(text, what)))
       \/ \E index \in Positions : Becomes(StrInsert(text, index, what))
                                   \/ Becomes(StrSet(text, index, what))
  \/ \E start \in Positions :
       \/ Becomes(StrGet(text, start))
       \/ \E count \in Positions : Becomes(StrSubstr(text, start, count))
  \/ \E s \in StrTrims(text) \cup StrLeftTrims(text) \cup StrRightTrims(text) : Becomes(Gives(s))

Loops ==
  \E what \in Patterns :
    \/ \E with \in Patterns : Searches(what, IF Endless(what) THEN text
                                             ELSE StrReplace(text, what, with))
    \/ /\ ~Endless(what)
       /\ \E i \in DOMAIN StrSplit(text, what) : Becomes(Gives(StrSplit(text, what)[i]))

\* доЧисла raises or gives a number.
Parses == \E base \in {-1, 0, 1, 2, 10, 37} :
            Becomes([StrToInt(text, base) EXCEPT !.value = text])

TextNext == Read \/ Parts \/ Loops \/ Parses

-----------------------------------------------------------------------------
(* Properties. *)

\* A literal is the text in the source as long as its characters are those of
\* one and two bytes, as the Cyrillic ones are.  Of three bytes the conversion
\* keeps all but the bits 8 to 11, of four the bits from 18 and the lowest eight:
\* the length stays right, and what has been converted once is converted back and
\* forth without further loss (char8to32, char32to8, utf8to32, utf32to8, utf8Size).
Conveyed(c) ==
  IF c < 2048 THEN c
  ELSE LET unit == IF c < 65536 THEN 4096 ELSE 2 ^ 18 IN (c \div unit) * unit + (c % 256)
RoundTrip ==
  ended = "read" =>
    /\ text = [i \in DOMAIN source |-> Conveyed(source[i])]
    /\ Utf8to32(Utf32to8(text)) = text
    /\ Utf8Size(Utf32to8(source)) = Len(source)

SplitRight(what) ==
  LET pieces == StrSplit(text, what)
  IN  /\ StrJoin(what, pieces) = text
      /\ \A i \in DOMAIN pieces : ~StrContains(pieces[i], what)
      /\ StrCount(text, what) = Len(pieces) - 1
      /\ \A with \in Patterns : StrReplace(text, what, with) = StrJoin(with, pieces)
EndsRight(what) ==
  /\ StrStartsWith(text, what) = (what \o RemovePrefix(text, what) = text)
  /\ StrStartsWith(text, what) = (StrFind(text, what) = 0)
  /\ StrEndsWith(text, what) = (RemoveEnd(text, what) \o what = text)
PlacedRight(what) ==
  \A index \in Positions :
    LET with == StrInsert(text, index, what)
        set == StrSet(text, index, what)
    IN  /\ with.error = "none" => /\ StrSubstr(with.value, index, Len(what)) = Gives(what)
                                  /\ Len(with.value) = Len(text) + Len(what)
        /\ set.error = "none" => Len(set.value) = Len(with.value) - (IF index = Len(text) THEN 0 ELSE 1)
        /\ InRange(index, text) => {with.error, set.error} \subseteq {"none", "IndexError"}
SubstrRight ==
  \A start, count \in Positions :
    LET part == StrSubstr(text, start, count)
    IN  /\ InRange(start, text) /\ count \in 0 .. Len(text) - start => part.error = "none"
        /\ part.error = "none" => /\ At(text, part.value, start)
                                  /\ Len(part.value) = IF count < 0 THEN Len(text) - start ELSE count
TrimmedRight ==
  /\ \A t \in StrTrims(text) : \E u \in StrLeftTrims(text) : t \in StrRightTrims(u)
  /\ (\A i \in DOMAIN text : Byte(text[i])) =>
       \A t \in StrTrims(text) :
         t # <<>> => /\ t[1] \notin Spaces /\ Last(t) \notin Spaces
                     /\ SelectSeq(t, LAMBDA c : c \notin Spaces) = SelectSeq(text, LAMBDA c : c \notin Spaces)
  /\ (text # <<>> /\ ~Byte(text[1])) => StrTrims(text) = {text}

\* The methods of a string agree with each other.  What is split by something is
\* joined by it again, none of the pieces contains it, and counting and replacing
\* see the same places; a string starts or ends with what can be removed there;
\* what is inserted is found by the substring of its place, and only an index
\* beyond the string ends the program; a substring is as long as it was asked for,
\* or goes to the end when a negative length passes the check; trimming is
\* trimming on the left, then on the right, and takes spaces only, but on the
\* right nothing when the first character is no byte (string_object.cpp).
TextContract ==
  ended \in {"read", "none"} =>
    /\ \A what \in Patterns \ {<<>>} : SplitRight(what) /\ EndsRight(what)
    /\ \A what \in Patterns : PlacedRight(what)
    /\ SubstrRight
    /\ TrimmedRight
=============================================================================
