-------------------------------- MODULE Text --------------------------------
(***************************************************************************)
(* Text as a sequence of tokens: a token is a separator the code looks     *)
(* for, or a word it never looks into. The helpers of StringUtil, the      *)
(* searches of std::string_view they use, and base64Encode.                *)
(***************************************************************************)
EXTENDS Integers, Sequences, SequencesExt, FiniteSetsExt

CR == "CR"
LF == "LF"
CRLF == <<CR, LF>>

(* s.find(pattern, from), with 0 for npos; s.rfind(c) *)
Find(s, pattern, from) ==
  LET places == {i \in from..(Len(s) - Len(pattern) + 1) :
                   SubSeq(s, i, i + Len(pattern) - 1) = pattern}
  IN IF places = {} THEN 0 ELSE Min(places)

RFind(s, c) == SelectLastInSeq(s, LAMBDA x : x = c)

Upto(s, pos) == SubSeq(s, 1, pos - 1)
From(s, pos) == SubSeq(s, pos, Len(s))

(* No token of s is one of tokens. *)
Free(s, tokens) == ToSet(s) \cap tokens = {}

(* Lines as they are sent, each with its end *)
Ended(lines) == FlattenSeq([i \in DOMAIN lines |-> lines[i] \o CRLF])

(* StringUtil::split: empty pieces are left out. *)
Split(s, delimiters) ==
  LET piece(t) == IF t = <<>> THEN <<>> ELSE <<t>>
      tokens[start \in 1..(Len(s) + 1)] ==
        LET end == Find(s, delimiters, start)
        IN IF end = 0 THEN piece(From(s, start))
           ELSE piece(SubSeq(s, start, end - 1)) \o tokens[end + Len(delimiters)]
  IN tokens[1]

(* StringUtil::removePrefix: erase(0) takes the whole string, not the one  *)
(* character.                                                              *)
RemovePrefix(s, c) == IF s # <<>> /\ Head(s) = c THEN <<>> ELSE s

kBase64Content ==
  <<"A", "B", "C", "D", "E", "F", "G", "H", "I", "J", "K", "L", "M", "N", "O", "P",
    "Q", "R", "S", "T", "U", "V", "W", "X", "Y", "Z", "a", "b", "c", "d", "e", "f",
    "g", "h", "i", "j", "k", "l", "m", "n", "o", "p", "q", "r", "s", "t", "u", "v",
    "w", "x", "y", "z", "0", "1", "2", "3", "4", "5", "6", "7", "8", "9", "+", "/">>

Digit(n) == kBase64Content[(n % 64) + 1]

(* n >> by *)
Shift(n, by) == n \div <<1, 2, 4, 8, 16, 32, 64, 128>>[by + 1]

(* The digits of the turns of the inner loop, six bits lower each         *)
Emitted(val, valb) ==
  [k \in 1..(valb \div 6 + 1) |-> Digit(Shift(val, valb - 6 * (k - 1)))]

(* One turn of the loop of base64Encode. val is an int that overflows; the *)
(* digits are its low bits, which 2^16 keeps.                              *)
Base64Turn(last, byte) ==
  LET val == (last.val * 256 + byte) % 65536
      valb == last.valb + 8
  IN [val |-> val, valb |-> (valb % 6) - 6, res |-> last.res \o Emitted(val, valb)]

Base64Loop(bytes) ==
  LET turn[i \in 0..Len(bytes)] ==
        IF i = 0 THEN [val |-> 0, valb |-> -6, res |-> <<>>]
        ELSE Base64Turn(turn[i - 1], bytes[i])
  IN turn[Len(bytes)]

(* As many "=" as make the digits a multiple of four                       *)
Padded(digits) == digits \o [i \in 1..((4 - (Len(digits) % 4)) % 4) |-> "="]

(* Mutant of Base64Encode: the bits left over at the end are not moved up  *)
(* in front of the missing byte.                                           *)
Base64EncodeUnshifted(bytes) ==
  LET all == Base64Loop(bytes)
  IN Padded(IF all.valb > -6 THEN Append(all.res, Digit(Shift(all.val, all.valb + 8)))
            ELSE all.res)

(* base64Encode of a sequence of byte values *)
Base64Encode(bytes) ==
  LET all == Base64Loop(bytes)
  IN Padded(IF all.valb > -6
            THEN Append(all.res, Digit(Shift(all.val * 256, all.valb + 8)))
            ELSE all.res)
=============================================================================
