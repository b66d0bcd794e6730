--------------------------- MODULE SecretPatterns ---------------------------
(***************************************************************************)
(* A definition may attach a validation pattern to a credential that is    *)
(* generated.  every_value_matches reads the pattern and answers whether   *)
(* every credential of the format satisfies it (src/src/setup.rs).         *)
(*                                                                         *)
(* A pattern is the sequence of its marks.  A range such as `a-z` and an   *)
(* escape such as `\d` is one mark, <<"range", S>> or <<"escape", S>> with *)
(* the characters it stands for; any other character is <<"char", c>>, and *)
(* a counted quantifier is <<"count", low, high>> with high a set of at    *)
(* most one number.                                                        *)
(***************************************************************************)
EXTENDS Naturals, Sequences, SequencesExt, FiniteSetsExt

\* One character for each kind the formats tell apart.
Alphabet == [alphanumeric |-> {"a", "z", "0"}, hex |-> {"a", "0"}, base64 |-> {"a", "z", "0", "="}]

Char(c) == <<"char", c>>

-----------------------------------------------------------------------------
\* The reader: "yes", "no", or "unknown" for a shape it does not recognise.

Starts(marks, c) == Len(marks) > 0 /\ Head(marks) = Char(c)
Ends(marks, c) == Len(marks) > 0 /\ Last(marks) = Char(c)
Between(marks) == SubSeq(marks, 2, Len(marks) - 1)

\* The characters of a set's body; inside a set a bracket is itself.
set_contains(body, c) ==
  \E i \in DOMAIN body : CASE body[i][1] = "char" -> body[i][2] = c
                           [] body[i][1] \in {"range", "escape"} -> c \in body[i][2]
                           [] OTHER -> FALSE

SetAccepts(body, chars) ==
  LET negated == Starts(body, "^")
      inner == IF negated THEN Tail(body) ELSE body
  IN IF \A c \in chars : set_contains(inner, c) # negated THEN "yes" ELSE "no"

Branches(inner) ==
  LET bars == {i \in DOMAIN inner : inner[i] = Char("|")}
      from == {0} \cup bars
      End(i) == Min({j \in bars \cup {Len(inner) + 1} : j > i})
  IN {SubSeq(inner, i + 1, End(i) - 1) : i \in from}

\* A branch of an alternative is read as the atom is: by a part of its marks.
class_accepts_all(atom, chars) ==
  LET Parts == {SubSeq(atom, i, j) : i \in 1..Len(atom) + 1, j \in 0..Len(atom)}
      accepts[a \in Parts] ==
        CASE a = <<Char(".")>> -> "yes"
          [] Starts(a, "(") /\ Ends(a, ")") ->
               LET answers == {accepts[b] : b \in Branches(Between(a))}
               IN IF "yes" \in answers THEN "yes" ELSE IF "no" \in answers THEN "no" ELSE "unknown"
          [] Starts(a, "[") /\ Ends(a, "]") -> SetAccepts(Between(a), chars)
          [] Len(a) = 1 /\ Head(a)[1] = "escape" -> IF chars \subseteq Head(a)[2] THEN "yes" ELSE "no"
          [] OTHER -> "unknown"
  IN accepts[atom]

\* The last mark may say how often what is before it is repeated.
split_quantifier(body) ==
  CASE Ends(body, "+") -> [atom |-> Front(body), low |-> 1, high |-> {}]
    [] Ends(body, "*") -> [atom |-> Front(body), low |-> 0, high |-> {}]
    [] Ends(body, "?") -> [atom |-> Front(body), low |-> 0, high |-> {1}]
    [] Len(body) > 0 /\ Last(body)[1] = "count" -> [atom |-> Front(body), low |-> Last(body)[2], high |-> Last(body)[3]]
    [] OTHER -> [atom |-> body, low |-> 1, high |-> {1}]

every_value_matches(format, length, pattern) ==
  LET start == Starts(pattern, "^")
      rest == IF start THEN Tail(pattern) ELSE pattern
      end == Ends(rest, "$")
      split == split_quantifier(IF end THEN Front(rest) ELSE rest)
  IN /\ class_accepts_all(split.atom, Alphabet[format]) = "yes"
     /\ length >= split.low
     /\ start /\ end => \A high \in split.high : length <= high

-----------------------------------------------------------------------------
(***************************************************************************)
(* What a pattern means: pieces one after the other, each of a class of    *)
(* characters and a number of repetitions, with or without anchors.        *)
(***************************************************************************)
Class(marks, matches) == [marks |-> marks, matches |-> matches]
Repeat(marks, low, high) == [marks |-> marks, low |-> low, high |-> high]
Pattern(pieces, start, end) == [pieces |-> pieces, start |-> start, end |-> end]

Marks(pattern) ==
  (IF pattern.start THEN <<Char("^")>> ELSE <<>>)
    \o FlattenSeq([i \in DOMAIN pattern.pieces |-> pattern.pieces[i].class.marks \o pattern.pieces[i].times.marks])
    \o (IF pattern.end THEN <<Char("$")>> ELSE <<>>)

Satisfies(word, pattern) ==
  LET n == Len(word)
      k == Len(pattern.pieces)
  IN \E cut \in [0..k -> 0..n] :
       /\ pattern.start => cut[0] = 0
       /\ pattern.end => cut[k] = n
       /\ \A j \in 1..k :
            LET piece == pattern.pieces[j]
            IN /\ cut[j - 1] <= cut[j]
               /\ cut[j] - cut[j - 1] >= piece.times.low
               /\ \A high \in piece.times.high : cut[j] - cut[j - 1] <= high
               /\ \A i \in cut[j - 1] + 1..cut[j] : word[i] \in piece.class.matches

(***************************************************************************)
(* "Sound by construction": what is answered to match does match, for      *)
(* every credential of the format and length.                              *)
(***************************************************************************)
Sound(format, length, pattern) ==
  every_value_matches(format, length, Marks(pattern)) =>
    \A word \in [1..length -> Alphabet[format]] : Satisfies(word, pattern)

=============================================================================
