------------------------------ MODULE Handles ------------------------------
(***************************************************************************)
(* How a Discord username becomes the handle of an account:                *)
(* NormalizeHandle and HandleCandidate of internal/domain/auth.go, and the *)
(* grammar of internal/domain/profile.go, which the column users.handle    *)
(* has as a CHECK.                                                         *)
(*                                                                         *)
(* A username is a sequence of characters.  Bytes and runes need no        *)
(* telling apart: what is no letter or digit is replaced before any length *)
(* is looked at.                                                           *)
(***************************************************************************)
EXTENDS Naturals, Sequences, SequencesExt, FiniteSetsExt

CONSTANTS
  Letters,    \* lower-case ASCII letters
  Lower,      \* strings.ToLower of every other character that a letter comes from
  MaxHandle   \* 40 in the code

ASSUME LettersAssumption ==
  /\ Letters \subseteq STRING \ {"-"}
  /\ {"u", "s", "e", "r"} \subseteq Letters
\* A suffix of four digits leaves room for a character in front of it.
ASSUME MaxHandleAssumption == MaxHandle \in Nat /\ MaxHandle >= 6

Numerals == <<"0", "1", "2", "3", "4", "5", "6", "7", "8", "9">>
HandleCharacters == Letters \cup ToSet(Numerals)

\* %d of a number
Decimal[n \in Nat] ==
  IF n < 10 THEN <<Numerals[n + 1]>>
  ELSE Append(Decimal[n \div 10], Numerals[(n % 10) + 1])

\* strings.TrimRight(s, "-")
TrimHyphens(s) == SubSeq(s, 1, Max({0} \cup {i \in DOMAIN s : s[i] # "-"}))

\* Mutant: the cut is not trimmed.
CutAnywhere(s, n) == SubSeq(s, 1, IF Len(s) < n THEN Len(s) ELSE n)

\* The first n characters, without a hyphen where they were cut.
Cut(s, n) == TrimHyphens(SubSeq(s, 1, IF Len(s) < n THEN Len(s) ELSE n))

\* A run of other characters is one hyphen, and none at the beginning.
Normalized(out, character) ==
  LET c == IF character \in DOMAIN Lower THEN Lower[character] ELSE character
  IN  IF c \in HandleCharacters THEN Append(out, c)
      ELSE IF out = <<>> \/ out[Len(out)] = "-" THEN out
      ELSE Append(out, "-")

\* What is written after each character of the username.
Spelled(username) ==
  LET out[i \in 0..Len(username)] ==
        IF i = 0 THEN <<>> ELSE Normalized(out[i - 1], username[i])
  IN  out

NormalizeHandle(username) ==
  LET trimmed == TrimHyphens(Spelled(username)[Len(username)])
      user == <<"u", "s", "e", "r">>
      base == IF trimmed = <<>> THEN user
              ELSE IF Len(trimmed) < 3 THEN user \o <<"-">> \o trimmed
              ELSE trimmed
  IN  Cut(base, MaxHandle)

HandleCandidate(base, attempt) ==
  LET suffix == <<"-">> \o Decimal[attempt]
  IN  IF attempt <= 1 THEN base ELSE Cut(base, MaxHandle - Len(suffix)) \o suffix

IsCanonicalHandle(handle) ==
  /\ Len(handle) \in 3..MaxHandle
  /\ handle[1] # "-" /\ handle[Len(handle)] # "-"
  /\ \A i \in DOMAIN handle : handle[i] \in HandleCharacters \cup {"-"}
=============================================================================
