--------------------------- MODULE VersionCompare ---------------------------
(***************************************************************************)
(* lemon::utils::Version (version_utils.cpp, concatenated in              *)
(* src/src/cpp/server/backend_manager.cpp): parse() and the >= and ==     *)
(* operators that decide whether an installed backend is new enough.       *)
(* A version string is a sequence of characters from a small alphabet.     *)
(* The state is the pair of strings being compared (installed, required);  *)
(* either may be replaced by any other string.                             *)
(***************************************************************************)
EXTENDS Naturals, Sequences, SequencesExt

CONSTANTS
    Chars,     \* the alphabet of version strings
    MaxLen,    \* longest string compared
    IntMax     \* largest value std::stoi returns (INT_MAX, scaled down)

ASSUME Chars \subseteq {"v", "V", ".", "0", "1", "2", "9", "x", "-"}
ASSUME MaxLen \in Nat /\ IntMax \in Nat

VARIABLES installed, required

vars == <<installed, required>>

Strings == BoundedSeq(Chars, MaxLen)
Digits == {"0", "1", "2", "9"}
DigitValue(c) == CASE c = "0" -> 0 [] c = "1" -> 1 [] c = "2" -> 2 [] c = "9" -> 9

(* Drop one leading 'v' or 'V'. *)
StripPrefix(s) == IF s /= <<>> /\ Head(s) \in {"v", "V"} THEN Tail(s) ELSE s

(* std::getline on '.': the segments between dots. *)
RECURSIVE Segments(_)
Segments(w) ==
    LET dot == SelectInSeq(w, LAMBDA c : c = ".")
    IN  IF dot = 0 THEN <<w>>
        ELSE <<SubSeq(w, 1, dot - 1)>> \o Segments(SubSeq(w, dot + 1, Len(w)))

(* The digits of a segment up to its first non-digit. *)
DigitRun(seg) ==
    LET stop == SelectInSeq(seg, LAMBDA c : c \notin Digits)
    IN  IF stop = 0 THEN seg ELSE SubSeq(seg, 1, stop - 1)

(* Variant: stoi's out_of_range not caught. *)
StoiNoFallback(run) ==
    FoldLeft(LAMBDA acc, c : 10 * acc + DigitValue(c), 0, run)

(* std::stoi, whose out_of_range is caught and replaced by 0. *)
Stoi(run) ==
    LET n == FoldLeft(LAMBDA acc, c : 10 * acc + DigitValue(c), 0, run)
    IN  IF n > IntMax THEN 0 ELSE n

(* Version::parse: segments without a leading digit are skipped. *)
Parse(s) ==
    IF s = <<>> THEN <<>>
    ELSE LET segs == Segments(StripPrefix(s))
             runs == SelectSeq([i \in 1..Len(segs) |-> DigitRun(segs[i])],
                               LAMBDA r : r /= <<>>)
         IN  [i \in 1..Len(runs) |-> Stoi(runs[i])]

(* parts_[i], or 0 past the end. *)
Part(p, i) == IF i <= Len(p) THEN p[i] ELSE 0
Longer(p, q) == IF Len(p) >= Len(q) THEN Len(p) ELSE Len(q)

(* A loop that stops at the end of the shorter version. *)
RECURSIVE GEFromShorter(_, _, _)
GEFromShorter(p, q, i) ==
    IF i > Len(p) \/ i > Len(q) THEN TRUE
    ELSE IF p[i] > q[i] THEN TRUE
    ELSE IF p[i] < q[i] THEN FALSE
    ELSE GEFromShorter(p, q, i + 1)

(* The element loop of operator>=, from index i. *)
RECURSIVE GEFrom(_, _, _)
GEFrom(p, q, i) ==
    IF i > Longer(p, q) THEN TRUE
    ELSE IF Part(p, i) > Part(q, i) THEN TRUE
    ELSE IF Part(p, i) < Part(q, i) THEN FALSE
    ELSE GEFrom(p, q, i + 1)

(* Version::operator>=: false as soon as either side parsed to nothing. *)
VersionGE(p, q) == IF p = <<>> \/ q = <<>> THEN FALSE ELSE GEFrom(p, q, 1)

(* Version::operator==: pad the shorter with zeros. *)
VersionEq(p, q) ==
    IF Len(p) /= Len(q)
    THEN \A i \in 1..Longer(p, q) : Part(p, i) = Part(q, i)
    ELSE p = q

TypeOK ==
    /\ installed \in Strings /\ required \in Strings
    /\ Parse(installed) \in Seq(0..IntMax)

(* Before any version is known both strings are empty. *)
Init == installed = <<>> /\ required = <<>>

(* A different version is extracted, or backend_versions.json changes. *)
SetInstalled == \E s \in Strings : installed' = s /\ UNCHANGED required
SetRequired  == \E s \in Strings : required' = s /\ UNCHANGED installed

Next == SetInstalled \/ SetRequired

Spec == Init /\ [][Next]_vars

-----------------------------------------------------------------------------
(* Spec 4.2's comparison: element-wise integer order, missing trailing     *)
(* segments read as 0.                                                     *)
SpecGE(p, q) ==
    LET n == Longer(p, q) IN
    \/ \A i \in 1..n : Part(p, i) = Part(q, i)
    \/ \E i \in 1..n : /\ Part(p, i) > Part(q, i)
                      /\ \A j \in 1..(i - 1) : Part(p, j) = Part(q, j)

(* For every pair of strings that both parse to a version, >= is spec 4.2's *)
(* order and == holds exactly when each is >= the other (so "1.2" and      *)
(* "1.2.0" are equal and "v1.10" is above "v1.9").                          *)
CompareMatchesSpec ==
    LET p == Parse(installed)
        q == Parse(required)
    IN  (p /= <<>> /\ q /= <<>>) =>
            /\ VersionGE(p, q) = SpecGE(p, q)
            /\ VersionEq(p, q) = (SpecGE(p, q) /\ SpecGE(q, p))

=============================================================================
