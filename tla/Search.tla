------------------------------- MODULE Search -------------------------------
(***************************************************************************)
(* The two substring matchers of src/src/fat32.c that the search commands  *)
(* use: knuth_morris_pratt (syscall 19, search2) and boyer_moore (syscall  *)
(* 12, search1).  Each C loop is a RECURSIVE operator over the loop's own *)
(* variables, with strings indexed from 0 as in C (At(s, i) is s[i]) and   *)
(* strlen as Len.  The state holds one request of the shell (a pattern and *)
(* a text) and the answer each syscall gave; both answers are checked     *)
(* against the reference definition of "pattern occurs in text".           *)
(***************************************************************************)
EXTENDS Integers, Sequences

CONSTANTS
  Alphabet,     \* characters of patterns and texts (no NUL)
  MaxPattern,   \* longest pattern
  MaxText,      \* longest text
  None          \* no answer yet

ASSUME MaxPattern >= 1 /\ MaxText >= 0 /\ None \notin BOOLEAN

Words(k) == UNION {[1 .. l -> Alphabet] : l \in 0 .. k}

At(s, i) == s[i + 1]

(* The reference: pattern occurs in text at some offset.                   *)
IsSubstring(p, t) ==
  \E s \in 0 .. Len(t) - Len(p) : \A j \in 0 .. Len(p) - 1 : At(p, j) = At(t, s + j)

(***************************************************************************)
(* knuth_morris_pratt.                                                     *)
(***************************************************************************)
(* while (k > 0 && p[k] != c) k = pi[k - 1];                               *)
RECURSIVE KmpFallback(_, _, _, _)
KmpFallback(p, pi, k, c) ==
  IF k > 0 /\ At(p, k) # c THEN KmpFallback(p, pi, pi[k - 1], c) ELSE k

(* Mutant of KmpAdvance: the fallback loop is skipped.                     *)
KmpAdvance_nofallback(p, pi, k, c) ==
  IF At(p, k) = c THEN k + 1 ELSE 0

(* The step shared by both loops: fall back, then extend on a match.       *)
KmpAdvance(p, pi, k, c) ==
  LET k1 == KmpFallback(p, pi, k, c)
  IN  IF At(p, k1) = c THEN k1 + 1 ELSE k1

(* The bounding-function loop: pi[i] for i in 1 .. m-1, pi[0] = 0.         *)
RECURSIVE KmpPi(_, _, _, _)
KmpPi(p, i, k, pi) ==
  IF i >= Len(p) THEN pi
  ELSE LET k2 == KmpAdvance(p, pi, k, At(p, i))
       IN  KmpPi(p, i + 1, k2, [x \in DOMAIN pi \cup {i} |-> IF x = i THEN k2 ELSE pi[x]])

(* The scan of the text: true as soon as j reaches m.                      *)
RECURSIVE KmpScan(_, _, _, _, _)
KmpScan(p, t, pi, i, j) ==
  IF i >= Len(t) THEN FALSE
  ELSE LET j2 == KmpAdvance(p, pi, j, At(t, i))
       IN  IF j2 = Len(p) THEN TRUE ELSE KmpScan(p, t, pi, i + 1, j2)

knuth_morris_pratt(p, t) ==
  IF Len(p) = 0 THEN FALSE
  ELSE KmpScan(p, t, KmpPi(p, 1, 0, [x \in {0} |-> 0]), 0, 0)

(***************************************************************************)
(* boyer_moore, bad-character rule only.                                   *)
(***************************************************************************)
(* Last Occurence Function: the last index of c in p, -1 if none.          *)
BadChar(p) ==
  [c \in Alphabet |-> LET I == {i \in 0 .. Len(p) - 1 : At(p, i) = c}
                      IN  IF I = {} THEN -1 ELSE CHOOSE i \in I : \A x \in I : x <= i]

(* while (j >= 0 && p[j] == t[s + j]) j--;                                 *)
RECURSIVE BmMismatch(_, _, _, _)
BmMismatch(p, t, s, j) ==
  IF j >= 0 /\ At(p, j) = At(t, s + j) THEN BmMismatch(p, t, s, j - 1) ELSE j

(* Mutant of BmShift: one more than the bad-character rule allows.         *)
BmShift_plusone(bc, t, s, j) ==
  IF j - bc[At(t, s + j)] > 1 THEN j - bc[At(t, s + j)] + 1 ELSE 2

(* The shift after a mismatch at j.                                        *)
BmShift(bc, t, s, j) ==
  IF j - bc[At(t, s + j)] > 1 THEN j - bc[At(t, s + j)] ELSE 1

(* while (s <= n - m): true when a window matches completely.              *)
RECURSIVE BmScan(_, _, _, _)
BmScan(p, t, bc, s) ==
  IF s > Len(t) - Len(p) THEN FALSE
  ELSE LET j == BmMismatch(p, t, s, Len(p) - 1)
       IN  IF j < 0 THEN TRUE ELSE BmScan(p, t, bc, s + BmShift(bc, t, s, j))

boyer_moore(p, t) == BmScan(p, t, BadChar(p), 0)

(***************************************************************************)
(* The search commands: the shell sends a non-empty pattern (search1 and   *)
(* search2 skip the syscall when strlen(argument) is 0); the text is the  *)
(* content of a .txt file the depth-limited search reads.                  *)
(***************************************************************************)
VARIABLES pattern, text, bm, kmp

vars == <<pattern, text, bm, kmp>>

Init ==
  /\ pattern \in Words(MaxPattern) \ {<<>>}
  /\ text \in Words(MaxText)
  /\ bm = None
  /\ kmp = None

(* syscall 12: depth_limited_search_bm matches the file with boyer_moore.  *)
SearchBm == bm' = boyer_moore(pattern, text) /\ UNCHANGED <<pattern, text, kmp>>

(* syscall 19: depth_limited_search_kmp matches with knuth_morris_pratt.   *)
SearchKmp == kmp' = knuth_morris_pratt(pattern, text) /\ UNCHANGED <<pattern, text, bm>>

Next == SearchBm \/ SearchKmp

Spec == Init /\ [][Next]_vars

(* Spec 4.4 and scenario 4: boyer_moore's answer is the reference answer: *)
(* its shifts never skip an offset where the pattern occurs, and it never  *)
(* reports a window that does not match.                                   *)
BmCorrect == bm # None => bm = IsSubstring(pattern, text)

(* knuth_morris_pratt's answer is the reference answer: the bounding       *)
(* function's fallbacks never lose a partial match that leads to one.      *)
KmpCorrect == kmp # None => kmp = IsSubstring(pattern, text)
=============================================================================
