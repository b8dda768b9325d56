------------------------------- MODULE Masking -------------------------------
(***************************************************************************)
(* The writer that hides secrets in a job's output (internal/mask).  The   *)
(* output is a sequence of symbols; the writer's buffer and what it has    *)
(* let through are sequences of items, each a position of the output or    *)
(* Star, which stands for "***".  No secret contains an asterisk.          *)
(***************************************************************************)
EXTENDS Integers, Sequences, SequencesExt

Star == 0

\* Shorter secrets are tried first (seeded fault).
ShortestFirst(values) ==
  {s \in SetToSeqs(values \ {<<>>}) : \A i, k \in DOMAIN s : i < k => Len(s[i]) <= Len(s[k])}

\* New: no empty secret, none twice, longest first. The order of secrets of one
\* length is that of a map, sorted by an unstable sort.
LongestFirst(values) ==
  {s \in SetToSeqs(values \ {<<>>}) : \A i, k \in DOMAIN s : i < k => Len(s[i]) >= Len(s[k])}

\* buf[k..] starts with secret.
StartsAt(output, buf, k, secret) ==
  /\ k + Len(secret) - 1 <= Len(buf)
  /\ \A i \in DOMAIN secret : buf[k + i - 1] # Star /\ output[buf[k + i - 1]] = secret[i]

\* bytes.ReplaceAll: from the left, without overlaps.
ReplacedAll(output, buf, secret) ==
  LET from[k \in 1..Len(buf) + 1] ==
        IF k > Len(buf) THEN <<>>
        ELSE IF StartsAt(output, buf, k, secret) THEN <<Star>> \o from[k + Len(secret)]
        ELSE <<buf[k]>> \o from[k + 1]
  IN  from[1]

\* replace.
Replaced(output, buf, secrets) ==
  LET after[i \in 0..Len(secrets)] ==
        IF i = 0 THEN buf ELSE ReplacedAll(output, after[i - 1], secrets[i])
  IN  after[Len(secrets)]

\* One symbol too few (seeded fault).
ProperPrefixesBut(secret) == 1..Len(secret) - 2

\* The lengths of the proper prefixes.
ProperPrefixes(secret) == 1..Len(secret) - 1

\* holdLen: the longest end of buf that may be the start of a secret.
HoldLen(output, buf, secrets) ==
  LET begins(l) == \E i \in DOMAIN secrets :
                     /\ l \in ProperPrefixes(secrets[i])
                     /\ StartsAt(output, buf, Len(buf) - l + 1, SubSeq(secrets[i], 1, l))
      held == {l \in 1..Len(buf) : begins(l)}
  IN  IF held = {} THEN 0 ELSE CHOOSE l \in held : \A m \in held : m <= l

\* A writer: the output, how much of it was written, and where the writes cut
\* it; the secrets in order; buf; what was let through; whether a write failed.
Writer(output, secrets) ==
  [output |-> output, fed |-> 0, cuts |-> {}, secrets |-> secrets, buf |-> <<>>,
   shown |-> <<>>, lost |-> FALSE]

\* Write of the next n symbols. If the log cannot be written what was flushed is
\* lost (that a part of it may get through makes no difference to what follows),
\* and what was held back is kept.
Written(w, n) ==
  LET buf  == Replaced(w.output, w.buf \o [i \in 1..n |-> w.fed + i], w.secrets)
      size == Len(buf) - HoldLen(w.output, buf, w.secrets)
      after(m) == [w EXCEPT !.fed = @ + n, !.cuts = @ \cup {w.fed + n},
                            !.buf = SubSeq(buf, size + 1, Len(buf)),
                            !.shown = @ \o SubSeq(buf, 1, m), !.lost = @ \/ m < size]
  IN  {after(m) : m \in {0, size}}

\* The tail is dropped (seeded fault).
ClosedShort(w) == {[w EXCEPT !.buf = <<>>]}

\* Close.
Closed(w) ==
  LET buf == Replaced(w.output, w.buf, w.secrets)
  IN  {[w EXCEPT !.buf = <<>>, !.shown = @ \o SubSeq(buf, 1, m), !.lost = @ \/ m < Len(buf)] :
         m \in {0, Len(buf)}}

----------------------------------------------------------------------------
(* The reference. *)

Occurrences(w, secret) ==
  {i \in 1..w.fed - Len(secret) + 1 : SubSeq(w.output, i, i + Len(secret) - 1) = secret}

\* The stretches of what was written that spell a secret.
Stretches(w) ==
  UNION {{i..i + Len(s) - 1 : i \in Occurrences(w, s)} : s \in Range(w.secrets)}

Outermost(w) == {o \in Stretches(w) : \A q \in Stretches(w) : o \subseteq q => q = o}

\* Masked as a whole: each outermost stretch becomes one Star.
Whole(w) ==
  LET starts == {CHOOSE i \in o : \A k \in o : i <= k : o \in Outermost(w)}
      hidden == UNION Stretches(w)
  IN  FlattenSeq([i \in 1..w.fed |-> IF i \in starts THEN <<Star>>
                                     ELSE IF i \in hidden THEN <<>> ELSE <<i>>])

\* An end of s is a beginning of t.
Overlap(s, t) ==
  \E l \in ProperPrefixes(t) : l < Len(s) /\ SubSeq(s, Len(s) - l + 1, Len(s)) = SubSeq(t, 1, l)

Nested(s, t) == s # t /\ \E i \in 0..Len(t) - Len(s) : SubSeq(t, i + 1, i + Len(s)) = s

\* No two secrets overlap, and none that contains another was cut by a write.
Tame(w) ==
  \A s, t \in Range(w.secrets) :
    /\ ~Overlap(s, t)
    /\ Nested(s, t) => \A i \in Occurrences(w, t) : (i..i + Len(t) - 2) \cap w.cuts = {}
=============================================================================
