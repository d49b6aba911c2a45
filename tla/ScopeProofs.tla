---------------------------- MODULE ScopeProofs ----------------------------
(***************************************************************************)
(* What holds of scopes for every alphabet, every entry and every path.    *)
(***************************************************************************)
EXTENDS Scope, WellFoundedInduction, TLAPS

(***************************************************************************)
(* The least element of a set of natural numbers.                          *)
(***************************************************************************)
LEMMA LeastIn ==
  ASSUME NEW S \in SUBSET Nat, S # {}
  PROVE  Least(S) \in S /\ \A m \in S : Least(S) <= m
<1>1. PICK n \in S : \A m \in S : ~ (<<m, n>> \in OpToRel(<, Nat))
  BY WFMin, NatLessThanWellFounded, Zenon
<1>2. \A m \in S : ~ (m < n)
  BY <1>1, Zenon DEF OpToRel
<1>3. \A m \in S : n <= m
  BY <1>2
<1>. QED BY <1>3 DEF Least

\* An element below all others is the least.
LEMMA LeastIs ==
  ASSUME NEW S \in SUBSET Nat, NEW n \in S, \A m \in S : n <= m
  PROVE  Least(S) = n
<1>1. Least(S) \in S /\ Least(S) <= n
  BY DEF Least
<1>2. n <= Least(S) /\ n \in Nat /\ Least(S) \in Nat
  BY <1>1
<1>. QED BY <1>1, <1>2

(***************************************************************************)
(* What is left of a text whose end is cut off: everything before it, when *)
(* the character before it stays.                                          *)
(***************************************************************************)
LEMMA Cut ==
  ASSUME NEW s \in Seq(Char), NEW cs, NEW n \in 0..Len(s),
         n = 0 \/ s[n] \notin cs,
         \A k \in n + 1..Len(s) : s[k] \in cs
  PROVE  trim_end(s, cs) = SubSeq(s, 1, n)
<1>1. n \in Ends(s, cs)
  BY DEF Ends
<1>2. \A m \in Ends(s, cs) : n <= m
  <2>1. SUFFICES ASSUME NEW m \in Ends(s, cs), m < n PROVE FALSE
    BY DEF Ends
  <2>2. n \in m + 1..Len(s) /\ n # 0
    BY <2>1 DEF Ends
  <2>. QED BY <2>1, <2>2 DEF Ends
<1>3. Least(Ends(s, cs)) = n
  <2>1. Ends(s, cs) \in SUBSET Nat
    BY DEF Ends
  <2>. QED BY <1>1, <1>2, <2>1, LeastIs
<1>. QED BY <1>3 DEF trim_end

(***************************************************************************)
(* A text that ends in a character outside cs keeps its end.               *)
(***************************************************************************)
LEMMA Uncut ==
  ASSUME NEW s \in Seq(Char), NEW cs, s = <<>> \/ s[Len(s)] \notin cs
  PROVE  trim_end(s, cs) = s
<1>1. Len(s) \in 0..Len(s) /\ (Len(s) = 0 \/ s[Len(s)] \notin cs)
  OBVIOUS
<1>2. \A k \in Len(s) + 1..Len(s) : s[k] \in cs
  OBVIOUS
<1>3. trim_end(s, cs) = SubSeq(s, 1, Len(s))
  BY <1>1, <1>2, Cut
<1>. QED BY <1>3

(***************************************************************************)
(* A text stays a text when its ends are cut off, and so does an entry when *)
(* it is brought to a prefix.                                              *)
(***************************************************************************)
LEMMA EndCutText ==
  ASSUME NEW s \in Text, NEW cs
  PROVE  trim_end(s, cs) \in Text
<1>1. Len(s) \in Ends(s, cs) /\ Ends(s, cs) \in SUBSET (0..Len(s)) /\ Len(s) \in Nat
  BY DEF Ends, Text
<1>2. Least(Ends(s, cs)) \in 0..Len(s)
  BY <1>1, LeastIn
<1>. QED BY <1>2 DEF trim_end, Text

\* What trimming leaves at the start is a text.
LEMMA StartCutText ==
  ASSUME NEW s \in Text, NEW cs
  PROVE  trim_start(s, cs) \in Text
<1>1. Len(s) \in Starts(s, cs) /\ Starts(s, cs) \in SUBSET (0..Len(s)) /\ Len(s) \in Nat
  BY DEF Starts, Text
<1>2. Least(Starts(s, cs)) \in 0..Len(s)
  BY <1>1, LeastIn
<1>. QED BY <1>2 DEF trim_start, Text

\* The prefix an entry stands for is a text.
LEMMA PrefixText ==
  ASSUME NEW raw \in Text
  PROVE  normalize_prefix(raw) \in Text
<1>1. Bare(raw) \in Text
  BY EndCutText, StartCutText DEF Bare
<1>2. trim_end(trim_end(Bare(raw), {Star}), {Slash}) \in Text
  BY <1>1, EndCutText
<1>. QED BY <1>2 DEF normalize_prefix, Text

\* Trimming leaves a text alone that does not begin with what is trimmed.
LEMMA UncutStart ==
  ASSUME NEW s \in Seq(Char), NEW cs, s = <<>> \/ s[1] \notin cs
  PROVE  trim_start(s, cs) = s
<1>1. 0 \in Starts(s, cs) /\ Starts(s, cs) \in SUBSET Nat
  BY DEF Starts
<1>2. Least(Starts(s, cs)) = 0
  BY <1>1, LeastIs
<1>. QED BY <1>2 DEF trim_start

(***************************************************************************)
(* The spellings of one subtree.                                           *)
(***************************************************************************)

\* A name as a person writes it: no white space at its ends, and at its end
\* neither a slash nor a star.
Plain(p) ==
  /\ p \in Seq(Char) /\ p # <<>>
  /\ p[1] \notin White /\ p[Len(p)] \notin White \cup {Slash, Star}

\* `prod/gcp/*`, `prod/gcp/` and `prod/gcp` mean the same subtree
\* (access.rs:37-39): for every plain name p the three entries have p as their
\* prefix.
THEOREM SpellingsAgree ==
  ASSUME NEW p \in Seq(Char), Plain(p), Slash \in Char, Star \in Char
  PROVE  /\ normalize_prefix(p) = p
         /\ normalize_prefix(Append(p, Slash)) = p
         /\ normalize_prefix(Append(Append(p, Slash), Star)) = p
<1>. DEFINE q == Append(p, Slash)
            r == Append(q, Star)
<1>1. /\ p \in Seq(Char) /\ q \in Seq(Char) /\ r \in Seq(Char)
      /\ Len(p) \in Nat \ {0} /\ Len(q) = Len(p) + 1 /\ Len(r) = Len(p) + 2
  BY DEF Plain
<1>2. /\ \A k \in 1..Len(p) : q[k] = p[k] /\ r[k] = p[k]
      /\ q[Len(q)] = Slash /\ r[Len(q)] = Slash /\ r[Len(r)] = Star
  BY <1>1
<1>3. /\ SubSeq(q, 1, Len(p)) = p
      /\ SubSeq(r, 1, Len(q)) = q
  BY <1>1, <1>2
<1>4. Slash \notin White /\ Star \notin White /\ Slash # Star
  BY DEF White, Slash, Star
<1>. HIDE DEF q, r
<1>5. trim_start(p, White) = p /\ trim_start(q, White) = q /\ trim_start(r, White) = r
  BY <1>1, <1>2, UncutStart DEF Plain
<1>6. trim_end(p, White) = p /\ trim_end(q, White) = q /\ trim_end(r, White) = r
  BY <1>1, <1>2, <1>4, Uncut DEF Plain
<1>7. trim_end(p, {Slash}) = p /\ trim_end(p, {Star}) = p
  BY <1>1, Uncut DEF Plain
<1>8. trim_end(q, {Slash}) = p /\ trim_end(q, {Star}) = q
  <2>1. trim_end(q, {Slash}) = SubSeq(q, 1, Len(p))
    <3>1. Len(p) \in 0..Len(q) /\ q[Len(p)] \notin {Slash}
      BY <1>1, <1>2 DEF Plain
    <3>2. \A k \in Len(p) + 1..Len(q) : q[k] \in {Slash}
      BY <1>1, <1>2
    <3>. QED BY <1>1, <3>1, <3>2, Cut
  <2>2. trim_end(q, {Star}) = q
    BY <1>1, <1>2, <1>4, Uncut
  <2>. QED BY <1>3, <2>1, <2>2
<1>9. trim_end(r, {Slash}) = r /\ trim_end(r, {Star}) = q
  <2>1. trim_end(r, {Slash}) = r
    BY <1>1, <1>2, <1>4, Uncut
  <2>2. trim_end(r, {Star}) = SubSeq(r, 1, Len(q))
    <3>1. Len(q) \in 0..Len(r) /\ r[Len(q)] \notin {Star}
      BY <1>1, <1>2, <1>4
    <3>2. \A k \in Len(q) + 1..Len(r) : r[k] \in {Star}
      BY <1>1, <1>2
    <3>. QED BY <1>1, <3>1, <3>2, Cut
  <2>. QED BY <1>3, <2>1, <2>2
<1>10. Bare(p) = p /\ Bare(q) = p /\ Bare(r) = r
  BY <1>5, <1>6, <1>7, <1>8, <1>9 DEF Bare
<1>11. p # <<Star>> /\ r # <<Star>>
  <2>1. p # <<Star>>
    <3>1. <<Star>>[Len(<<Star>>)] = Star
      OBVIOUS
    <3>. QED BY <3>1 DEF Plain
  <2>2. Len(r) # Len(<<Star>>)
    BY <1>1
  <2>. QED BY <2>1, <2>2
<1>12. normalize_prefix(p) = p /\ normalize_prefix(q) = p /\ normalize_prefix(r) = p
  BY <1>7, <1>8, <1>9, <1>10, <1>11 DEF normalize_prefix, Everything
<1>. QED BY <1>12 DEF q, r

(***************************************************************************)
(* Subtrees.                                                               *)
(***************************************************************************)

\* The names at and below p.
Subtree(p) == {p} \cup {p \o <<Slash>> \o rest : rest \in Text}

\* An entry with a prefix hits the names at and below it, and nothing beside
\* it: `prod/aws` does not reach `prod/awsx` (access.rs:50-57).
THEOREM HitsItsSubtree ==
  ASSUME NEW raw \in Text, NEW path \in Text, normalize_prefix(raw) # <<>>
  PROVE  PathHit(raw, path) <=> path \in Subtree(normalize_prefix(raw))
<1>. DEFINE p == normalize_prefix(raw)
<1>1. p \in Seq(Char) /\ p # <<>> /\ path \in Seq(Char)
  BY PrefixText DEF Text
<1>2. PathHit(raw, path)
        <=> path = p \/ (starts_with(path, p) /\ Len(path) > Len(p) /\ path[Len(p) + 1] = Slash)
  BY <1>1 DEF PathHit
<1>. HIDE DEF p
<1>3. ASSUME starts_with(path, p), Len(path) > Len(p), path[Len(p) + 1] = Slash
      PROVE  \E rest \in Text : path = p \o <<Slash>> \o rest
  <2>. DEFINE rest == SubSeq(path, Len(p) + 2, Len(path))
              joined == p \o <<Slash>> \o rest
  <2>1. /\ rest \in Seq(Char) /\ Len(rest) = Len(path) - Len(p) - 1
        /\ \A k \in 1..Len(rest) : rest[k] = path[Len(p) + 1 + k]
        /\ Slash \in Char
    BY <1>1, <1>3
  <2>. HIDE DEF rest
  <2>2. joined \in Seq(Char) /\ Len(joined) = Len(path)
    BY <1>1, <1>3, <2>1
  <2>3. ASSUME NEW k \in 1..Len(path) PROVE path[k] = joined[k]
    <3>1. CASE k \in 1..Len(p)
      BY <1>1, <1>3, <2>1, <3>1 DEF starts_with
    <3>2. CASE k = Len(p) + 1
      BY <1>1, <1>3, <2>1, <3>2
    <3>3. CASE k \in Len(p) + 2..Len(path)
      BY <1>1, <1>3, <2>1, <3>3
    <3>4. Len(p) \in Nat /\ Len(path) \in Nat
      BY <1>1
    <3>. HIDE DEF joined
    <3>. QED BY <3>1, <3>2, <3>3, <3>4
  <2>. HIDE DEF joined
  <2>4. path = joined
    BY <1>1, <2>2, <2>3
  <2>. QED BY <2>1, <2>4 DEF Text, joined
<1>4. ASSUME NEW rest \in Text, path = p \o <<Slash>> \o rest
      PROVE  starts_with(path, p) /\ Len(path) > Len(p) /\ path[Len(p) + 1] = Slash
  BY <1>1, <1>4 DEF Text, starts_with
<1>. QED BY <1>1, <1>2, <1>3, <1>4 DEF Subtree, p

(***************************************************************************)
(* Narrowing.                                                              *)
(***************************************************************************)

\* What a scope that lies within another covers, the other covers: whatever
\* the spelling of their entries (access.rs:62-69).
THEOREM WithinCovers ==
  ASSUME NEW self \in ScopeRecord, NEW outer \in ScopeRecord,
         NEW path \in Text, NEW tags \in SUBSET Tag,
         within(self, outer), covers(self, path, tags)
  PROVE  covers(outer, path, tags)
<1>1. CASE self.tags \cap tags # {}
  BY <1>1 DEF covers, within
<1>2. ASSUME NEW raw \in self.paths, PathHit(raw, path) PROVE covers(outer, path, tags)
  <2>. DEFINE p == normalize_prefix(raw)
  <2>1. PICK wide \in outer.paths : PathHit(wide, p)
    BY DEF within, covers
  <2>. DEFINE q == normalize_prefix(wide)
  <2>2. p \in Seq(Char) /\ q \in Seq(Char) /\ path \in Seq(Char)
    BY PrefixText DEF Text, ScopeRecord
  <2>3. CASE q = <<>>
    <3>1. PathHit(wide, path)
      BY <2>1, <2>3 DEF PathHit
    <3>. QED BY <3>1 DEF covers
  <2>4. CASE q # <<>>
    <3>1. p = q \/ (starts_with(p, q) /\ Len(p) > Len(q) /\ p[Len(q) + 1] = Slash)
      BY <2>1, <2>4 DEF PathHit
    <3>2. p # <<>>
      BY <2>2, <2>4, <3>1
    <3>3. path = p \/ (starts_with(path, p) /\ Len(path) > Len(p) /\ path[Len(p) + 1] = Slash)
      BY <1>2, <3>2 DEF PathHit
    <3>. HIDE DEF p, q
    <3>4. path = q \/ (starts_with(path, q) /\ Len(path) > Len(q) /\ path[Len(q) + 1] = Slash)
      BY <2>2, <3>1, <3>3 DEF starts_with
    <3>5. PathHit(wide, path)
      BY <2>4, <3>4 DEF PathHit, q
    <3>. QED BY <3>5 DEF covers
  <2>. QED BY <2>3, <2>4
<1>. QED BY <1>1, <1>2 DEF covers
=============================================================================
