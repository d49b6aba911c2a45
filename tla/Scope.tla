------------------------------- MODULE Scope -------------------------------
(***************************************************************************)
(* What a token or session may reach: Scope::normalize_prefix, covers and  *)
(* within of access.rs.  A path is a sequence of characters, because the   *)
(* matching is about single ones: where a segment ends, and what stands at *)
(* the end of an entry.                                                    *)
(***************************************************************************)
EXTENDS Integers, Sequences

CONSTANTS
  Char,   \* characters of paths and entries
  Tag     \* tags

Slash == "/"
Star == "*"
White == {" "}   \* all white space

Text == Seq(Char)
ScopeRecord == [paths: SUBSET Text, tags: SUBSET Tag]

------------------------------------------------------------------------------
Least(S) == CHOOSE n \in S : \A m \in S : n <= m

\* The lengths after which only characters of cs are left.
Ends(s, cs) == {n \in 0..Len(s) : \A k \in n + 1..Len(s) : s[k] \in cs}

trim_end(s, cs) == SubSeq(s, 1, Least(Ends(s, cs)))

\* The lengths after which nothing, or a character outside cs, comes next.
Starts(s, cs) == {n \in 0..Len(s) : n = Len(s) \/ s[n + 1] \notin cs}

trim_start(s, cs) == SubSeq(s, Least(Starts(s, cs)) + 1, Len(s))

\* raw.trim().trim_end_matches('/')
Bare(raw) == trim_end(trim_end(trim_start(raw, White), White), {Slash})

Everything(raw) == Bare(raw) = <<Star>>

normalize_prefix(raw) ==
  IF Everything(raw) THEN <<>> ELSE trim_end(trim_end(Bare(raw), {Star}), {Slash})

starts_with(s, p) == Len(p) <= Len(s) /\ \A k \in 1..Len(p) : s[k] = p[k]

\* One entry of paths against the path of an item.
PathHit(raw, path) ==
  LET p == normalize_prefix(raw) IN
  IF p = <<>>
  THEN Everything(raw)
  ELSE path = p \/ (starts_with(path, p) /\ Len(path) > Len(p) /\ path[Len(p) + 1] = Slash)

covers(self, path, tags) ==
  \/ \E raw \in self.paths : PathHit(raw, path)
  \/ self.tags \cap tags # {}

within(self, outer) ==
  /\ \A raw \in self.paths : covers(outer, normalize_prefix(raw), {})
  /\ self.tags \subseteq outer.tags
=============================================================================
