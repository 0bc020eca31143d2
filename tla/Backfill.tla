------------------------------ MODULE Backfill ------------------------------
(***************************************************************************)
(* The placeholder grammar and the two ways a stream restores it: the      *)
(* writer that holds back the tail of a raw run (pkg/protocol/backfill.go) *)
(* and the scans and edits of JSON leaves (pkg/redact/sse_leaf_scan.go,    *)
(* pkg/protocol/span.go).                                                  *)
(*                                                                         *)
(* A text is a sequence of cells. A placeholder is one of the sequences    *)
(* Tokens, whose first and last cell may coincide, as the two underscores  *)
(* of __PII_<type>_<digest>__ do. A restored secret is one cell, which     *)
(* differs with the spelling: raw, or escaped as a JSON string.            *)
(***************************************************************************)
EXTENDS Integers, Sequences, FiniteSets, FiniteSetsExt, SequencesExt

CONSTANTS
  Tokens,  \* the placeholders, as sequences of cells
  Secret   \* Secret[t]: the cells [raw, json] of the secret t stands for, for
           \* each placeholder t that the session minted and does not exclude

Mapped == DOMAIN Secret

\* The texts of the grammar, and those that hold secrets.
TokenCells  == UNION {Range(t) : t \in Tokens}
SecretCells == UNION {{Secret[t].raw, Secret[t].json} : t \in Mapped}

ASSUME GrammarOK ==
  /\ Tokens # {} /\ IsFiniteSet(Tokens) /\ Tokens \subseteq Seq(TokenCells)
  /\ Mapped \subseteq Tokens
  /\ \A t \in Tokens : t # <<>>
  /\ \A s, t \in Tokens : IsPrefix(s, t) => s = t

From(s, i)  == SubSeq(s, i, Len(s))

\* No placeholder of the grammar lies inside another one: a type and a digest have
\* no capital letter, and every placeholder begins with the two underscores and PII.
ASSUME NoneInside ==
  \A t, u \in Tokens : \A i \in 2 .. Len(t) : ~ IsPrefix(u, From(t, i))

MaxTokenLen == Max({Len(t) : t \in Tokens})

\* The length of the placeholder s starts with, or 0.
TokenLen(s) ==
  Max({0} \union {Len(t) : t \in {u \in Tokens : IsPrefix(u, s)}})

IsPlaceholderPrefix(s) == \E t \in Tokens : IsPrefix(s, t)

\* The longest head of s that can still grow into a placeholder.
PrefixLen(s) ==
  Max({k \in 0 .. Len(s) : IsPlaceholderPrefix(SubSeq(s, 1, k))})

\* Backfiller.Backfill of one token, in one spelling.
Backfilled(t, json) ==
  IF t \notin Mapped THEN t
  ELSE IF json THEN <<Secret[t].json>> ELSE <<Secret[t].raw>>

-----------------------------------------------------------------------------
(* BackfillWriter: Feed appends to held and releases. *)

\* Mutant of Release: only a tail as long as the shortest prefix is held back.
Release_Eager(held, json) ==
  LET after[i \in 1 .. Len(held) + 1] ==
        LET tail == From(held, i)
            n    == TokenLen(tail)
            rest(k, cells) == [after[i + k] EXCEPT !.out = cells \o @]
        IN  IF tail = <<>> THEN [out |-> <<>>, held |-> <<>>]
            ELSE IF n > 0 THEN rest(n, Backfilled(SubSeq(tail, 1, n), json))
            ELSE IF PrefixLen(tail) = Len(tail) /\ Len(tail) = 1
                   THEN [out |-> <<>>, held |-> tail]
            ELSE rest(1, <<tail[1]>>)
  IN  after[1]

\* Every complete placeholder and every cell that can no longer begin one, and
\* the tail that still can.
Release(held, json) ==
  LET after[i \in 1 .. Len(held) + 1] ==
        LET tail == From(held, i)
            n    == TokenLen(tail)
            rest(k, cells) == [after[i + k] EXCEPT !.out = cells \o @]
        IN  IF tail = <<>> THEN [out |-> <<>>, held |-> <<>>]
            ELSE IF n > 0 THEN rest(n, Backfilled(SubSeq(tail, 1, n), json))
            ELSE IF PrefixLen(tail) = Len(tail)
                   THEN [out |-> <<>>, held |-> tail]
            ELSE rest(1, <<tail[1]>>)
      r    == after[1]
      drop == Len(r.held) - MaxTokenLen
  IN  IF drop <= 0 THEN r
      ELSE [out  |-> r.out \o SubSeq(r.held, 1, drop), held |-> From(r.held, drop + 1)]

-----------------------------------------------------------------------------
(* Edits of a text: cells from .. to - 1 become rep. *)

\* Of two edits that overlap the one that starts first is kept, and of two that
\* start together the first in the list; an edit of no cells is not applied.
Apply(text, edits) ==
  LET after[i \in 1 .. Len(text) + 1] ==
        LET here == {k \in DOMAIN edits : edits[k].from = i /\ edits[k].to > i}
            e    == edits[Min(here)]
        IN  IF i > Len(text) THEN <<>>
            ELSE IF here = {} THEN <<text[i]>> \o after[i + 1]
            ELSE e.rep \o after[e.to]
  IN  after[1]

\* withinLeafEdits: the whole placeholders of a leaf, left to right.
WithinLeafEdits(text) ==
  LET after[i \in 1 .. Len(text) + 1] ==
        LET n == TokenLen(From(text, i))
            t == SubSeq(text, i, i + n - 1)
            e == [from |-> i, to |-> i + n, rep |-> Backfilled(t, TRUE)]
        IN  IF i > Len(text) THEN <<>>
            ELSE (IF t \in Mapped THEN <<e>> ELSE <<>>) \o after[IF n = 0 THEN i + 1 ELSE i + n]
  IN  after[1]

\* smallestPrefixAt: where the unresolved prefix that ends the text begins, or 0.
SmallestPrefixAt(text, from) ==
  LET at == {i \in from .. Len(text) :
               TokenLen(From(text, i)) = 0 /\ IsPlaceholderPrefix(From(text, i))}
  IN  IF at = {} THEN 0 ELSE Min(at)
=============================================================================
