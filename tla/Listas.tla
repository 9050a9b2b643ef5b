------------------------------- MODULE Listas -------------------------------
(***************************************************************************)
(* What the pages and the server do with a list: keep some of its          *)
(* elements, in their order (Array.prototype.filter, `where` of findMany). *)
(***************************************************************************)
EXTENDS Naturals, Sequences, FiniteSets

\* The numbers of I, ascending.
Ascendente(I) ==
  CHOOSE f \in [1 .. Cardinality(I) -> I] :
    \A i, j \in 1 .. Cardinality(I) : i < j => f[i] < f[j]

\* The elements of s that are in S.
filter(s, S) ==
  LET quedan == Ascendente({i \in DOMAIN s : s[i] \in S}) IN
  [i \in DOMAIN quedan |-> s[quedan[i]]]
==============================================================================
