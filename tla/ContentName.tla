---------------------------- MODULE ContentName ----------------------------
(***************************************************************************)
(* Names of content and the choice of the rendezvous router of a name      *)
(* (Function.cpp).  A name is the sequence of its components, "/a/b" being *)
(* <<"a", "b">>.  Ids (MD5 values) are constants; the weights are computed *)
(* as in the code, by products that wrap around at the word size.          *)
(***************************************************************************)
EXTENDS Integers, Sequences

CONSTANTS
  a, b,      \* the factors of hRW
  Word,      \* the number of values of an unsigned long
  NameID,    \* getMD5ID of each name
  RotID,     \* ... and of "RRot-i"
  ExOr(_, _) \* the bitwise exclusive or, ^ in the code

\* getPrexfixs
Prexfixs(x) == {SubSeq(x, 1, k) : k \in 1 .. Len(x)}

ASSUME ContentAssumption ==
  /\ a \in Nat /\ b \in Nat /\ Word \in Nat \ {0}
  /\ RotID \in Seq(Nat)
  /\ \A i \in DOMAIN RotID, c \in DOMAIN NameID : ExOr((a * RotID[i] + b) % Word, NameID[c]) \in Nat
  /\ \A c \in DOMAIN NameID : Prexfixs(c) \subseteq DOMAIN NameID

\* readSubList: the names of a file and all that begin them.
SubListOf(file) == UNION {Prexfixs(x) : x \in file}

Weight(c, i) == (a * ExOr((a * RotID[i] + b) % Word, NameID[c]) + b) % Word

\* hRW: the number of the rendezvous router of greatest weight, of several
\* the first; a weight of zero is never chosen, and there may be no other.
NoRot == 0
HRW(c, rots) ==
  LET best(i) == Weight(c, i) > 0 /\ \A j \in rots : Weight(c, j) <= Weight(c, i)
      first(i) == best(i) /\ \A j \in rots : best(j) => i <= j
  IN  IF \E i \in rots : first(i) THEN CHOOSE i \in rots : first(i) ELSE NoRot

\* The publisher looks the name up as it stands.
RendezvousOfName(x, rots) == {HRW(x, rots)} \ {NoRot}
\* publishContent: the routers that get a publication.  To NoRot no face leads.
Rendezvous(x, rots) == {HRW(c, rots) : c \in Prexfixs(x)} \ {NoRot}
=============================================================================
