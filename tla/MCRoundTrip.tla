---------------------------- MODULE MCRoundTrip -----------------------------
(***************************************************************************)
(* Small instances of RoundTrip: one word, both separators, and fields of  *)
(* at most two tokens.                                                     *)
(***************************************************************************)
EXTENDS RoundTrip

MCWord == {"active", "resolved", "closed", "deleted", "t", "l"}

Tokens == {"t", ",", "|"}

UpTo(n, S) == UNION {[1..k -> S] : k \in 0..n}

Short == UpTo(1, Tokens)

(***************************************************************************)
(* Separators anywhere; and only words, with any number of labels.         *)
(***************************************************************************)
AnyText ==
  [title: UpTo(2, Tokens), owner: Short, labels: UpTo(2, Short), status: {<<>>}]

PlainText ==
  [title: {<<"t">>}, owner: {<<"t">>}, labels: UpTo(2, {<<"l">>}), status: {<<>>}]
=============================================================================
